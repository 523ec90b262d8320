------------------------------ MODULE BusProofs ------------------------------
(* Proofs about Bus: for memory of any size, and whatever was written, in  *)
(* units of any size and in whatever mode, every address is read as on the *)
(* GBA, up to the named exceptions, and a register holds what was last     *)
(* written of each of its bytes.                                           *)
EXTENDS Bus, TLAPS
-----------------------------------------------------------------------------
(* Quotients and remainders, and units at the places they are aligned to.  *)
LEMMA Division ==
  ASSUME NEW x \in Nat, NEW n \in Nat \ {0}
  PROVE  /\ x \div n \in Nat /\ x % n \in 0 .. n - 1
         /\ x = n * (x \div n) + (x % n)
OBVIOUS

LEMMA QuotientIs ==
  ASSUME NEW x \in Nat, NEW n \in Nat \ {0}, NEW q \in Nat, NEW r \in 0 .. n - 1,
         x = n * q + r
  PROVE  x \div n = q /\ x % n = r
<1> DEFINE a == x \div n
           b == x % n
<1>1. a \in Nat /\ b \in 0 .. n - 1 /\ x = n * a + b
  BY Division
<1> HIDE DEF a, b
<1>2. n * (a - q) = r - b
  BY <1>1
<1>3. ~(a - q >= 1) /\ ~(a - q <= -1)
  <2>1. CASE a - q >= 1
    <3>1. n * (a - q) >= n
      BY <1>1, <2>1
    <3>2. QED
      BY <3>1, <1>1, <1>2
  <2>2. CASE a - q <= -1
    <3>1. n * (a - q) <= -n
      BY <1>1, <2>2
    <3>2. QED
      BY <3>1, <1>1, <1>2
  <2>3. QED
    BY <2>1, <2>2
<1>4. a = q /\ b = r
  BY <1>1, <1>2, <1>3
<1>5. QED
  BY <1>4 DEF a, b

LEMMA AlignIs ==
  ASSUME NEW x \in Nat, NEW w \in Widths
  PROVE  /\ Align(x, w) \in Nat /\ Align(x, w) <= x /\ x < Align(x, w) + w
         /\ Align(x, w) % w = 0 /\ (w = 1 => Align(x, w) = x)
BY DEF Align, Widths

(* What is aligned stays so in memory of any size that is a multiple of 4. *)
LEMMA AlignedIn ==
  ASSUME NEW x \in Nat, NEW d \in Nat \ {0}, NEW w \in Widths
  PROVE  /\ Align(x, w) % (4 * d) = Align(x % (4 * d), w)
         /\ Align(x, w) \div (4 * d) = x \div (4 * d)
         /\ Align(x % (4 * d), w) + w <= 4 * d
         /\ (x % (4 * d)) % w = x % w
<1> DEFINE n == 4 * d
           q == x \div n
           o == x % n
           k == d * q
<1>1. n \in Nat \ {0} /\ q \in Nat /\ o \in 0 .. n - 1 /\ x = n * q + o
  <2>1. n \in Nat \ {0}
    OBVIOUS
  <2> HIDE DEF n
  <2>2. QED
    BY <2>1, Division
<1>2. k \in Nat /\ n * q = 4 * k
  <2>1. q \in Nat
    BY <1>1
  <2> HIDE DEF q
  <2>2. QED
    BY <2>1
<1> HIDE DEF q, o, k
<1>3. o % w = x % w /\ w \in {1, 2, 4}
  <2>1. x = 4 * k + o /\ o \in Nat
    BY <1>1, <1>2
  <2>2. QED
    BY <1>2, <2>1, SMT DEF Widths
<1>4. Align(o, w) \in 0 .. n - 1 /\ Align(o, w) + w <= n
  <2>1. o \in Nat /\ o < 4 * d
    BY <1>1
  <2>2. QED
    BY <1>3, <2>1, SMT DEF Align
<1>5. Align(x, w) = n * q + Align(o, w) /\ Align(x, w) \in Nat
  <2>1. Align(x, w) = (4 * k + o) - (o % w)
    BY <1>1, <1>2, <1>3 DEF Align
  <2>2. Align(o, w) = o - (o % w) /\ o % w \in Int
    BY <1>1, <1>3, SMT DEF Align
  <2>3. Align(x, w) = 4 * k + Align(o, w)
    BY <1>1, <1>2, <2>1, <2>2
  <2>4. QED
    BY <1>2, <2>3, AlignIs
<1>6. Align(x, w) % n = Align(o, w) /\ Align(x, w) \div n = q
  <2> HIDE DEF n
  <2>1. QED
    BY <1>1, <1>4, <1>5, QuotientIs
<1>7. QED
  BY <1>3, <1>4, <1>6 DEF o, q

(* A block is a multiple of 4 bytes.                                       *)
Quarter == Block \div 4
LEMMA BlockIs ==
  /\ Quarter \in Nat \ {0} /\ Block = 4 * Quarter /\ RegionSize = 4 * (16 * Quarter)
  /\ 24 <= RegionSize
  /\ BytesOf["work"] = 4 * (4 * Quarter) /\ BytesOf["vram"] = 4 * (6 * Quarter)
  /\ BytesOf["internal"] = 4 * (2 * Quarter) /\ BytesOf["palette"] = 4 * (2 * Quarter)
  /\ BytesOf["oam"] = 4 * (2 * Quarter)
<1>1. Block \in Nat /\ Block % 4 = 0 /\ 16 * Block >= 24
  BY BusAssumption DEF IoSize
<1>2. Quarter \in Nat \ {0} /\ Block = 4 * Quarter
  BY <1>1, SMT DEF Quarter
<1>3. /\ BytesOf["work"] = 4 * Block /\ BytesOf["vram"] = 6 * Block
      /\ BytesOf["internal"] = 2 * Block /\ BytesOf["palette"] = 2 * Block
      /\ BytesOf["oam"] = 2 * Block
  BY DEF BytesOf
<1>4. QED
  BY <1>1, <1>2, <1>3 DEF RegionSize

(* Addresses of a region, and the units they are in.                       *)
LEMMA InRegion ==
  ASSUME NEW a \in Nat
  PROVE  /\ a % RegionSize \in Nat /\ a % RegionSize < RegionSize
         /\ a = RegionSize * Region(a) + (a % RegionSize) /\ Region(a) \in Nat
<1>1. RegionSize \in Nat \ {0}
  BY BlockIs
<1>2. QED
  BY <1>1, Division DEF Region

LEMMA UnitInRegion ==
  ASSUME NEW a \in Nat, NEW w \in Widths
  PROVE  /\ Align(a, w) \in Nat /\ Region(Align(a, w)) = Region(a)
         /\ Align(a, w) % RegionSize = Align(a % RegionSize, w)
         /\ (a % RegionSize) % 4 = a % 4 /\ (a % RegionSize) % 2 = a % 2
         /\ Align(a % RegionSize, w) + w <= RegionSize
<1>1. RegionSize = 4 * (16 * Quarter) /\ 16 * Quarter \in Nat \ {0}
  BY BlockIs
<1>2. 4 \in Widths /\ 2 \in Widths
  BY DEF Widths
<1>3. (a % RegionSize) % 4 = a % 4 /\ (a % RegionSize) % 2 = a % 2
  BY <1>1, <1>2, AlignedIn
<1>4. QED
  BY <1>1, <1>3, AlignIs, AlignedIn DEF Region

(* Where a unit of the memory is, in the emulator's and the GBA's.         *)
LEMMA MemoryPlace ==
  ASSUME NEW a \in Nat, InMemory(a), NEW w \in Widths
  PROVE  /\ Place(a) = GbaAt(a) /\ Place(a) \in Nat
         /\ Place(Align(a, w)) = Align(Place(a), w)
         /\ Align(Place(a), w) + w <= BytesOf[SpaceOf(a)]
         /\ SpaceOf(Align(a, w)) = SpaceOf(a) /\ InMemory(Align(a, w))
<1>1. /\ Align(a, w) \in Nat /\ Region(Align(a, w)) = Region(a)
      /\ Region(a) \in {2, 3, 5, 6, 7}
  BY UnitInRegion DEF InMemory, Mirrored
<1>2. SpaceOf(Align(a, w)) = SpaceOf(a) /\ InMemory(Align(a, w))
  BY <1>1 DEF SpaceOf, InMemory
<1>3. CASE Region(a) = 6
  <2> DEFINE o == a % (8 * Block)
             p == o \div Block
             u == o % Block
  <2>1. 8 * Block = 4 * (8 * Quarter) /\ 8 * Quarter \in Nat \ {0}
        /\ 8 * Block \in Nat \ {0} /\ Block \in Nat \ {0}
    BY BlockIs
  <2>2. o \in 0 .. (8 * Block) - 1
    BY <2>1, Division
  <2>3. /\ Align(a, w) % (8 * Block) = Align(o, w) /\ Align(o, w) + w <= 8 * Block
    BY <2>1, AlignedIn
  <2> HIDE DEF o
  <2>4. o \in Nat /\ p \in Nat /\ u \in 0 .. Block - 1 /\ o = Block * p + u
    <3>1. o \in Nat
      BY <2>1, <2>2
    <3>2. QED
      BY <2>1, <3>1, Division
  <2> HIDE DEF p, u
  <2>5. p \in 0 .. 7
    <3>1. CASE p >= 8
      <4>1. Block * p >= Block * 8
        BY <2>1, <2>4, <3>1
      <4>2. QED
        BY <2>1, <2>2, <2>4, <4>1
    <3>2. QED
      BY <2>4, <3>1
  <2>6. /\ Place(a) = IF o >= 6 * Block THEN o - (2 * Block) ELSE o
        /\ Place(Align(a, w)) = IF Align(o, w) >= 6 * Block THEN Align(o, w) - (2 * Block)
                                                         ELSE Align(o, w)
    BY <1>1, <1>3, <2>3 DEF Place, o
  <2>7. GbaAt(a) = Block * GbaBlock[p + 1] + u
    BY <1>3 DEF GbaAt, o, p, u
  <2>8. Place(a) = GbaAt(a)
    <3>1. \A i \in 0 .. 5 : GbaBlock[i + 1] = i
      BY DEF GbaBlock
    <3>2. GbaBlock[6 + 1] = 4 /\ GbaBlock[7 + 1] = 5
      BY DEF GbaBlock
    <3>3. CASE p \in 0 .. 5
      <4>1. Block * p <= Block * 5
        BY <2>1, <3>3
      <4>2. o < 6 * Block
        BY <2>1, <2>4, <4>1
      <4>3. QED
        BY <2>1, <2>4, <2>6, <2>7, <3>1, <3>3, <4>2
    <3>4. CASE p = 6
      BY <2>1, <2>4, <2>6, <2>7, <3>2, <3>4
    <3>5. CASE p = 7
      BY <2>1, <2>4, <2>6, <2>7, <3>2, <3>5
    <3>6. QED
      BY <2>5, <3>3, <3>4, <3>5
  <2>9. /\ Place(a) \in Nat /\ Place(Align(a, w)) = Align(Place(a), w)
        /\ Align(Place(a), w) + w <= 6 * Block
    <3>1. Quarter \in Nat /\ Block = 4 * Quarter
      BY BlockIs
    <3>2. w = 1 \/ w = 2 \/ w = 4
      BY DEF Widths
    <3>3. CASE o >= 6 * Block
      <4>1. Place(a) = o - (2 * Block) /\ Place(a) \in Nat
        BY <2>1, <2>4, <2>6, <3>3
      <4>2. (o - (2 * Block)) % w = o % w /\ Align(o, w) >= 6 * Block
        BY <2>4, <3>1, <3>2, <3>3, SMT DEF Align
      <4>3. Place(Align(a, w)) = Align(o, w) - (2 * Block)
        BY <2>6, <4>2
      <4>4. Align(Place(a), w) = Align(o, w) - (2 * Block)
        <5>1. /\ Align(Place(a), w) = (o - (2 * Block)) - (o % w)
              /\ Align(o, w) = o - (o % w)
          BY <4>1, <4>2 DEF Align
        <5>2. o % w \in Int
          BY <2>4, <3>2, SMT
        <5>3. QED
          BY <2>1, <2>4, <5>1, <5>2
      <4>5. Align(o, w) \in Nat /\ w \in Nat
        BY <2>4, <3>2, AlignIs
      <4>6. Align(o, w) - (2 * Block) + w <= 6 * Block
        BY <2>1, <2>3, <4>5
      <4>7. QED
        BY <4>1, <4>3, <4>4, <4>6
    <3>4. CASE o < 6 * Block
      <4>1. Align(o, w) \in Nat /\ Align(o, w) <= o
        BY <2>4, AlignIs
      <4>2. Place(a) = o /\ Place(Align(a, w)) = Align(o, w)
        BY <2>1, <2>4, <2>6, <3>4, <4>1
      <4>3. Align(o, w) + w <= 6 * Block
        BY <2>4, <3>1, <3>2, <3>4, SMT DEF Align
      <4>4. QED
        BY <2>4, <4>2, <4>3
    <3>5. QED
      BY <2>1, <2>4, <3>3, <3>4
  <2>10. BytesOf[SpaceOf(a)] = 6 * Block
    BY <1>3, BlockIs DEF SpaceOf
  <2>11. QED
    BY <1>2, <2>8, <2>9, <2>10
<1>4. CASE Region(a) # 6
  <2>1. PICK d \in Nat \ {0} : BytesOf[SpaceOf(a)] = 4 * d
    <3>1. SpaceOf(a) \in {"work", "internal", "palette", "oam"}
      BY <1>1, <1>4 DEF SpaceOf
    <3>2. Quarter \in Nat \ {0} /\ 4 * Quarter \in Nat \ {0} /\ 2 * Quarter \in Nat \ {0}
      BY BlockIs
    <3>3. QED
      BY <3>1, <3>2, BlockIs
  <2>2. Place(a) = a % (4 * d) /\ GbaAt(a) = a % (4 * d)
    BY <1>4, <2>1 DEF Place, GbaAt
  <2>3. Place(Align(a, w)) = Align(a, w) % (4 * d)
    BY <1>1, <1>2, <1>4, <2>1 DEF Place
  <2>4. 4 * d \in Nat \ {0}
    OBVIOUS
  <2>5. a % (4 * d) \in Nat
    BY <2>4, Division
  <2>6. QED
    BY <1>2, <2>1, <2>2, <2>3, <2>5, AlignedIn
<1>5. QED
  BY <1>3, <1>4
-----------------------------------------------------------------------------
(* The memory: spaces of bytes.                                            *)
Spaces == {"work", "internal", "palette", "vram", "oam"}
IsMemory(m) ==
  /\ m = [s \in Spaces |-> m[s]]
  /\ \A s \in Spaces : m[s] = [i \in 0 .. BytesOf[s] - 1 |-> m[s][i]]

LEMMA SpacesAre ==
  /\ DOMAIN BytesOf = Spaces /\ \A s \in Spaces : BytesOf[s] \in Nat
  /\ \A a : InMemory(a) => SpaceOf(a) \in Spaces
<1>1. DOMAIN BytesOf = Spaces
  BY DEF BytesOf, Spaces
<1>2. \A s \in Spaces : BytesOf[s] \in Nat
  <2>1. Quarter \in Nat
    BY BlockIs
  <2>2. QED
    BY <2>1, BlockIs DEF Spaces
<1>3. \A a : InMemory(a) => SpaceOf(a) \in Spaces
  BY DEF InMemory, Mirrored, SpaceOf, Spaces
<1>4. QED
  BY <1>1, <1>2, <1>3

(* One byte of a space, after a unit was put somewhere in it.              *)
LEMMA PutIs ==
  ASSUME NEW m, NEW n \in Nat, DOMAIN m = 0 .. n - 1, NEW at \in Nat, NEW v,
         NEW w \in Nat, Len(v) = w
  PROVE  Put(m, at, v) = [i \in 0 .. n - 1 |->
                            IF i \in at .. at + w - 1 THEN v[i - at + 1] ELSE m[i]]
BY DEF Put

(* A unit written ends where the GBA would put it.                         *)
LEMMA StoredAsOnTheGba ==
  ASSUME NEW a \in Nat, InMemory(a), NEW w \in Widths, NEW v, Len(v) = w,
         displayMode \in Nat, gbaMem = mem, IsMemory(mem), ~(Region(a) = 6 /\ Hole(a))
  PROVE  LET s == SpaceOf(a)
         IN  Stored(mem[s], s, Place(Align(a, w)), v)
               = [i \in DOMAIN mem[s] |->
                    IF i \in GbaPlaces(a, w) THEN v[(i % w) + 1] ELSE mem[s][i]]
<1> DEFINE s == SpaceOf(a)
           m == mem[s]
           n == BytesOf[s]
           p == Place(a)
<1>1. /\ s \in Spaces /\ n \in Nat /\ m = [i \in 0 .. n - 1 |-> m[i]]
      /\ DOMAIN m = 0 .. n - 1
  BY SpacesAre DEF IsMemory
<1>2. /\ p = GbaAt(a) /\ p \in Nat
      /\ \A u \in Widths :
           /\ Place(Align(a, u)) = Align(p, u) /\ GbaAt(Align(a, u)) = Align(p, u)
           /\ Align(p, u) + u <= n
  <2>1. p = GbaAt(a) /\ p \in Nat
    BY MemoryPlace
  <2>2. ASSUME NEW u \in Widths
        PROVE  /\ Place(Align(a, u)) = Align(p, u) /\ GbaAt(Align(a, u)) = Align(p, u)
               /\ Align(p, u) + u <= n
    <3>1. /\ Place(Align(a, u)) = Align(p, u) /\ Align(p, u) + u <= n
          /\ InMemory(Align(a, u)) /\ Align(a, u) \in Nat
      BY MemoryPlace, UnitInRegion
    <3>2. Place(Align(a, u)) = GbaAt(Align(a, u))
      BY <3>1, MemoryPlace
    <3>3. QED
      BY <3>1, <3>2
  <2>3. QED
    BY <2>1, <2>2
<1> HIDE DEF m, n, p
<1>3. CASE w > 1
  <2>1. Stored(m, s, Align(p, w), v) = Put(m, Align(p, w), v)
    BY <1>3 DEF Stored
  <2>2. GbaPlaces(a, w) = {Align(p, w) + k : k \in 0 .. w - 1}
    BY <1>2, <1>3 DEF GbaPlaces
  <2> DEFINE at == Align(p, w)
  <2>3. at \in Nat /\ at % w = 0 /\ w \in Nat
    <3>1. w \in Nat
      BY DEF Widths
    <3>2. QED
      BY <1>2, <3>1, AlignIs
  <2> HIDE DEF at
  <2>4. ASSUME NEW i \in Nat
        PROVE  /\ i \in at .. at + w - 1 <=> i \in {at + k : k \in 0 .. w - 1}
               /\ i \in at .. at + w - 1 => i - at + 1 = (i % w) + 1
    <3>1. i \in at .. at + w - 1 => i - at \in 0 .. w - 1 /\ i = at + (i - at)
      BY <2>3
    <3>2. \A k \in 0 .. w - 1 : at + k \in at .. at + w - 1
      BY <2>3
    <3>3. i \in at .. at + w - 1 => i - at = i % w
      BY <2>3, SMT DEF Widths
    <3>4. QED
      BY <2>3, <3>1, <3>2, <3>3
  <2>5. Put(m, at, v) = [i \in 0 .. n - 1 |->
                          IF i \in at .. at + w - 1 THEN v[i - at + 1] ELSE m[i]]
    BY <1>1, <2>3, PutIs
  <2>6. Put(m, at, v) = [i \in 0 .. n - 1 |->
                          IF i \in {at + k : k \in 0 .. w - 1} THEN v[(i % w) + 1] ELSE m[i]]
    BY <2>4, <2>5
  <2>7. QED
    BY <1>1, <1>2, <2>1, <2>2, <2>6 DEF at, m
<1>4. CASE w = 1
  <2>1. /\ Align(p, 1) = p /\ 1 \in Widths /\ 2 \in Widths /\ p + 1 <= n
        /\ Align(p, 2) \in Nat /\ Align(p, 2) + 2 <= n
    BY <1>2, AlignIs DEF Widths
  <2>2. /\ Place(Align(a, w)) = p
        /\ GbaHalf(a) = {Align(p, 2), Align(p, 2) + 1}
    BY <1>2, <1>4, <2>1 DEF GbaHalf
  <2>3. \A i \in Nat : (i % w) + 1 = 1
    BY <1>4, SMT
  <2>4. Region(a) \in {2, 3, 5, 6, 7}
    BY DEF InMemory, Mirrored
  <2>5. CASE Region(a) \in {2, 3}
    <3>1. s \in {"work", "internal"}
      BY <2>5 DEF SpaceOf
    <3>2. Stored(m, s, p, v) = Put(m, p, v)
      BY <3>1 DEF Stored
    <3>3. GbaPlaces(a, w) = {p}
      BY <1>2, <1>4, <2>5 DEF GbaPlaces
    <3>4. Put(m, p, v) = [i \in 0 .. n - 1 |->
                            IF i \in p .. p + w - 1 THEN v[i - p + 1] ELSE m[i]]
      <4>1. w \in Nat /\ n \in Nat /\ p \in Nat /\ DOMAIN m = 0 .. n - 1 /\ Len(v) = w
        BY <1>1, <1>2, <1>4
      <4>2. QED
        BY ONLY <4>1, PutIs
    <3>5. \A i \in 0 .. n - 1 : /\ i \in p .. p + w - 1 <=> i \in {p}
                                /\ i \in {p} => i - p + 1 = (i % w) + 1
      BY <1>1, <1>2, <1>4, <2>3
    <3>6. Put(m, p, v) = [i \in 0 .. n - 1 |-> IF i \in {p} THEN v[(i % w) + 1] ELSE m[i]]
      BY <3>4, <3>5
    <3>7. QED
      BY <1>1, <2>2, <3>2, <3>3, <3>6 DEF m
  <2>6. ASSUME GbaPlaces(a, w) = GbaHalf(a),
               Stored(m, s, p, v) = Put(m, Align(p, 2), <<v[1], v[1]>>)
        PROVE  Stored(m, s, p, v) =
                 [i \in DOMAIN m |-> IF i \in GbaPlaces(a, w) THEN v[(i % w) + 1] ELSE m[i]]
    <3> DEFINE at == Align(p, 2)
               vv == <<v[1], v[1]>>
    <3>1. Len(vv) = 2 /\ vv[1] = v[1] /\ vv[2] = v[1] /\ at \in Nat
      BY <2>1
    <3> HIDE DEF at, vv
    <3>2. Put(m, at, vv) = [i \in 0 .. n - 1 |->
                             IF i \in at .. at + 2 - 1 THEN vv[i - at + 1] ELSE m[i]]
      <4>1. n \in Nat /\ at \in Nat /\ DOMAIN m = 0 .. n - 1 /\ Len(vv) = 2
        BY <1>1, <3>1
      <4>2. QED
        BY <4>1 DEF Put
    <3>3. \A i \in 0 .. n - 1 : /\ i \in at .. at + 2 - 1 <=> i \in {at, at + 1}
                                /\ i \in {at, at + 1} => vv[i - at + 1] = v[(i % w) + 1]
      <4>1. ASSUME NEW i \in 0 .. n - 1
            PROVE  /\ i \in at .. at + 2 - 1 <=> i \in {at, at + 1}
                   /\ i \in {at, at + 1} => vv[i - at + 1] = v[(i % w) + 1]
        <5>0. i \in Nat
          BY <1>1
        <5>1. i \in Nat /\ v[(i % w) + 1] = v[1]
          <6>1. (i % w) + 1 = 1
            BY <5>0, <2>3
          <6>2. QED
            BY <5>0, <6>1
        <5>2. i \in {at, at + 1} => vv[i - at + 1] = v[1]
          BY <3>1, <5>1
        <5>3. i \in at .. at + 2 - 1 <=> i \in {at, at + 1}
          BY <3>1, <5>1
        <5>4. QED
          BY <5>1, <5>2, <5>3
      <4>2. QED
        BY <4>1
    <3>4. Put(m, at, vv) = [i \in 0 .. n - 1 |->
                             IF i \in {at, at + 1} THEN v[(i % w) + 1] ELSE m[i]]
      BY <3>2, <3>3
    <3>5. QED
      BY <1>1, <2>2, <2>6, <3>4 DEF at, vv
  <2>7. ASSUME GbaPlaces(a, w) = {}, Stored(m, s, p, v) = m
        PROVE  Stored(m, s, p, v) =
                 [i \in DOMAIN m |-> IF i \in GbaPlaces(a, w) THEN v[(i % w) + 1] ELSE m[i]]
    BY <1>1, <2>7
  <2>8. CASE Region(a) = 5
    <3>1. s = "palette"
      BY <2>8 DEF SpaceOf
    <3>2. Stored(m, s, p, v) = Put(m, Align(p, 2), <<v[1], v[1]>>)
      BY <1>4, <3>1 DEF Stored
    <3>3. GbaPlaces(a, w) = GbaHalf(a)
      BY <1>4, <2>8 DEF GbaPlaces
    <3>4. QED
      BY <2>2, <2>6, <3>2, <3>3 DEF m
  <2>9. CASE Region(a) = 6
    <3>1. s = "vram"
      BY <2>9 DEF SpaceOf
    <3>2. objTilesAddress = (IF displayMode <= 2 THEN 4 ELSE 5) * Block
      BY DEF objTilesAddress
    <3>3. CASE p < objTilesAddress
      <4>1. Stored(m, s, p, v) = Put(m, Align(p, 2), <<v[1], v[1]>>)
        BY <1>4, <3>1, <3>3 DEF Stored
      <4>2. GbaPlaces(a, w) = GbaHalf(a)
        BY <1>2, <1>4, <2>9, <3>2, <3>3 DEF GbaPlaces
      <4>3. QED
        BY <2>2, <2>6, <4>1, <4>2 DEF m
    <3>4. CASE ~(p < objTilesAddress)
      <4>1. Stored(m, s, p, v) = m
        BY <1>4, <3>1, <3>4 DEF Stored
      <4>2. GbaPlaces(a, w) = {}
        BY <1>2, <1>4, <2>9, <3>2, <3>4 DEF GbaPlaces
      <4>3. QED
        BY <2>2, <2>7, <4>1, <4>2 DEF m
    <3>5. QED
      BY <3>3, <3>4
  <2>10. CASE Region(a) = 7
    <3>1. s = "oam"
      BY <2>10 DEF SpaceOf
    <3>2. Stored(m, s, p, v) = m
      BY <1>4, <3>1 DEF Stored
    <3>3. GbaPlaces(a, w) = {}
      BY <1>4, <2>10 DEF GbaPlaces
    <3>4. QED
      BY <2>2, <2>7, <3>2, <3>3 DEF m
  <2>11. QED
    BY <2>4, <2>5, <2>8, <2>9, <2>10
<1>5. QED
  BY <1>3, <1>4 DEF Widths

LEMMA WrittenAsOnTheGba ==
  ASSUME NEW a \in Nat, InMemory(a), NEW w \in Widths, NEW v, Len(v) = w,
         displayMode \in Nat, gbaMem = mem, IsMemory(mem)
  PROVE  WriteMemory(a, v) = GbaWrite(a, v) /\ IsMemory(GbaWrite(a, v))
<1> DEFINE s == SpaceOf(a)
           byte(i) == IF i \in GbaPlaces(a, w) THEN v[(i % w) + 1] ELSE mem[s][i]
           cell == [i \in DOMAIN mem[s] |-> byte(i)]
<1>1. s \in Spaces /\ mem = [t \in Spaces |-> mem[t]] /\ BytesOf[s] \in Nat
  BY SpacesAre DEF IsMemory
<1>2. DOMAIN mem[s] = 0 .. BytesOf[s] - 1
  <2>1. mem[s] = [i \in 0 .. BytesOf[s] - 1 |-> mem[s][i]]
    BY <1>1 DEF IsMemory
  <2>2. QED
    BY <2>1
<1>3. GbaWrite(a, v) = [mem EXCEPT ![s] = cell]
  BY DEF GbaWrite
<1>4. IsMemory([mem EXCEPT ![s] = cell])
  <2>1. cell = [i \in 0 .. BytesOf[s] - 1 |-> cell[i]]
    BY <1>2
  <2> HIDE DEF cell, s
  <2>2. QED
    BY <1>1, <2>1 DEF IsMemory
<1>5. CASE Region(a) = 6 /\ Hole(a)
  <2>1. WriteMemory(a, v) = mem /\ GbaPlaces(a, w) = {}
    BY <1>5 DEF WriteMemory, GbaPlaces
  <2>2. cell = mem[s]
    <3>1. mem[s] = [i \in DOMAIN mem[s] |-> mem[s][i]]
      BY <1>1 DEF IsMemory
    <3>2. cell = [i \in DOMAIN mem[s] |-> mem[s][i]]
      BY <2>1
    <3>3. QED
      BY <3>1, <3>2
  <2> HIDE DEF cell, s
  <2>3. [mem EXCEPT ![s] = cell] = mem
    BY <1>1, <2>2
  <2>4. QED
    BY <1>3, <1>4, <2>1, <2>3
<1>6. CASE ~(Region(a) = 6 /\ Hole(a))
  <2>1. WriteMemory(a, v) = [mem EXCEPT ![s] = Stored(@, s, Place(Align(a, w)), v)]
    BY <1>6 DEF WriteMemory
  <2>2. Stored(mem[s], s, Place(Align(a, w)), v) = cell
    BY <1>6, StoredAsOnTheGba
  <2>3. QED
    BY <1>3, <1>4, <2>1, <2>2
<1>7. QED
  BY <1>5, <1>6

(* And is read from there: in VRAM as the unit an address is in, elsewhere *)
(* turned by the address.                                                  *)
LEMMA AlignedUnit ==
  ASSUME NEW a \in Nat, NEW w \in Widths
  PROVE  LET b == Align(a, w)
         IN /\ b \in Nat /\ Align(b, w) = b /\ Hole(b) = Hole(a)
            /\ \A v : v = [k \in 1 .. w |-> v[k]] => Turned(v, b) = v
<1> DEFINE b == Align(a, w)
           o == a % (8 * Block)
<1>1. b \in Nat /\ b % w = 0 /\ (w = 1 \/ w = 2 \/ w = 4)
  BY AlignIs DEF Widths
<1>2. Quarter \in Nat \ {0} /\ 8 * Quarter \in Nat \ {0} /\ Block = 4 * Quarter
      /\ 8 * Block = 4 * (8 * Quarter)
  BY BlockIs
<1>3. b % (8 * Block) = Align(o, w) /\ o \in Nat
  <2>1. o \in Nat
    BY <1>2, Division
  <2>2. a % (4 * (8 * Quarter)) = o
    BY <1>2
  <2>3. Align(a, w) % (4 * (8 * Quarter)) = Align(a % (4 * (8 * Quarter)), w)
    BY ONLY <1>2, AlignedIn, a \in Nat, w \in Widths
  <2>4. b % (8 * Block) = Align(a, w) % (4 * (8 * Quarter))
    BY <1>2
  <2> HIDE DEF b, o
  <2>5. QED
    BY ONLY <2>1, <2>2, <2>3, <2>4
<1>4. Align(o, w) \div Block = o \div Block
  BY <1>2, <1>3, AlignedIn
<1>5. Hole(b) = Hole(a)
  BY <1>3, <1>4 DEF Hole
<1> HIDE DEF b, o
<1>6. Align(b, w) = b
  BY <1>1 DEF Align
<1>7. ASSUME NEW v, v = [k \in 1 .. w |-> v[k]]
      PROVE  Turned(v, b) = v
  <2>1. CASE w = 4
    <3>1. v = [k \in 1 .. 4 |-> v[k]] /\ Len(v) = 4
      BY <1>7, <2>1
    <3>2. \A k \in 1 .. 4 : ((k - 1 + b) % 4) + 1 = k
      BY <1>1, <2>1
    <3>3. [k \in 1 .. 4 |-> v[((k - 1 + b) % 4) + 1]] = [k \in 1 .. 4 |-> v[k]]
      BY ONLY <3>2
    <3>4. QED
      BY ONLY <3>1, <3>3 DEF Turned
  <2>2. CASE w = 2
    <3>1. Len(v) = 2
      BY <1>7, <2>2
    <3>2. b % 2 # 1
      BY <1>1, <2>2
    <3>3. QED
      BY ONLY <3>1, <3>2 DEF Turned
  <2>3. CASE w = 1
    <3>1. Len(v) = 1
      BY <1>7, <2>3
    <3>2. QED
      BY ONLY <3>1 DEF Turned
  <2>4. QED
    BY <1>1, <2>1, <2>2, <2>3
<1>8. QED
  BY <1>1, <1>5, <1>6, <1>7 DEF b

LEMMA ReadAsOnTheGba ==
  ASSUME NEW a \in Nat, InMemory(a), NEW w \in Widths, gbaMem = mem
  PROVE  ReadMemory(a, w) = GbaRead(AsRead(a, w), w)
<1>1. /\ Region(a) # 4 /\ SpaceOf(Align(a, w)) = SpaceOf(a)
      /\ InMemory(Align(a, w)) /\ Region(Align(a, w)) = Region(a)
  BY MemoryPlace, UnitInRegion DEF InMemory, Mirrored
<1>2. Place(Align(a, w)) = GbaAt(Align(a, w))
  <2>1. Align(a, w) \in Nat /\ InMemory(Align(a, w)) /\ 1 \in Widths
    BY MemoryPlace, UnitInRegion DEF Widths
  <2>2. QED
    BY <2>1, MemoryPlace
<1>3. CASE Region(a) # 6
  BY <1>1, <1>2, <1>3 DEF ReadMemory, GbaRead, AsRead, Fetch
<1>4. CASE Region(a) = 6
  <2> DEFINE b == Align(a, w)
             m == mem[SpaceOf(a)]
             unit == [k \in 1 .. w |-> m[GbaAt(b) + k - 1]]
  <2>1. /\ Align(b, w) = b /\ Hole(b) = Hole(a)
        /\ Turned(unit, b) = unit /\ Turned(Zeros(w), b) = Zeros(w)
    <3>1. unit = [k \in 1 .. w |-> unit[k]] /\ Zeros(w) = [k \in 1 .. w |-> Zeros(w)[k]]
      BY DEF Zeros
    <3> HIDE DEF unit
    <3>2. QED
      BY <3>1, AlignedUnit
  <2>2. GbaRead(b, w) = Turned(IF Hole(b) THEN Zeros(w) ELSE unit, b)
    BY <1>1, <1>4, <2>1 DEF GbaRead
  <2>3. ReadMemory(a, w) = IF Hole(a) THEN Zeros(w) ELSE unit
    BY <1>2, <1>4 DEF ReadMemory, Fetch
  <2>4. AsRead(a, w) = b
    BY <1>4 DEF AsRead
  <2> HIDE DEF unit
  <2>5. QED
    BY <2>1, <2>2, <2>3, <2>4
<1>5. QED
  BY <1>3, <1>4
-----------------------------------------------------------------------------
(* The registers, two bytes each.                                          *)
LEMMA SlotsAre ==
  /\ Slots = {0, 2, 4, 6, 8, 10, 12, 14, 16, 18, 20, 22} /\ IoSize = 24
  /\ Kind[0] = "line" /\ Kind[2] = "line" /\ Kind[4] = "plain" /\ Kind[6] = "IF"
  /\ Kind[8] = "count" /\ Kind[10] = "plain" /\ Kind[12] = "hidden" /\ Kind[14] = "hidden"
  /\ Kind[16] = "sound" /\ Kind[18] = "sound" /\ Kind[20] = "timer" /\ Kind[22] = "timer"
<1>1. Slots = {0, 2, 4, 6, 8, 10, 12, 14, 16, 18, 20, 22}
  <2>1. 0 .. 11 = {0, 1, 2, 3, 4, 5, 6, 7, 8, 9, 10, 11}
    OBVIOUS
  <2>2. Slots = {2 * k : k \in {0, 1, 2, 3, 4, 5, 6, 7, 8, 9, 10, 11}}
    BY <2>1, Zenon DEF Slots
  <2>3. QED
    BY <2>2
<1>2. QED
  BY <1>1 DEF Kind, IoSize

(* The slot of a byte, and what a unit at a place is made of.              *)
LEMMA SlotOf ==
  ASSUME NEW off \in Nat, off < 24, NEW w \in Widths
  PROVE  /\ Align(off, 2) \in Slots /\ off \in {Align(off, 2), Align(off, 2) + 1}
         /\ w > 1 => Align(off, w) \in Slots
         /\ w = 4 => Align(off, w) + 2 \in Slots
<1>1. \A x \in Nat : x < 24 /\ x % 2 = 0 => x \in Slots
  BY SlotsAre, SMT
<1>2. /\ Align(off, 2) \in Nat /\ Align(off, 2) <= off /\ off < Align(off, 2) + 2
      /\ Align(off, 2) % 2 = 0
  BY AlignIs DEF Widths
<1>3. Align(off, w) \in Nat /\ Align(off, w) <= off /\ Align(off, w) % w = 0
  BY AlignIs
<1>4. w = 4 => (Align(off, w) + 2) % 2 = 0 /\ Align(off, w) % 2 = 0 /\ Align(off, w) + 2 < 24
  BY <1>3, SMT
<1>5. QED
  BY <1>1, <1>2, <1>3, <1>4 DEF Widths

(* What the accessors hold of one register, when the GBA's is gba and bw   *)
(* are those last written by the byte.                                     *)
IsBytes(f) == f = [i \in 0 .. 23 |-> f[i]]
IsIo(io) == io = [ioMem |-> [i \in 0 .. 23 |-> io.ioMem[i]], reg |-> [s \in Slots |-> io.reg[s]]]
Reads(io, gba, s) == io.ioMem[s] = gba[s] /\ io.ioMem[s + 1] = gba[s + 1]
Held(io, gba, bw, s) ==
  /\ Kind[s] \in {"plain", "hidden"} =>
       Reads(io, gba, s) /\ io.reg[s] = <<gba[s], gba[s + 1]>>
  /\ Kind[s] = "count" =>
       /\ io.ioMem[s] = 0 /\ io.ioMem[s + 1] = 0
       /\ s \notin bw => io.reg[s] = <<gba[s], gba[s + 1]>>
  /\ Kind[s] = "sound" /\ s \notin bw =>
       Reads(io, gba, s) /\ io.reg[s] = <<gba[s], gba[s + 1]>>

LEMMA UpdateIs ==
  ASSUME NEW io, IsIo(io), NEW s \in Slots, NEW x, NEW y,
         NEW new, new = Update(io, s, <<x, y>>)
  PROVE  /\ IsIo(new)
         /\ \A i \in 0 .. 23 : i \notin {s, s + 1} => new.ioMem[i] = io.ioMem[i]
         /\ \A t \in Slots : t # s => new.reg[t] = io.reg[t]
         /\ Kind[s] \in {"plain", "hidden", "sound"} =>
              new.ioMem[s] = x /\ new.ioMem[s + 1] = y /\ new.reg[s] = <<x, y>>
         /\ Kind[s] = "count" =>
              new.ioMem[s] = 0 /\ new.ioMem[s + 1] = 0 /\ new.reg[s] = <<x, y>>
<1> DEFINE v == <<x, y>>
<1>1. s \in 0 .. 22
  BY SlotsAre
<1>2. Len(v) = 2 /\ v[1] = x /\ v[2] = y
  OBVIOUS
<1>3. /\ DOMAIN io.ioMem = 0 .. 23 /\ DOMAIN io.reg = Slots
      /\ io = [ioMem |-> io.ioMem, reg |-> io.reg]
  BY DEF IsIo
<1>4. ASSUME NEW u, Len(u) = 2
      PROVE  Put(io.ioMem, s, u) =
               [i \in 0 .. 23 |-> IF i \in {s, s + 1} THEN u[i - s + 1] ELSE io.ioMem[i]]
  <2>1. Put(io.ioMem, s, u) = [i \in 0 .. 23 |->
                                 IF i \in s .. s + 2 - 1 THEN u[i - s + 1] ELSE io.ioMem[i]]
    BY <1>1, <1>3, <1>4 DEF Put
  <2>2. \A i \in 0 .. 23 : i \in s .. s + 2 - 1 <=> i \in {s, s + 1}
    BY <1>1
  <2>3. QED
    BY <2>1, <2>2
<1> HIDE DEF v
<1>5. ASSUME NEW u, NEW m,
             m = [i \in 0 .. 23 |-> IF i \in {s, s + 1} THEN u[i - s + 1] ELSE io.ioMem[i]],
             new = [ioMem |-> m, reg |-> [io.reg EXCEPT ![s] = v]]
      PROVE  /\ IsIo(new) /\ new.ioMem[s] = u[1] /\ new.ioMem[s + 1] = u[2]
             /\ \A i \in 0 .. 23 : i \notin {s, s + 1} => new.ioMem[i] = io.ioMem[i]
             /\ new.reg[s] = v /\ \A t \in Slots : t # s => new.reg[t] = io.reg[t]
  <2>1. new.ioMem = m /\ new.reg = [io.reg EXCEPT ![s] = v]
    BY <1>5
  <2>2. new.reg = [t \in Slots |-> new.reg[t]] /\ new.ioMem = [i \in 0 .. 23 |-> new.ioMem[i]]
    BY <1>3, <1>5, <2>1
  <2>3. new.reg[s] = v /\ \A t \in Slots : t # s => new.reg[t] = io.reg[t]
    BY <1>3, <2>1
  <2>4. s \in 0 .. 23 /\ s + 1 \in 0 .. 23 /\ s - s + 1 = 1 /\ s + 1 - s + 1 = 2
    BY <1>1
  <2>5. m[s] = u[1] /\ m[s + 1] = u[2]
    BY <1>5, <2>4
  <2>6. \A i \in 0 .. 23 : i \notin {s, s + 1} => m[i] = io.ioMem[i]
    BY <1>5
  <2>7. IsIo(new)
    BY <1>5, <2>1, <2>2 DEF IsIo
  <2>8. QED
    BY <2>1, <2>3, <2>5, <2>6, <2>7
<1>6. CASE Kind[s] \in {"plain", "hidden", "sound"}
  <2>1. new = [ioMem |-> Put(io.ioMem, s, v), reg |-> [io.reg EXCEPT ![s] = v]]
    BY <1>6 DEF Update, v
  <2> DEFINE m == Put(io.ioMem, s, v)
  <2>2. m = [i \in 0 .. 23 |-> IF i \in {s, s + 1} THEN v[i - s + 1] ELSE io.ioMem[i]]
    BY <1>2, <1>4
  <2> HIDE DEF m
  <2>3. /\ IsIo(new) /\ new.ioMem[s] = v[1] /\ new.ioMem[s + 1] = v[2]
        /\ \A i \in 0 .. 23 : i \notin {s, s + 1} => new.ioMem[i] = io.ioMem[i]
        /\ new.reg[s] = v /\ \A t \in Slots : t # s => new.reg[t] = io.reg[t]
    <3>1. new = [ioMem |-> m, reg |-> [io.reg EXCEPT ![s] = v]]
      BY <2>1 DEF m
    <3>2. QED
      BY ONLY <1>5, <2>2, <3>1
  <2>4. QED
    BY <1>2, <1>6, <2>3 DEF v
<1>7. CASE Kind[s] = "count"
  <2>1. new = [ioMem |-> Put(io.ioMem, s, Zeros(2)), reg |-> [io.reg EXCEPT ![s] = v]]
    BY <1>7 DEF Update, v
  <2>2. Len(Zeros(2)) = 2 /\ Zeros(2)[1] = 0 /\ Zeros(2)[2] = 0
    BY DEF Zeros
  <2> DEFINE z == Zeros(2)
             m == Put(io.ioMem, s, z)
  <2>3. m = [i \in 0 .. 23 |-> IF i \in {s, s + 1} THEN z[i - s + 1] ELSE io.ioMem[i]]
    BY <1>4, <2>2
  <2> HIDE DEF z, m
  <2>4. /\ IsIo(new) /\ new.ioMem[s] = z[1] /\ new.ioMem[s + 1] = z[2]
        /\ \A i \in 0 .. 23 : i \notin {s, s + 1} => new.ioMem[i] = io.ioMem[i]
        /\ new.reg[s] = v /\ \A t \in Slots : t # s => new.reg[t] = io.reg[t]
    <3>1. new = [ioMem |-> m, reg |-> [io.reg EXCEPT ![s] = v]]
      BY <2>1 DEF m, z
    <3>2. QED
      BY ONLY <1>5, <2>3, <3>1
  <2>5. QED
    BY <1>7, <2>2, <2>4 DEF v, z
<1>8. CASE Kind[s] \notin {"plain", "hidden", "sound", "count"}
  <2>1. new = io
    BY <1>8 DEF Update
  <2>2. QED
    BY <1>8, <2>1
<1>9. QED
  BY <1>6, <1>7, <1>8

(* A register that is updated with the GBA's bytes holds them.             *)
LEMMA HeldAnew ==
  ASSUME NEW io, IsIo(io), NEW s \in Slots, NEW gba, NEW bw,
         NEW new, new = Update(io, s, <<gba[s], gba[s + 1]>>)
  PROVE  Held(new, gba, bw, s)
<1>1. /\ Kind[s] \in {"plain", "hidden", "sound"} =>
           new.ioMem[s] = gba[s] /\ new.ioMem[s + 1] = gba[s + 1]
           /\ new.reg[s] = <<gba[s], gba[s + 1]>>
      /\ Kind[s] = "count" =>
           new.ioMem[s] = 0 /\ new.ioMem[s + 1] = 0 /\ new.reg[s] = <<gba[s], gba[s + 1]>>
  BY UpdateIs
<1>2. QED
  BY <1>1 DEF Held, Reads

(* Bytes outside of a unit stay what they are.                             *)
SameBeside(f, g, b, w) == \A i \in 0 .. 23 : i < b \/ i >= b + w => f[i] = g[i]

LEMMA GbaWriteRegIs ==
  ASSUME NEW off \in Nat, NEW w \in Widths, NEW v, Len(v) = w,
         IsBytes(gbaReg), NEW gba, gba = GbaWriteReg(off, v),
         NEW b, b = Align(off, w)
  PROVE  /\ IsBytes(gba)
         /\ SameBeside(gba, gbaReg, b, w)
         /\ off < 24 => \A k \in 1 .. w : gba[b + k - 1] = v[k]
<1>1. b \in Nat /\ b <= off /\ off < b + w /\ w \in Nat
  <2>1. w \in Nat
    BY DEF Widths
  <2>2. QED
    BY <2>1, AlignIs
<1>2. off < 24 => b + w <= 24
  <2>1. b % w = 0 /\ w \in {1, 2, 4}
    BY AlignIs DEF Widths
  <2>2. CASE w = 1
    BY <1>1, <2>2
  <2>3. CASE w = 2
    BY <1>1, <2>1, <2>3, SMT
  <2>4. CASE w = 4
    BY <1>1, <2>1, <2>4, SMT
  <2>5. QED
    BY <2>1, <2>2, <2>3, <2>4
<1>3. gba = [i \in 0 .. 23 |-> IF i \in b .. b + w - 1 THEN v[i - b + 1] ELSE gbaReg[i]]
  BY DEF GbaWriteReg, IsBytes
<1>4. \A i \in 0 .. 23 : i < b \/ i >= b + w => i \notin b .. b + w - 1
  BY <1>1
<1>5. \A k \in 1 .. w : /\ b + k - 1 \in b .. b + w - 1 /\ (b + k - 1) - b + 1 = k
                        /\ off < 24 => b + k - 1 \in 0 .. 23
  <2>1. ASSUME NEW k \in 1 .. w
        PROVE  /\ b + k - 1 \in b .. b + w - 1 /\ (b + k - 1) - b + 1 = k
               /\ off < 24 => b + k - 1 \in 0 .. 23
    <3>1. k \in Nat /\ 1 <= k /\ k <= w
      BY <1>1
    <3>2. /\ b + k - 1 \in b .. b + w - 1 /\ (b + k - 1) - b + 1 = k
          /\ b + k - 1 >= 0 /\ b + k - 1 <= b + w - 1
      BY <1>1, <3>1
    <3>3. ASSUME off < 24
          PROVE  b + k - 1 \in 0 .. 23
      <4>1. b + w <= 24
        BY <1>2, <3>3
      <4>2. b \in Nat /\ w \in Nat
        BY <1>1
      <4>3. QED
        BY ONLY <3>1, <4>1, <4>2
    <3>4. QED
      BY <3>2, <3>3
  <2>2. QED
    BY <2>1
<1>6. QED
  <2>1. IsBytes(gba)
    BY <1>3 DEF IsBytes
  <2>2. SameBeside(gba, gbaReg, b, w)
    BY <1>3, <1>4 DEF SameBeside
  <2>3. off < 24 => \A k \in 1 .. w : gba[b + k - 1] = v[k]
    BY <1>3, <1>5
  <2>4. QED
    BY <2>1, <2>2, <2>3

Io == [ioMem |-> ioMem, reg |-> reg]

(* The registers last written by the byte, after one more write.           *)
BytewiseAfter(bw, off, w) ==
  IF w = 1 THEN bw \cup {Align(off, 2)} ELSE bw \ (Align(off, w) .. Align(off, w) + w - 1)
AllHeld(io, gba, bw) == \A s \in Slots : Held(io, gba, bw, s)

(* Whatever is written, the registers hold what the GBA's do.              *)
LEMMA WriteKeeps ==
  ASSUME NEW off \in Nat, NEW w \in Widths, NEW v, Len(v) = w, w = 2 => v = <<v[1], v[2]>>,
         NEW io, io = Io, IsIo(io),
         IsBytes(gbaReg), NEW gba, gba = GbaWriteReg(off, v),
         NEW bw, NEW bwNew, bwNew = BytewiseAfter(bw, off, w), AllHeld(io, gbaReg, bw),
         NEW new, new = WriteRegister(off, v)
  PROVE  IsIo(new) /\ AllHeld(new, gba, bwNew)
<1> SUFFICES ASSUME NEW b, b = Align(off, w), NEW half, half = Align(off, 2),
                    w = 1 => bwNew = bw \cup {Align(off, 2)},
                    w > 1 => bwNew = bw \ (Align(off, w) .. Align(off, w) + w - 1),
                    \A s \in Slots : Held(io, gbaReg, bw, s)
             PROVE  IsIo(new) /\ \A s \in Slots : Held(new, gba, bwNew, s)
  <2>1. w > 1 => w # 1
    BY DEF Widths
  <2>2. QED
    BY <2>1, Zenon DEF BytewiseAfter, AllHeld
<1>1. /\ b \in Nat /\ b <= off /\ off < b + w /\ w \in Nat /\ half \in Nat
      /\ b % w = 0 /\ half <= off /\ off < half + 2 /\ w \in {1, 2, 4}
  BY AlignIs DEF Widths
<1>2. /\ \A i \in 0 .. 23 : i < b \/ i >= b + w => gba[i] = gbaReg[i]
      /\ off < 24 => \A k \in 1 .. w : gba[b + k - 1] = v[k]
  <2>1. /\ off \in Nat /\ w \in Widths /\ Len(v) = w /\ b = Align(off, w)
        /\ IsBytes(gbaReg) /\ gba = GbaWriteReg(off, v)
    OBVIOUS
  <2>2. QED
    <3>1. off < 24 => \A k \in 1 .. w : gba[b + k - 1] = v[k]
      BY ONLY <2>1, GbaWriteRegIs
    <3>2. SameBeside(gba, gbaReg, b, w)
      BY ONLY <2>1, GbaWriteRegIs
    <3>3. QED
      BY ONLY <3>1, <3>2 DEF SameBeside
<1>3. /\ \A s \in Slots : s \in 0 .. 22 /\ s + 1 \in 0 .. 23 /\ s \in 0 .. 23 /\ s % 2 = 0
  BY SlotsAre
<1>4. io = [ioMem |-> ioMem, reg |-> reg]
  BY DEF Io
<1>5. CASE off >= 24
  <2>1. new = io
    BY <1>4, <1>5, SlotsAre DEF WriteRegister
  <2>2. b >= 24
    <3>1. CASE w = 1
      BY <1>1, <1>5, <3>1
    <3>2. CASE w = 2
      BY <1>1, <1>5, <3>2, SMT
    <3>3. CASE w = 4
      BY <1>1, <1>5, <3>3, SMT
    <3>4. QED
      BY <1>1, <3>1, <3>2, <3>3
  <2>3. ASSUME NEW s \in Slots
        PROVE  Held(new, gba, bwNew, s)
    <3>0. s \in 0 .. 23 /\ s + 1 \in 0 .. 23 /\ s < b /\ s + 1 < b
      <4>1. s \in 0 .. 22 /\ b \in Nat
        BY <1>1, <1>3
      <4>2. QED
        BY ONLY <2>2, <4>1
    <3>1. gba[s] = gbaReg[s] /\ gba[s + 1] = gbaReg[s + 1]
      BY <1>2, <3>0
    <3>2. s \in bw => s \in bwNew
      <4>1. s \notin b .. b + w - 1
        <5>1. QED
          BY <1>1, <3>0
      <4>2. CASE w = 1
        BY <4>2
      <4>3. CASE w > 1
        BY <4>1, <4>3
      <4>4. QED
        BY <4>2, <4>3 DEF Widths
    <3>3. Held(io, gbaReg, bw, s)
      OBVIOUS
    <3>4. QED
      BY <2>1, <3>1, <3>2, <3>3 DEF Held, Reads
  <2>4. QED
    BY <2>1, <2>3
<1>6. CASE off < 24 /\ w = 4
  <2> DEFINE io1 == Update(io, b, <<v[1], v[2]>>)
             io2 == Update(io1, b + 2, <<v[3], v[4]>>)
  <2>1. b \in Slots /\ b + 2 \in Slots /\ ~(off >= IoSize)
    BY <1>6, SlotOf, SlotsAre
  <2>2. new = io2
    BY <1>4, <1>6, <2>1 DEF WriteRegister
  <2>3. gba[b] = v[1] /\ gba[b + 1] = v[2] /\ gba[b + 2] = v[3] /\ gba[(b + 2) + 1] = v[4]
    <3>1. b + 1 - 1 = b /\ b + 2 - 1 = b + 1 /\ b + 3 - 1 = b + 2 /\ b + 4 - 1 = (b + 2) + 1
      BY <1>1
    <3>2. 1 \in 1 .. w /\ 2 \in 1 .. w /\ 3 \in 1 .. w /\ 4 \in 1 .. w
      BY <1>6
    <3>3. /\ gba[b + 1 - 1] = v[1] /\ gba[b + 2 - 1] = v[2] /\ gba[b + 3 - 1] = v[3]
          /\ gba[b + 4 - 1] = v[4]
      BY <1>2, <1>6, <3>2
    <3>4. QED
      BY <3>1, <3>3
  <2>4. /\ IsIo(io1)
        /\ \A i \in 0 .. 23 : i \notin {b, b + 1} => io1.ioMem[i] = io.ioMem[i]
        /\ \A t \in Slots : t # b => io1.reg[t] = io.reg[t]
        /\ Held(io1, gba, bwNew, b)
    <3>1. io1 = Update(io, b, <<gba[b], gba[b + 1]>>) /\ IsIo(io) /\ b \in Slots
      BY <2>1, <2>3
    <3> HIDE DEF io1
    <3>2. QED
      BY ONLY <3>1, UpdateIs, HeldAnew
  <2> HIDE DEF io1
  <2>5. /\ IsIo(io2)
        /\ \A i \in 0 .. 23 : i \notin {b + 2, (b + 2) + 1} => io2.ioMem[i] = io1.ioMem[i]
        /\ \A t \in Slots : t # b + 2 => io2.reg[t] = io1.reg[t]
        /\ Held(io2, gba, bwNew, b + 2)
    <3>1. /\ io2 = Update(io1, b + 2, <<gba[b + 2], gba[(b + 2) + 1]>>)
          /\ IsIo(io1) /\ b + 2 \in Slots
      BY <2>1, <2>3, <2>4
    <3> HIDE DEF io2
    <3>2. QED
      BY ONLY <3>1, UpdateIs, HeldAnew
  <2> HIDE DEF io2
  <2>6. Held(io2, gba, bwNew, b)
    <3>1. b \notin {b + 2, (b + 2) + 1} /\ b + 1 \notin {b + 2, (b + 2) + 1} /\ b # b + 2
      BY <1>1
    <3>2. io2.ioMem[b] = io1.ioMem[b] /\ io2.ioMem[b + 1] = io1.ioMem[b + 1]
          /\ io2.reg[b] = io1.reg[b]
      BY <1>3, <2>1, <2>5, <3>1
    <3>3. QED
      BY <2>1, <2>4, <3>2 DEF Held, Reads
  <2>7. ASSUME NEW s \in Slots, s # b, s # b + 2
        PROVE  Held(io2, gba, bwNew, s)
    <3>1. s + 1 < b \/ s >= b + 4
      <4>1. s \in 0 .. 22 /\ s % 2 = 0
        BY ONLY <1>3
      <4>2. b \in Nat /\ b % 4 = 0
        BY ONLY <1>1, <1>6
      <4>3. QED
        BY ONLY <2>7, <4>1, <4>2
    <3>2. s \in 0 .. 23 /\ s + 1 \in 0 .. 23
      BY <1>3
    <3>3. gba[s] = gbaReg[s] /\ gba[s + 1] = gbaReg[s + 1]
      <4>1. /\ s < b \/ s >= b + w
            /\ s + 1 < b \/ s + 1 >= b + w
        <5>1. QED
          BY <1>1, <1>3, <1>6, <3>1
      <4>2. QED
        BY <1>2, <3>2, <4>1
    <3>4. /\ s \notin {b, b + 1} /\ s + 1 \notin {b, b + 1}
          /\ s \notin {b + 2, (b + 2) + 1} /\ s + 1 \notin {b + 2, (b + 2) + 1}
          /\ s \notin b .. b + w - 1
      BY <1>1, <1>6, <3>1, <3>2
    <3>5. /\ io2.ioMem[s] = io.ioMem[s] /\ io2.ioMem[s + 1] = io.ioMem[s + 1]
          /\ io2.reg[s] = io.reg[s]
      BY <2>4, <2>5, <2>7, <3>2, <3>4
    <3>6. s \in bw => s \in bwNew
      BY <1>6, <3>4
    <3>7. Held(io, gbaReg, bw, s)
      OBVIOUS
    <3>8. QED
      BY <3>3, <3>5, <3>6, <3>7 DEF Held, Reads
  <2>8. QED
    BY <2>2, <2>5, <2>6, <2>7
<1>7. CASE off < 24 /\ w = 2
  <2>1. b \in Slots /\ ~(off >= IoSize)
    BY <1>7, SlotOf, SlotsAre
  <2>2. new = Update(io, b, <<v[1], v[2]>>)
    <3>1. new = Update(io, b, v)
      BY <1>4, <1>7, <2>1 DEF WriteRegister
    <3>2. QED
      BY <1>7, <3>1
  <2>3. gba[b] = v[1] /\ gba[b + 1] = v[2]
    <3>1. b + 1 - 1 = b /\ b + 2 - 1 = b + 1 /\ 1 \in 1 .. w /\ 2 \in 1 .. w
      BY <1>1, <1>7
    <3>2. gba[b + 1 - 1] = v[1] /\ gba[b + 2 - 1] = v[2]
      BY <1>2, <1>7, <3>1
    <3>3. QED
      BY <3>1, <3>2
  <2>4. /\ IsIo(new)
        /\ \A i \in 0 .. 23 : i \notin {b, b + 1} => new.ioMem[i] = io.ioMem[i]
        /\ \A t \in Slots : t # b => new.reg[t] = io.reg[t]
        /\ Held(new, gba, bwNew, b)
    <3>1. new = Update(io, b, <<gba[b], gba[b + 1]>>) /\ IsIo(io) /\ b \in Slots
      BY <2>1, <2>2, <2>3
    <3>2. QED
      BY ONLY <3>1, UpdateIs, HeldAnew
  <2>5. ASSUME NEW s \in Slots, s # b
        PROVE  Held(new, gba, bwNew, s)
    <3>1. s + 1 < b \/ s >= b + 2
      BY <1>1, <1>3, <1>7, <2>5, SMT
    <3>2. s \in 0 .. 23 /\ s + 1 \in 0 .. 23
      BY <1>3
    <3>3. gba[s] = gbaReg[s] /\ gba[s + 1] = gbaReg[s + 1]
      <4>1. /\ s < b \/ s >= b + w
            /\ s + 1 < b \/ s + 1 >= b + w
        <5>1. QED
          BY <1>1, <1>3, <1>7, <3>1
      <4>2. QED
        BY <1>2, <3>2, <4>1
    <3>4. /\ s \notin {b, b + 1} /\ s + 1 \notin {b, b + 1} /\ s \notin b .. b + w - 1
      <4>1. b \in Nat /\ s \in Nat
        BY ONLY <1>1, <3>2
      <4>2. QED
        BY ONLY <1>7, <3>1, <4>1
    <3>5. /\ new.ioMem[s] = io.ioMem[s] /\ new.ioMem[s + 1] = io.ioMem[s + 1]
          /\ new.reg[s] = io.reg[s]
      BY <2>4, <2>5, <3>2, <3>4
    <3>6. s \in bw => s \in bwNew
      BY <1>7, <3>4
    <3>7. Held(io, gbaReg, bw, s)
      OBVIOUS
    <3>8. QED
      BY <3>3, <3>5, <3>6, <3>7 DEF Held, Reads
  <2>6. QED
    BY <2>4, <2>5
<1>8. CASE off < 24 /\ w = 1
  <2>1. half \in Slots /\ off \in {half, half + 1} /\ ~(off >= IoSize) /\ b = off
    BY <1>8, SlotOf, SlotsAre, AlignIs
  <2>2. new = IF Kind[half] = "sound" THEN SoundByte(io, half, off, v[1])
              ELSE Update(io, half, Beside(io, half, off, v[1]))
    BY <1>4, <1>8, <2>1 DEF WriteRegister
  <2>3. gba[off] = v[1] /\ bwNew = bw \cup {half}
    <3>1. off + 1 - 1 = off /\ 1 \in 1 .. w
      BY <1>1, <1>8
    <3>2. gba[off + 1 - 1] = v[1]
      BY <1>2, <1>8, <2>1, <3>1
    <3>3. QED
      BY <1>8, <3>1, <3>2
  <2>4. /\ off = half => gba[half] = v[1] /\ gba[half + 1] = gbaReg[half + 1]
        /\ off = half + 1 => gba[half + 1] = v[1] /\ gba[half] = gbaReg[half]
    <3>1. half \in 0 .. 23 /\ half + 1 \in 0 .. 23
      BY <1>3, <2>1
    <3>2. QED
      BY <1>1, <1>2, <1>8, <2>1, <2>3, <3>1
  <2>5. ASSUME IsIo(new),
               \A i \in 0 .. 23 : i \notin {half, half + 1} => new.ioMem[i] = io.ioMem[i],
               \A t \in Slots : t # half => new.reg[t] = io.reg[t],
               Held(new, gba, bwNew, half)
        PROVE  IsIo(new) /\ \A s \in Slots : Held(new, gba, bwNew, s)
    <3>1. ASSUME NEW s \in Slots, s # half
          PROVE  Held(new, gba, bwNew, s)
      <4>1. s + 1 < half \/ s >= half + 2
        <5>1. half % 2 = 0
          BY <1>3, <2>1
        <5>2. s \in Nat /\ s % 2 = 0 /\ half \in Nat
          <6>1. s \in 0 .. 22 /\ s % 2 = 0
            BY ONLY <1>3
          <6>2. half \in Nat
            BY ONLY <1>1
          <6>3. QED
            BY ONLY <6>1, <6>2
        <5>3. QED
          BY ONLY <5>1, <5>2, <3>1
      <4>2. s \in 0 .. 23 /\ s + 1 \in 0 .. 23
        BY <1>3
      <4>3. gba[s] = gbaReg[s] /\ gba[s + 1] = gbaReg[s + 1]
        BY <1>1, <1>2, <1>8, <2>1, <4>1, <4>2
      <4>4. s \notin {half, half + 1} /\ s + 1 \notin {half, half + 1}
        <5>1. half \in Nat
          BY <1>1
        <5>2. QED
          BY ONLY <5>1, <4>1, <4>2
      <4>5. /\ new.ioMem[s] = io.ioMem[s] /\ new.ioMem[s + 1] = io.ioMem[s + 1]
            /\ new.reg[s] = io.reg[s]
        BY <2>5, <3>1, <4>2, <4>4
      <4>6. s \in bw => s \in bwNew
        BY <2>3
      <4>7. Held(io, gbaReg, bw, s)
        OBVIOUS
      <4>8. QED
        BY <4>3, <4>5, <4>6, <4>7 DEF Held, Reads
    <3>2. QED
      BY <2>5, <3>1
  <2>6. CASE Kind[half] = "sound"
    <3>1. Held(new, gba, bwNew, half)
      BY <2>3, <2>6 DEF Held
    <3>2. new = IF off = half THEN [io EXCEPT !.reg[half] = <<v[1], 0>>] ELSE io
      BY <2>2, <2>6 DEF SoundByte
    <3>3. CASE off # half
      BY <2>5, <3>1, <3>2, <3>3
    <3>4. CASE off = half
      <4> DEFINE r == [io.reg EXCEPT ![half] = <<v[1], 0>>]
      <4>1. io = [ioMem |-> io.ioMem, reg |-> io.reg]
        BY DEF IsIo
      <4>2. new = [ioMem |-> io.ioMem, reg |-> r]
        BY <3>2, <3>4, <4>1
      <4>3. r = [t \in Slots |-> r[t]] /\ \A t \in Slots : t # half => r[t] = io.reg[t]
        <5>1. io.reg = [t \in Slots |-> io.reg[t]]
          BY DEF IsIo
        <5>2. QED
          BY <5>1
      <4> HIDE DEF r
      <4>4. new.ioMem = io.ioMem /\ new.reg = r
        BY <4>2
      <4>5. IsIo(new)
        <5>1. io.ioMem = [i \in 0 .. 23 |-> io.ioMem[i]]
          BY DEF IsIo
        <5>2. QED
          BY <4>2, <4>3, <4>4, <5>1 DEF IsIo
      <4>6. QED
        BY <2>5, <3>1, <4>3, <4>4, <4>5
    <3>5. QED
      BY <3>3, <3>4
  <2>7. CASE Kind[half] # "sound"
    <3> DEFINE x == Beside(io, half, off, v[1])[1]
               y == Beside(io, half, off, v[1])[2]
    <3>1. new = Update(io, half, <<x, y>>)
      BY <2>1, <2>2, <2>7 DEF Beside
    <3>2. /\ off = half => x = v[1] /\ y = io.ioMem[half + 1]
          /\ off = half + 1 => x = io.ioMem[half] /\ y = v[1]
      BY <1>1 DEF Beside
    <3> HIDE DEF x, y
    <3>3. /\ IsIo(new)
          /\ \A i \in 0 .. 23 : i \notin {half, half + 1} => new.ioMem[i] = io.ioMem[i]
          /\ \A t \in Slots : t # half => new.reg[t] = io.reg[t]
          /\ Kind[half] = "count" => new.ioMem[half] = 0 /\ new.ioMem[half + 1] = 0
      <4>1. new = Update(io, half, <<x, y>>) /\ IsIo(io) /\ half \in Slots
        BY <2>1, <3>1
      <4>2. QED
        BY ONLY <4>1, UpdateIs
    <3>4. Held(new, gba, bwNew, half)
      <4>1. CASE Kind[half] \in {"plain", "hidden"}
        <5>1. io.ioMem[half] = gbaReg[half] /\ io.ioMem[half + 1] = gbaReg[half + 1]
          BY <2>1, <4>1 DEF Held, Reads
        <5>2. x = gba[half] /\ y = gba[half + 1]
          BY <2>1, <2>4, <3>2, <5>1
        <5>3. QED
          BY <2>1, <3>1, <5>2, HeldAnew
      <4>2. CASE Kind[half] = "count"
        BY <2>3, <3>3, <4>2 DEF Held
      <4>3. CASE Kind[half] \notin {"plain", "hidden", "count"}
        BY <2>7, <4>3 DEF Held
      <4>4. QED
        BY <4>1, <4>2, <4>3
    <3>5. QED
      BY <2>5, <3>3, <3>4
  <2>8. QED
    BY <2>6, <2>7
<1>9. QED
  BY <1>1, <1>5, <1>6, <1>7, <1>8 DEF Widths
-----------------------------------------------------------------------------
(* Reads of the registers.                                                 *)
RegistersKept ==
  /\ IsIo(Io) /\ IsBytes(gbaReg) /\ Len(line) = 4 /\ Len(REG_IF) = 2
  /\ AllHeld(Io, gbaReg, bytewise)

LEMMA RefreshedIs ==
  ASSUME NEW off, NEW w, IsBytes(ioMem), Len(line) = 4, Len(REG_IF) = 2,
         NEW new, new = Refreshed(off, w)
  PROVE  /\ IsBytes(new)
         /\ \A i \in 0 .. 23 : i \notin {0, 1, 2, 3, 6, 7} => new[i] = ioMem[i]
         /\ FetchesIF(off, w) => new[6] = REG_IF[1] /\ new[7] = REG_IF[2]
         /\ off \in 0 .. 3 => \A i \in 0 .. 3 : new[i] = line[i + 1]
<1> DEFINE io == IF FetchesIF(off, w) THEN Put(ioMem, 6, REG_IF) ELSE ioMem
<1>1. DOMAIN ioMem = 0 .. 23
  BY DEF IsBytes
<1>2. /\ DOMAIN io = 0 .. 23 /\ \A i \in 0 .. 23 : i \notin {6, 7} => io[i] = ioMem[i]
      /\ FetchesIF(off, w) => io[6] = REG_IF[1] /\ io[7] = REG_IF[2]
      /\ IsBytes(io)
  <2>1. CASE FetchesIF(off, w)
    <3>1. io = [i \in 0 .. 23 |-> IF i \in 6 .. 6 + 2 - 1 THEN REG_IF[i - 6 + 1] ELSE ioMem[i]]
      BY <1>1, <2>1 DEF Put
    <3> HIDE DEF io
    <3>2. /\ DOMAIN io = 0 .. 23 /\ \A i \in 0 .. 23 : i \notin {6, 7} => io[i] = ioMem[i]
          /\ IsBytes(io)
      BY <3>1 DEF IsBytes
    <3>3. io[6] = REG_IF[1] /\ io[7] = REG_IF[2]
      BY <3>1
    <3>4. QED
      BY <3>2, <3>3
  <2>2. CASE ~FetchesIF(off, w)
    BY <1>1, <2>2
  <2>3. QED
    BY <2>1, <2>2
<1>3. new = IF off \in 0 .. 3 THEN Put(io, 0, line) ELSE io
  BY DEF Refreshed
<1> HIDE DEF io
<1>4. CASE off \in 0 .. 3
  <2>1. new = [i \in 0 .. 23 |-> IF i \in 0 .. 0 + 4 - 1 THEN line[i - 0 + 1] ELSE io[i]]
    BY <1>2, <1>3, <1>4 DEF Put
  <2>2. IsBytes(new)
    BY <2>1 DEF IsBytes
  <2>3. \A i \in 0 .. 23 : i \notin {0, 1, 2, 3} => new[i] = io[i]
    BY <2>1
  <2>4. \A i \in 0 .. 3 : new[i] = line[i + 1]
    <3>1. \A i \in 0 .. 3 : i \in 0 .. 23 /\ i \in 0 .. 0 + 4 - 1 /\ i - 0 + 1 = i + 1
      OBVIOUS
    <3>2. QED
      BY <2>1, <3>1
  <2>5. QED
    BY <1>2, <2>2, <2>3, <2>4
<1>5. CASE off \notin 0 .. 3
  BY <1>2, <1>3, <1>5
<1>6. QED
  BY <1>4, <1>5

LEMMA TurnedSame ==
  ASSUME NEW v, NEW a \in Nat, NEW b \in Nat, a % 4 = b % 4, a % 2 = b % 2
  PROVE  Turned(v, a) = Turned(v, b)
<1>1. \A k \in 1 .. 4 : (k - 1 + a) % 4 = (k - 1 + b) % 4
  OBVIOUS
<1>2. QED
  BY <1>1 DEF Turned

LEMMA RegisterRead ==
  ASSUME NEW a \in Nat, Region(a) = 4, NEW w \in Widths, ~Excepted(a, w), RegistersKept,
         NEW none
  PROVE  ReadRegister(a % RegionSize, w, none) = GbaRead(a, w)
<1> DEFINE off == a % RegionSize
           b == Align(off, w)
           new == Refreshed(off, w)
<1>1. /\ off < 24 /\ b \in ioReadable /\ Kind[Align(off, 2)] # "timer" /\ ~Sounds(off, w)
      /\ 6 \in b .. b + w - 1 => FetchesIF(off, w)
  <2>1. ~(\/ off >= IoSize \/ Align(off, w) \notin ioReadable
          \/ Kind[Align(off, 2)] = "timer" \/ Sounds(off, w)
          \/ 6 \in Align(off, w) .. Align(off, w) + w - 1 /\ ~FetchesIF(off, w))
    BY Zenon DEF Excepted
  <2>2. off \in Nat /\ IoSize = 24
    BY InRegion, SlotsAre
  <2> HIDE DEF off
  <2>3. off < 24
    BY <2>1, <2>2
  <2>4. QED
    BY <2>1, <2>3, Zenon
<1>2. /\ off \in Nat /\ off % 4 = a % 4 /\ off % 2 = a % 2
      /\ Align(a, w) % RegionSize = b /\ Region(Align(a, w)) = 4
  BY InRegion, UnitInRegion
<1> HIDE DEF off
<1>3. /\ b \in Nat /\ b <= off /\ off < b + w /\ b % w = 0 /\ w \in {1, 2, 4}
      /\ w = 1 => b = off
  BY <1>2, AlignIs DEF Widths
<1>4. /\ IsBytes(new)
      /\ \A i \in 0 .. 23 : i \notin {0, 1, 2, 3, 6, 7} => new[i] = ioMem[i]
      /\ FetchesIF(off, w) => new[6] = REG_IF[1] /\ new[7] = REG_IF[2]
      /\ off \in 0 .. 3 => \A i \in 0 .. 3 : new[i] = line[i + 1]
  <2>1. IsBytes(ioMem) /\ Len(line) = 4 /\ Len(REG_IF) = 2
    BY DEF RegistersKept, IsIo, IsBytes, Io
  <2>2. QED
    BY <2>1, RefreshedIs
<1>5. ReadRegister(off, w, none) = Turned(Fetch(new, b, w), off)
  <2>1. ~(off >= IoSize)
    BY <1>1, <1>2, SlotsAre
  <2>2. QED
    BY <1>1, <2>1 DEF ReadRegister
<1>6. GbaRead(a, w) = Turned([k \in 1 .. w |-> GbaReadsRegister(b, k - 1)], a)
  <2>1. ~InMemory(a)
    BY DEF InMemory, Mirrored
  <2>2. QED
    BY <1>2, <2>1 DEF GbaRead
<1> HIDE DEF b, new
<1>7. ASSUME NEW k \in 1 .. w
      PROVE  new[b + k - 1] = GbaReadsRegister(b, k - 1)
  <2> DEFINE i == b + k - 1
             s == Align(i, 2)
  <2>1. k \in Nat /\ 1 <= k /\ k <= w /\ w \in Nat
    BY ONLY <1>3, k \in 1 .. w
  <2>2. /\ i \in Nat /\ i < 24 /\ b <= i /\ i < b + w /\ i <= off + w
        /\ i \in 0 .. 3 => off \in 0 .. 3
        /\ i \in {6, 7} => 6 \in b .. b + w - 1 \/ (off = 7 /\ w = 1)
    <3>0. off \in Nat /\ off < 24 /\ i = b + k - 1
      BY <1>1, <1>2
    <3> HIDE DEF i, s
    <3>1. CASE w = 1
      BY ONLY <1>3, <2>1, <3>0, <3>1
    <3>2. CASE w = 2
      <4>1. i \in Nat /\ i < 24 /\ b <= i /\ i < b + w /\ i <= off + w
        BY ONLY <1>3, <2>1, <3>0, <3>2
      <4>2. i \in 0 .. 3 => off \in 0 .. 3
        BY ONLY <1>3, <3>0, <3>2, <4>1
      <4>3. i \in {6, 7} => 6 \in b .. b + w - 1
        BY ONLY <1>3, <3>0, <3>2, <4>1
      <4>4. QED
        BY ONLY <4>1, <4>2, <4>3
    <3>3. CASE w = 4
      <4>1. i \in Nat /\ i < 24 /\ b <= i /\ i < b + w /\ i <= off + w
        BY ONLY <1>3, <2>1, <3>0, <3>3
      <4>2. i \in 0 .. 3 => off \in 0 .. 3
        BY ONLY <1>3, <3>0, <3>3, <4>1
      <4>3. i \in {6, 7} => 6 \in b .. b + w - 1
        BY ONLY <1>3, <3>0, <3>3, <4>1
      <4>4. QED
        BY ONLY <4>1, <4>2, <4>3
    <3>4. QED
      BY ONLY <1>3, <3>1, <3>2, <3>3
  <2>3. GbaReadsRegister(b, k - 1)
          = CASE Kind[s] = "line" -> line[i + 1] [] Kind[s] = "IF" -> REG_IF[i - 5]
              [] Kind[s] = "count" -> 0 [] OTHER -> gbaReg[i]
    <3>1. b + (k - 1) = i
      BY ONLY <1>3, <2>1
    <3>2. QED
      BY <3>1 DEF GbaReadsRegister
  <2> HIDE DEF i
  <2>4. s \in Slots /\ i \in {s, s + 1} /\ i \in 0 .. 23
    BY ONLY <2>2, SlotOf, 2 \in Widths DEF Widths
  <2>5. \A t \in Slots : t \in Nat /\ t % 2 = 0
    BY SlotsAre
  <2>6. new[i] = GbaReadsRegister(b, k - 1)
    <3> HIDE DEF s
    <3>1. CASE s \in {0, 2}
      <4>1. i \in 0 .. 3 /\ Kind[s] = "line"
        BY <2>4, <3>1, SlotsAre
      <4>2. new[i] = line[i + 1]
        BY <1>4, <2>2, <4>1
      <4>3. QED
        BY <2>3, <4>1, <4>2
    <3>2. CASE s = 6
      <4>1. i \in {6, 7} /\ Kind[s] = "IF"
        BY <2>4, <3>2, SlotsAre
      <4>2. FetchesIF(off, w)
        BY <1>1, <2>2, <4>1 DEF FetchesIF
      <4>3. /\ i = 6 => new[i] = REG_IF[1] /\ i - 5 = 1
            /\ i = 7 => new[i] = REG_IF[2] /\ i - 5 = 2
        BY <1>4, <4>2
      <4>4. new[i] = REG_IF[i - 5]
        BY <4>1, <4>3
      <4>5. QED
        BY <2>3, <4>1, <4>4
    <3>3. CASE s = 8
      BY <1>4, <2>3, <2>4, <3>3, SlotsAre DEF RegistersKept, AllHeld, Held, Io
    <3>4. CASE s \in {4, 10, 12, 14}
      BY <1>4, <2>3, <2>4, <3>4, SlotsAre DEF RegistersKept, AllHeld, Held, Reads, Io
    <3>5. CASE s \in {16, 18}
      <4>1. s \in Align(off, w) - 1 .. off + w
        BY <1>2, <1>3, <2>2, <2>4, <3>5 DEF b
      <4>2. s \notin bytewise
        BY <1>1, <3>5, <4>1, SlotsAre DEF Sounds
      <4>3. QED
        BY <1>4, <2>3, <2>4, <3>5, <4>2, SlotsAre DEF RegistersKept, AllHeld, Held, Reads, Io
    <3>6. CASE s \in {20, 22}
      <4>1. Align(off, 2) \in {20, 22}
        BY <1>1, <1>2, <1>3, <2>2, <2>4, <3>6, SMT DEF Align
      <4>2. QED
        BY <1>1, <4>1, SlotsAre
    <3>7. QED
      BY <2>4, <3>1, <3>2, <3>3, <3>4, <3>5, <3>6, SlotsAre
  <2>7. QED
    BY <2>6 DEF i
<1>8. Fetch(new, b, w) = [k \in 1 .. w |-> GbaReadsRegister(b, k - 1)]
  BY <1>7 DEF Fetch
<1>9. QED
  BY <1>2, <1>5, <1>6, <1>8, TurnedSame DEF off
-----------------------------------------------------------------------------
(* Reads of the cartridge.                                                 *)
LEMMA ImageRead ==
  ASSUME NEW a \in Nat, Region(a) \in Cartridge, NEW w \in Widths, ~Excepted(a, w)
  PROVE  Turned(ReadImage(a, w), a) = GbaRead(a, w)
<1> DEFINE off == Align(a % (2 * RegionSize), w)
<1>1. Region(a) # 4 /\ ~InMemory(a) /\ off # RomSize
  BY DEF Cartridge, InMemory, Mirrored, Excepted
<1>2. Align(a, w) % (2 * RegionSize) = off /\ off \in Nat /\ off % w = 0
  <2>1. 2 * RegionSize = 4 * (32 * Quarter) /\ 32 * Quarter \in Nat \ {0}
        /\ 2 * RegionSize \in Nat \ {0}
    BY BlockIs
  <2>2. Align(a, w) % (2 * RegionSize) = off
    BY <2>1, AlignedIn
  <2>3. \A n \in Nat \ {0} : a % n \in Nat
    OBVIOUS
  <2>4. a % (2 * RegionSize) \in Nat
    BY ONLY <2>1, <2>3
  <2>5. QED
    BY <2>2, <2>4, AlignIs
<1> DEFINE gba(k) == IF off + k - 1 < ImageSize THEN ImageByte(off + k - 1) ELSE 0
<1>3. GbaRead(a, w) = Turned([k \in 1 .. w |-> gba(k)], a)
  BY <1>1, <1>2 DEF GbaRead
<1>4. ReadImage(a, w) =
        CASE off <= RomSize -> [k \in 1 .. w |-> InImage(off + k - 1)]
          [] off \in RomSize + 1 .. ImageSize - 1 -> [k \in 1 .. w |-> ImageByte(off + k - 1)]
          [] OTHER -> Zeros(w)
  BY DEF ReadImage
<1> HIDE DEF off
<1>5. RomSize \in Nat /\ ImageSize \in Nat /\ RomSize % 4 = 0 /\ ImageSize % 4 = 0
      /\ RomSize < ImageSize
  BY BusAssumption
<1>6. \A n \in Nat : n % 4 = 0 /\ off < n => off + w <= n
  <2>1. ASSUME NEW n \in Nat, n % 4 = 0, off < n
        PROVE  off + w <= n
    <3>1. CASE w = 1
      BY ONLY <1>2, <2>1, <3>1
    <3>2. CASE w = 2
      BY ONLY <1>2, <2>1, <3>2
    <3>3. CASE w = 4
      BY ONLY <1>2, <2>1, <3>3
    <3>4. QED
      BY <3>1, <3>2, <3>3 DEF Widths
  <2>2. QED
    BY <2>1
<1>7. \A k \in 1 .. w : off + k - 1 >= off /\ off + k - 1 < off + w
  <2>1. w \in Nat
    BY DEF Widths
  <2>2. QED
    BY ONLY <1>2, <2>1
<1>8. w \in Nat
  BY DEF Widths
<1>9. CASE off < RomSize
  <2>1. ReadImage(a, w) = [k \in 1 .. w |-> InImage(off + k - 1)]
    BY <1>2, <1>4, <1>5, <1>9
  <2>2. off + w <= RomSize
    BY <1>5, <1>6, <1>9
  <2>3. ASSUME NEW k \in 1 .. w
        PROVE  InImage(off + k - 1) = gba(k)
    <3>1. off + k - 1 < RomSize /\ off + k - 1 < ImageSize
      BY ONLY <1>2, <1>5, <1>8, <2>2, k \in 1 .. w
    <3>2. QED
      BY <3>1 DEF InImage
  <2> HIDE DEF gba
  <2>4. QED
    BY <1>3, <2>1, <2>3
<1>10. CASE off > RomSize /\ off < ImageSize
  <2>1. ReadImage(a, w) = [k \in 1 .. w |-> ImageByte(off + k - 1)]
    BY <1>2, <1>4, <1>5, <1>10
  <2>2. off + w <= ImageSize
    BY <1>5, <1>6, <1>10
  <2>3. ASSUME NEW k \in 1 .. w
        PROVE  ImageByte(off + k - 1) = gba(k)
    <3>1. off + k - 1 < ImageSize
      BY ONLY <1>2, <1>5, <1>8, <2>2, k \in 1 .. w
    <3>2. QED
      BY <3>1
  <2> HIDE DEF gba
  <2>4. QED
    BY <1>3, <2>1, <2>3
<1>11. CASE off >= ImageSize
  <2>1. ReadImage(a, w) = Zeros(w)
    <3>1. ~(off <= RomSize) /\ off \notin RomSize + 1 .. ImageSize - 1
      BY ONLY <1>2, <1>5, <1>11
    <3>2. QED
      BY <1>4, <3>1
  <2>2. ASSUME NEW k \in 1 .. w
        PROVE  gba(k) = 0
    <3>1. ~(off + k - 1 < ImageSize)
      BY ONLY <1>2, <1>5, <1>8, <1>11, k \in 1 .. w
    <3>2. QED
      BY <3>1
  <2> HIDE DEF gba
  <2>3. QED
    BY <1>3, <2>1, <2>2 DEF Zeros
<1>12. QED
  BY ONLY <1>1, <1>2, <1>5, <1>9, <1>10, <1>11

(* What the accessors of each width come to.                               *)
LEMMA AccessorsAre ==
  ASSUME NEW a, NEW w \in Widths
  PROVE  /\ InMemory(a) => ReadReal(a, w) = ReadMemory(a, w)
         /\ ~InMemory(a) => ReadReal(a, w) = ReadBehind(a, w, Unmapped(w))
         /\ ReadPu(a, w) = ReadBehind(a, w, Zeros(w))
         /\ \A v : Len(v) = w =>
              /\ InMemory(a) => WriteReal(a, v) = ToMemory(a, v)
              /\ ~InMemory(a) => WriteReal(a, v) = WriteBehind(a, v)
              /\ WritePu(a, v) = WriteBehind(a, v)
<1>1. w = 1 \/ w = 2 \/ w = 4
  BY DEF Widths
<1>2. CASE w = 1
  BY <1>2 DEF ReadReal, ReadPu, CPUReadBytereal, CPUReadByterealpu, WriteReal, WritePu,
              CPUWriteByte, CPUWriteBytepu
<1>3. CASE w = 2
  BY <1>3 DEF ReadReal, ReadPu, CPUReadHalfWordreal, CPUReadHalfWordrealpu, WriteReal, WritePu,
              CPUWriteHalfWord, CPUWriteHalfWordpu
<1>4. CASE w = 4
  BY <1>4 DEF ReadReal, ReadPu, CPUReadMemoryreal, CPUReadMemoryrealpu, WriteReal, WritePu,
              CPUWriteMemory, CPUWriteMemorypu
<1>5. QED
  BY <1>1, <1>2, <1>3, <1>4

LEMMA RegionOf ==
  ASSUME NEW r \in Nat, NEW off \in Nat, off < 24
  PROVE  Region(At(r, off)) = r /\ At(r, off) % RegionSize = off /\ At(r, off) \in Nat
<1>1. RegionSize \in Nat \ {0} /\ 24 <= RegionSize
  BY BlockIs
<1>2. At(r, off) = RegionSize * r + off /\ off \in 0 .. RegionSize - 1 /\ At(r, off) \in Nat
  BY ONLY <1>1, r \in Nat, off \in Nat, off < 24 DEF At
<1>3. QED
  BY <1>1, <1>2, QuotientIs DEF Region

LEMMA ClockIs ==
  ASSUME NEW a, NEW w, IsClock(a, w)
  PROVE  Region(a) = 8
BY RegionOf DEF IsClock, RtcAt

(* Every address is read as on the GBA, by both sets of accessors.         *)
LEMMA ReadsAgree ==
  ASSUME NEW a \in Nat, Region(a) \in 2 .. 12, NEW w \in Widths, ~Excepted(a, w),
         gbaMem = mem, RegistersKept
  PROVE  /\ ReadReal(a, w) = GbaRead(AsRead(a, w), w)
         /\ ~InMemory(a) => ReadPu(a, w) = GbaRead(a, w)
<1>0. ~InMemory(a) => AsRead(a, w) = a
  BY DEF AsRead, InMemory
<1>1. CASE InMemory(a)
  BY <1>1, AccessorsAre, ReadAsOnTheGba
<1>2. CASE Region(a) = 4
  <2>1. ~InMemory(a)
    BY <1>2 DEF InMemory, Mirrored
  <2>2. ASSUME NEW none
        PROVE  ReadBehind(a, w, none) = GbaRead(a, w)
    <3>1. ReadBehind(a, w, none) = ReadRegister(a % RegionSize, w, none)
      <4>1. ~IsClock(a, w)
        BY <1>2, ClockIs
      <4>2. QED
        BY <1>2, <4>1 DEF ReadBehind, Cartridge, SerialAt, ChipAt
    <3>2. QED
      BY <1>2, <3>1, RegisterRead
  <2>3. QED
    BY <1>0, <2>1, <2>2, AccessorsAre
<1>3. CASE Region(a) \in Cartridge
  <2>1. ~InMemory(a) /\ Region(a) # 4
    BY <1>3 DEF InMemory, Mirrored, Cartridge
  <2>2. ASSUME NEW none
        PROVE  ReadBehind(a, w, none) = GbaRead(a, w)
    <3>1. ~IsClock(a, w)
      BY <1>3 DEF Excepted
    <3>2. ReadBehind(a, w, none) = Turned(ReadImage(a, w), a)
      BY <1>3, <2>1, <3>1 DEF ReadBehind, Cartridge, SerialAt, ChipAt
    <3>3. QED
      BY <1>3, <3>2, ImageRead
  <2>3. QED
    BY <1>0, <2>1, <2>2, AccessorsAre
<1>4. QED
  <2>1. Region(a) = 4 \/ InMemory(a) \/ Region(a) \in Cartridge
    BY DEF InMemory, Mirrored, Cartridge
  <2>2. QED
    BY <1>1, <1>2, <1>3, <2>1

(* The addresses looked at are of these regions.                           *)
Focuses == {2, 3, 4, 5, 6, 7, 8, SerialAt, ChipAt}
LEMMA LookedIs ==
  ASSUME focus \in Focuses \ {SerialAt, ChipAt}, NEW a \in Looked
  PROVE  /\ a \in Nat /\ Region(a) \in 2 .. 12
         /\ focus \in Trapped => ~InMemory(a)
<1> DEFINE reach == CASE focus = 4 -> IoSize [] focus = 6 -> 16 * Block
                      [] focus = 8 -> ImageSize + 8 [] OTHER -> 5 * Block
<1>1. PICK off \in 0 .. reach - 1 : a = At(focus, off)
  BY DEF Looked
<1>2. /\ Block \in Nat /\ RegionSize = 16 * Block /\ RegionSize >= 24 /\ IoSize = 24
      /\ ImageSize \in Nat /\ ImageSize <= 2 * RegionSize /\ RegionSize \in Nat \ {0}
      /\ focus \in {2, 3, 4, 5, 6, 7, 8}
  BY BlockIs, BusAssumption, SlotsAre DEF Focuses, SerialAt, ChipAt, RegionSize
<1>3. /\ off \in Nat /\ (focus # 8 => off < RegionSize)
      /\ focus = 8 => off < 3 * RegionSize
  <2>1. focus # 8 => reach <= RegionSize
    BY <1>2
  <2>2. focus = 8 => reach = ImageSize + 8
    OBVIOUS
  <2>3. reach \in Nat
    BY <1>2
  <2> HIDE DEF reach
  <2>4. off \in Nat /\ off < reach
    BY ONLY <2>3, off \in 0 .. reach - 1
  <2>5. focus # 8 => off < RegionSize
    BY ONLY <1>2, <2>1, <2>3, <2>4
  <2>6. focus = 8 => off < 3 * RegionSize
    <3> HIDE DEF RegionSize
    <3>1. QED
      BY ONLY <1>2, <2>2, <2>3, <2>4
  <2>7. QED
    BY ONLY <2>4, <2>5, <2>6
<1>4. ASSUME NEW q \in Nat, NEW r \in Nat, r < RegionSize, a = RegionSize * q + r
      PROVE  Region(a) = q /\ a \in Nat
  <2>1. r \in 0 .. RegionSize - 1 /\ a \in Nat
    BY ONLY <1>2, <1>4
  <2>2. QED
    BY <1>2, <1>4, <2>1, QuotientIs DEF Region
<1>5. a = RegionSize * focus + off
  BY ONLY <1>1, <1>2, <1>3 DEF At
<1>6. a \in Nat /\ \/ Region(a) = focus
                   \/ focus = 8 /\ Region(a) \in {9, 10}
  <2>1. CASE off < RegionSize
    BY <1>2, <1>3, <1>4, <1>5, <2>1
  <2>2. CASE focus = 8 /\ off >= RegionSize /\ off < 2 * RegionSize
    <3>1. off - RegionSize \in Nat /\ off - RegionSize < RegionSize
          /\ a = RegionSize * 9 + (off - RegionSize)
      BY ONLY <1>2, <1>3, <1>5, <2>2
    <3>2. Region(a) = 9 /\ a \in Nat
      BY <1>4, <3>1
    <3>3. QED
      BY <2>2, <3>2
  <2>3. CASE focus = 8 /\ off >= 2 * RegionSize
    <3>1. off - 2 * RegionSize \in Nat /\ off - 2 * RegionSize < RegionSize
          /\ a = RegionSize * 10 + (off - 2 * RegionSize)
      BY ONLY <1>2, <1>3, <1>5, <2>3
    <3>2. Region(a) = 10 /\ a \in Nat
      BY <1>4, <3>1
    <3>3. QED
      BY <2>3, <3>2
  <2>4. QED
    BY ONLY <1>2, <1>3, <2>1, <2>2, <2>3
<1>7. QED
  BY <1>2, <1>6 DEF Trapped, InMemory, Mirrored, Cartridge, SerialAt, ChipAt
-----------------------------------------------------------------------------
(* A chip that answers reads also takes writes.                            *)
LEMMA ChipsAnswer ==
  ASSUME NEW r \in {SerialAt, ChipAt}, NEW w \in Widths, cpuSaveType \in 0 .. 5,
         NEW a, a = At(r, 0), ReadReal(a, w)[1] \in {Serial, Cells}
  PROVE  Reached(a, w) = ReadReal(a, w)[1]
<1>1. Region(a) = r /\ r \in {13, 14} /\ ~InMemory(a) /\ a \in Nat /\ a % 4 = 0
  <2>1. r \in {13, 14}
    BY DEF SerialAt, ChipAt
  <2>2. Region(a) = r /\ a \in Nat
    BY <2>1, RegionOf
  <2>3. a % 4 = 0
    <3>1. Quarter \in Nat /\ a = r * (4 * (16 * Quarter)) + 0
      BY BlockIs DEF At
    <3>2. QED
      BY ONLY <2>1, <3>1
  <2>4. QED
    BY <2>1, <2>2, <2>3 DEF InMemory, Mirrored
<1>2. ~IsClock(a, w) /\ Region(a) # 4 /\ Region(a) \notin Cartridge
  BY <1>1, ClockIs DEF Cartridge
<1> DEFINE none == Turned(Unmapped(w), a)
<1>3. none[1] = cpuDmaLast /\ 1 \in 1 .. w
  <2>1. \A k \in 1 .. w : Unmapped(w)[k] = cpuDmaLast
    BY DEF Unmapped
  <2>2. 1 \in 1 .. w /\ Len(Unmapped(w)) = w
    BY DEF Widths, Unmapped
  <2>3. CASE w = 4
    <3>1. none = [k \in 1 .. 4 |-> Unmapped(w)[((k - 1 + a) % 4) + 1]]
      BY <2>2, <2>3 DEF Turned
    <3>2. (1 - 1 + a) % 4 = 0
      BY ONLY <1>1
    <3>3. none[1] = Unmapped(w)[1]
      <4> HIDE DEF none
      <4>1. QED
        BY <3>1, <3>2
    <3>4. QED
      BY <2>1, <2>2, <3>3
  <2>4. CASE w # 4
    <3>1. a % 2 # 1
      BY ONLY <1>1
    <3>2. none = Unmapped(w)
      BY <2>2, <2>4, <3>1 DEF Turned
    <3>3. QED
      BY <2>1, <2>2, <3>2
  <2>5. QED
    BY <2>3, <2>4
<1>4. ReadReal(a, w) = ReadBehind(a, w, Unmapped(w))
  BY <1>1, AccessorsAre
<1>5. Answer(Serial, w)[1] = Serial /\ Answer(Cells, w)[1] = Cells
  BY <1>3 DEF Answer
<1>6. Serial = 903 /\ Cells = 904 /\ Sensor = 905 /\ cpuDmaLast = 906
  BY DEF Serial, Cells, Sensor, cpuDmaLast
<1> HIDE DEF none
<1>7. CASE r = 13
  <2>1. CASE Chips.cpuEEPROMEnabled
    <3>1. ReadReal(a, w) = Answer(Serial, w)
      BY <1>1, <1>2, <1>4, <1>7, <2>1 DEF ReadBehind, SerialAt, ChipAt
    <3>2. Reached(a, w) = Serial
      BY <1>1, <1>2, <1>7, <2>1 DEF Reached, SerialAt, ChipAt
    <3>3. QED
      BY <1>5, <3>1, <3>2
  <2>2. CASE ~Chips.cpuEEPROMEnabled
    <3>1. ReadReal(a, w) = none
      BY <1>1, <1>2, <1>4, <1>7, <2>2 DEF ReadBehind, SerialAt, ChipAt, none
    <3>2. QED
      BY <1>3, <1>6, <3>1
  <2>3. QED
    BY <2>1, <2>2
<1>8. CASE r = 14
  <2>1. ReadReal(a, w) = ReadChip(w, none)
    BY <1>1, <1>2, <1>4, <1>8 DEF ReadBehind, SerialAt, ChipAt, none
  <2>2. CASE Answers
    <3>1. ReadReal(a, w) = Answer(Cells, w)
      BY <2>1, <2>2 DEF ReadChip
    <3>2. cpuSaveType # 5
      <4>1. Chips.cpuSramEnabled <=> cpuSaveType \in {0, 2}
        BY DEF Chips
      <4>2. Chips.cpuFlashEnabled <=> cpuSaveType \in {0, 3}
        BY DEF Chips
      <4>3. cpuSaveType \in {0, 2} \/ cpuSaveType \in {0, 3}
        BY <2>2, <4>1, <4>2, Zenon DEF Answers
      <4>4. QED
        BY ONLY <4>3
    <3>3. Reached(a, w) = Cells
      BY <1>1, <1>2, <1>8, <2>2, <3>2 DEF Reached, SerialAt, ChipAt
    <3>4. QED
      BY <1>5, <3>1, <3>3
  <2>3. CASE ~Answers
    <3>1. ReadReal(a, w)[1] \in {Sensor, cpuDmaLast}
      BY <1>3, <2>1, <2>3 DEF ReadChip
    <3>2. QED
      BY <1>6, <3>1
  <2>4. QED
    BY <2>2, <2>3
<1>9. QED
  BY <1>1, <1>7, <1>8
-----------------------------------------------------------------------------
(* The inductive invariant: the memory is the GBA's, and the registers     *)
(* hold what the GBA's do.                                                 *)
BusInv ==
  /\ focus \in Focuses /\ displayMode \in Nat /\ cpuSaveType \in 0 .. 5 /\ busWrites \in Nat
  /\ gbaMem = mem /\ IsMemory(mem)
  /\ RegistersKept

LEMMA BusInitially == BusInit => BusInv
<1> SUFFICES ASSUME BusInit
             PROVE  BusInv
  OBVIOUS
<1>1. /\ focus \in Focuses /\ displayMode \in Nat /\ cpuSaveType \in 0 .. 5 /\ busWrites \in Nat
      /\ gbaMem = mem
  BY DEF BusInit, Focuses
<1>2. IsMemory(mem)
  <2>1. mem = [s \in Spaces |-> [i \in 0 .. BytesOf[s] - 1 |-> 0]]
    BY SpacesAre DEF BusInit
  <2> DEFINE cell(s) == [i \in 0 .. BytesOf[s] - 1 |-> 0]
  <2>2. \A s \in Spaces : cell(s) = [i \in 0 .. BytesOf[s] - 1 |-> cell(s)[i]]
    OBVIOUS
  <2>3. mem = [s \in Spaces |-> cell(s)]
    BY <2>1
  <2> HIDE DEF cell
  <2>4. QED
    BY <2>2, <2>3 DEF IsMemory
<1>3. ioMem = [i \in 0 .. 23 |-> 0] /\ gbaReg = ioMem /\ reg = [s \in Slots |-> <<0, 0>>]
  BY SlotsAre DEF BusInit
<1>4. IsIo(Io) /\ IsBytes(gbaReg)
  BY <1>3 DEF IsIo, IsBytes, Io
<1>5. \A s \in Slots : Held(Io, gbaReg, bytewise, s)
  <2>1. \A s \in Slots : s \in 0 .. 23 /\ s + 1 \in 0 .. 23
    BY SlotsAre
  <2>2. /\ Io.ioMem = ioMem /\ Io.reg = reg
    BY DEF Io
  <2>3. ASSUME NEW s \in Slots
        PROVE  Held(Io, gbaReg, bytewise, s)
    <3>1. ioMem[s] = 0 /\ ioMem[s + 1] = 0 /\ gbaReg[s] = 0 /\ gbaReg[s + 1] = 0
          /\ reg[s] = <<0, 0>>
      BY <1>3, <2>1
    <3>2. QED
      BY <2>2, <3>1 DEF Held, Reads
  <2>4. QED
    BY <2>3
<1>6. Len(line) = 4 /\ Len(REG_IF) = 2
  BY DEF BusInit
<1>7. QED
  BY <1>1, <1>2, <1>4, <1>5, <1>6 DEF BusInv, RegistersKept, AllHeld

LEMMA NewUnitIs ==
  ASSUME NEW w \in Widths
  PROVE  /\ Len(NewUnit(w)) = w
         /\ w = 2 => NewUnit(w) = <<NewUnit(w)[1], NewUnit(w)[2]>>
<1>1. Len(NewUnit(w)) = w
  BY DEF NewUnit, Widths
<1>2. ASSUME w = 2
      PROVE  NewUnit(w) = <<NewUnit(w)[1], NewUnit(w)[2]>>
  BY <1>2 DEF NewUnit
<1>3. QED
  BY <1>1, <1>2

(* A unit written by either set of accessors.                              *)
LEMMA WrittenKeeps ==
  ASSUME BusInv, NEW a \in Nat, NEW w \in Widths, Region(a) = focus,
         BusWrite(a, w) \/ GameStores(a, w)
  PROVE  BusInv'
<1> DEFINE v == NewUnit(w)
           new == IF InMemory(a) THEN ToMemory(a, v) ELSE WriteBehind(a, v)
<1>1. Len(v) = w /\ (w = 2 => v = <<v[1], v[2]>>)
  BY NewUnitIs
<1>2. Written(a, w, new)
  <2>1. CASE BusWrite(a, w)
    <3>1. WriteReal(a, v) = new
      BY <1>1, AccessorsAre
    <3>2. QED
      BY <2>1, <3>1 DEF BusWrite
  <2>2. CASE GameStores(a, w)
    <3>1. ~InMemory(a)
      BY <2>2 DEF GameStores, Trapped, Cartridge, SerialAt, ChipAt, InMemory, Mirrored
    <3>2. WritePu(a, v) = new
      BY <1>1, <3>1, AccessorsAre
    <3>3. QED
      BY <2>2, <3>2 DEF GameStores
  <2>3. QED
    BY <2>1, <2>2
<1> HIDE DEF new
<1>3. /\ mem' = new.mem /\ ioMem' = new.ioMem /\ reg' = new.reg /\ busWrites' = busWrites + 1
      /\ gbaMem' = IF InMemory(a) THEN GbaWrite(a, v) ELSE gbaMem
      /\ gbaReg' = IF Region(a) = 4 THEN GbaWriteReg(a % RegionSize, v) ELSE gbaReg
      /\ focus' = focus /\ displayMode' = displayMode /\ line' = line /\ REG_IF' = REG_IF
      /\ cpuSaveType' = cpuSaveType
  BY <1>2, Zenon DEF Written
<1>4. bytewise' = IF Region(a) # 4 THEN bytewise
                  ELSE BytewiseAfter(bytewise, a % RegionSize, w)
  BY <1>2, Zenon DEF Written, BytewiseAfter
<1> HIDE DEF v
<1>5. gbaMem' = mem' /\ IsMemory(mem')
  <2>1. CASE InMemory(a)
    <3>1. new = ToMemory(a, v)
      BY <2>1 DEF new
    <3>2. mem' = WriteMemory(a, v)
      BY <1>3, <3>1 DEF ToMemory
    <3>3. WriteMemory(a, v) = GbaWrite(a, v) /\ IsMemory(GbaWrite(a, v))
      BY <1>1, <2>1, WrittenAsOnTheGba DEF BusInv
    <3>4. QED
      BY <1>3, <2>1, <3>2, <3>3
  <2>2. CASE ~InMemory(a)
    <3>1. new = WriteBehind(a, v)
      BY <2>2 DEF new
    <3>2. mem' = mem
      BY <1>3, <3>1 DEF WriteBehind
    <3>3. QED
      BY <1>3, <2>2, <3>2 DEF BusInv
  <2>3. QED
    BY <2>1, <2>2
<1>6. RegistersKept'
  <2>1. CASE Region(a) # 4
    <3>1. ioMem' = ioMem /\ reg' = reg
      <4>1. CASE InMemory(a)
        BY <1>3, <4>1 DEF new, ToMemory
      <4>2. CASE ~InMemory(a)
        BY <1>3, <2>1, <4>2 DEF new, WriteBehind
      <4>3. QED
        BY <4>1, <4>2
    <3>2. gbaReg' = gbaReg /\ bytewise' = bytewise
      BY <1>3, <1>4, <2>1
    <3>3. Io' = Io
      BY <3>1 DEF Io
    <3>4. QED
      BY <1>3, <3>1, <3>2, <3>3 DEF BusInv, RegistersKept
  <2>2. CASE Region(a) = 4
    <3> DEFINE off == a % RegionSize
               io == WriteRegister(off, v)
    <3>1. ~InMemory(a) /\ off \in Nat
      BY <2>2, InRegion DEF InMemory, Mirrored
    <3>2. ioMem' = io.ioMem /\ reg' = io.reg
      BY <1>3, <2>2, <3>1 DEF new, WriteBehind
    <3>3. /\ IsIo(Io) /\ IsBytes(gbaReg)
          /\ AllHeld(Io, gbaReg, bytewise)
      BY DEF BusInv, RegistersKept
    <3> DEFINE g == gbaReg'
               bw == bytewise'
    <3>4. g = GbaWriteReg(off, v) /\ bw = BytewiseAfter(bytewise, off, w)
      BY <1>3, <1>4, <2>2
    <3>5. io = WriteRegister(off, v) /\ w \in Widths
      OBVIOUS
    <3>6. \E b : b = Align(off, w)
      OBVIOUS
    <3> HIDE DEF off, io, g, bw
    <3>7. IsIo(io) /\ AllHeld(io, g, bw)
      BY ONLY <1>1, <3>1, <3>3, <3>4, <3>5, WriteKeeps
    <3>8. IsBytes(g)
      BY ONLY <1>1, <3>1, <3>3, <3>4, <3>5, <3>6, GbaWriteRegIs
    <3>9. Io' = io
      <4>1. io = [ioMem |-> io.ioMem, reg |-> io.reg]
        BY <3>7 DEF IsIo
      <4>2. Io' = [ioMem |-> ioMem', reg |-> reg']
        BY DEF Io
      <4>3. QED
        BY <3>2, <4>1, <4>2
    <3>10. Len(line') = 4 /\ Len(REG_IF') = 2
      BY <1>3 DEF BusInv, RegistersKept
    <3>11. QED
      BY <3>7, <3>8, <3>9, <3>10, Zenon DEF RegistersKept, g, bw
  <2>3. QED
    BY <2>1, <2>2
<1>7. QED
  BY <1>3, <1>5, <1>6 DEF BusInv

(* What a read fetched, and what the DS's line and interrupts became, is   *)
(* not of the registers that are kept.                                     *)
LEMMA ReadKeeps ==
  ASSUME BusInv, NEW off, NEW w, BusRead(off, w)
  PROVE  BusInv'
<1>1. /\ ioMem' = Refreshed(off, w) /\ focus' = focus /\ displayMode' = displayMode
      /\ mem' = mem /\ reg' = reg /\ line' = line /\ REG_IF' = REG_IF
      /\ cpuSaveType' = cpuSaveType /\ gbaMem' = gbaMem /\ gbaReg' = gbaReg
      /\ bytewise' = bytewise /\ busWrites' = busWrites
  BY DEF BusRead
<1>2. IsBytes(ioMem) /\ Len(line) = 4 /\ Len(REG_IF) = 2
  BY DEF BusInv, RegistersKept, IsIo, IsBytes, Io
<1> DEFINE new == Refreshed(off, w)
<1>3. /\ IsBytes(new)
      /\ \A i \in 0 .. 23 : i \notin {0, 1, 2, 3, 6, 7} => new[i] = ioMem[i]
  BY <1>2, RefreshedIs
<1> DEFINE io == [ioMem |-> new, reg |-> reg]
<1>4. Io' = io
  BY <1>1 DEF Io
<1>5. /\ io.ioMem = new /\ io.reg = reg /\ Io.ioMem = ioMem /\ Io.reg = reg
      /\ io = [ioMem |-> io.ioMem, reg |-> io.reg]
  BY DEF Io
<1> HIDE DEF io, new
<1>6. IsIo(io)
  <2>1. new = [i \in 0 .. 23 |-> new[i]] /\ reg = [s \in Slots |-> reg[s]]
    BY <1>3, <1>5 DEF BusInv, RegistersKept, IsIo, IsBytes
  <2>2. QED
    BY <1>5, <2>1 DEF IsIo
<1>7. AllHeld(io, gbaReg, bytewise)
  <2>1. ASSUME NEW s \in Slots
        PROVE  Held(io, gbaReg, bytewise, s)
    <3>1. Held(Io, gbaReg, bytewise, s)
      BY DEF BusInv, RegistersKept, AllHeld
    <3>2. CASE s \in {0, 2, 6, 20, 22}
      BY <3>2, SlotsAre DEF Held
    <3>3. CASE s \in {4, 8, 10, 12, 14, 16, 18}
      <4>1. new[s] = ioMem[s] /\ new[s + 1] = ioMem[s + 1]
        <5>1. s \in 0 .. 23 /\ s + 1 \in 0 .. 23
              /\ s \notin {0, 1, 2, 3, 6, 7} /\ s + 1 \notin {0, 1, 2, 3, 6, 7}
          BY ONLY <3>3
        <5>2. QED
          BY <1>3, <5>1
      <4>2. QED
        BY <1>5, <3>1, <4>1 DEF Held, Reads
    <3>4. QED
      BY <3>2, <3>3, SlotsAre
  <2>2. QED
    BY <2>1 DEF AllHeld
<1>8. RegistersKept'
  <2>1. Len(line') = 4 /\ Len(REG_IF') = 2 /\ IsBytes(gbaReg')
    BY <1>1, <1>2 DEF BusInv, RegistersKept
  <2>2. IsIo(Io') /\ AllHeld(Io', gbaReg', bytewise')
    BY <1>1, <1>4, <1>6, <1>7
  <2>3. QED
    BY <2>1, <2>2, Zenon DEF RegistersKept
<1>9. QED
  BY <1>1, <1>8 DEF BusInv

LEMMA MovesKeep == BusInv /\ (Moves \/ SwitchMode \/ UNCHANGED busVars) => BusInv'
<1> SUFFICES ASSUME BusInv, Moves \/ SwitchMode \/ UNCHANGED busVars
             PROVE  BusInv'
  OBVIOUS
<1>1. /\ focus' = focus /\ mem' = mem /\ ioMem' = ioMem /\ reg' = reg
      /\ cpuSaveType' = cpuSaveType /\ gbaMem' = gbaMem /\ gbaReg' = gbaReg
      /\ bytewise' = bytewise /\ busWrites' = busWrites
  BY DEF Moves, SwitchMode, busVars
<1>2. displayMode' \in Nat
  <2>1. CASE SwitchMode
    BY <2>1 DEF SwitchMode
  <2>2. CASE Moves \/ UNCHANGED busVars
    <3>1. displayMode' = displayMode
      BY <2>2 DEF Moves, busVars
    <3>2. QED
      BY <3>1 DEF BusInv
  <2>3. QED
    BY <2>1, <2>2
<1>3. Len(line') = 4 /\ Len(REG_IF') = 2
  <2>1. line' = [k \in 1 .. 4 |-> 60 + k] \/ line' = line
    BY DEF Moves, SwitchMode, busVars
  <2>2. REG_IF' = <<71, 72>> \/ REG_IF' = REG_IF
    BY DEF Moves, SwitchMode, busVars
  <2>3. Len([k \in 1 .. 4 |-> 60 + k]) = 4
    OBVIOUS
  <2>4. Len(<<71, 72>>) = 2
    OBVIOUS
  <2>5. Len(line) = 4 /\ Len(REG_IF) = 2
    BY DEF BusInv, RegistersKept
  <2>6. QED
    BY <2>1, <2>2, <2>3, <2>4, <2>5, Zenon
<1>4. RegistersKept'
  <2>1. Io' = Io
    BY <1>1 DEF Io
  <2>2. QED
    BY <1>1, <1>3, <2>1 DEF BusInv, RegistersKept
<1>5. QED
  BY <1>1, <1>2, <1>4 DEF BusInv

LEMMA BusStep == BusInv /\ [BusNext]_busVars => BusInv'
<1> SUFFICES ASSUME BusInv, [BusNext]_busVars
             PROVE  BusInv'
  OBVIOUS
<1>1. CASE \E x \in WrittenAt : Region(x[1]) = focus
                                /\ (BusWrite(x[1], x[2]) \/ GameStores(x[1], x[2]))
  <2>1. PICK x \in WrittenAt : /\ Region(x[1]) = focus
                               /\ BusWrite(x[1], x[2]) \/ GameStores(x[1], x[2])
    BY <1>1
  <2>2. x[1] \in Nat /\ x[2] \in Widths
    BY BusAssumption
  <2>3. QED
    BY <2>1, <2>2, WrittenKeeps
<1>2. CASE \E off \in 0 .. 7, w \in Widths : BusRead(off, w)
  BY <1>2, ReadKeeps
<1>3. CASE Moves \/ SwitchMode \/ UNCHANGED busVars
  BY <1>3, MovesKeep
<1>4. QED
  BY <1>1, <1>2, <1>3, Zenon DEF BusNext

(* The accessors' memory is the GBA's at every step, a register holds what *)
(* the GBA's does as far as it can be read.                                *)
THEOREM BusInvariant == BusSpec => []BusInv
<1>1. QED
  BY BusInitially, BusStep, PTL DEF BusSpec

(* Every address of the memory, of the readable registers and of the image *)
(* is read as on the GBA, by both sets of accessors: the mirrors of        *)
(* gba.armcore.cpp's CPUReadMemory and CPUReadMemorypu, and the doubled    *)
(* bytes of CPUWriteByte, are the GBA's for memory of every size.          *)
THEOREM ReadsAreTheGbas == BusSpec => []ReadsAsOnTheGba
<1>1. BusInv => ReadsAsOnTheGba
  <2> SUFFICES ASSUME BusInv, focus \notin {SerialAt, ChipAt},
                      NEW a \in Looked, NEW w \in Widths, ~Excepted(a, w)
               PROVE  /\ ReadReal(a, w) = GbaRead(AsRead(a, w), w)
                      /\ focus \in Trapped => ReadPu(a, w) = GbaRead(a, w)
    BY DEF ReadsAsOnTheGba
  <2>1. focus \in Focuses \ {SerialAt, ChipAt} /\ gbaMem = mem /\ RegistersKept
    BY DEF BusInv
  <2>2. /\ a \in Nat /\ Region(a) \in 2 .. 12
        /\ focus \in Trapped => ~InMemory(a)
    BY <2>1, LookedIs
  <2>3. QED
    BY <2>1, <2>2, ReadsAgree
<1>2. QED
  BY <1>1, BusInvariant, PTL

(* A register of the emulator's holds what the game last wrote of each of  *)
(* its bytes, whatever the widths, and a chip that answers reads takes     *)
(* writes, for every type of save chip.                                    *)
THEOREM RegistersAreAsWritten == BusSpec => []RegistersAsWritten
<1>1. BusInv => RegistersAsWritten
  <2> SUFFICES ASSUME BusInv
               PROVE  RegistersAsWritten
    OBVIOUS
  <2>1. ASSUME NEW s \in Slots
        PROVE  \/ Kind[s] \in {"line", "IF", "timer"}
               \/ s \in bytewise /\ Kind[s] \in {"count", "sound"}
               \/ reg[s] = <<gbaReg[s], gbaReg[s + 1]>>
    <3>1. Held(Io, gbaReg, bytewise, s) /\ Io.reg = reg
      BY DEF BusInv, RegistersKept, AllHeld, Io
    <3>2. Kind[s] \in {"line", "IF", "timer", "count", "sound", "plain", "hidden"}
      BY SlotsAre
    <3>3. QED
      BY <3>1, <3>2 DEF Held
  <2>2. ASSUME focus \in {SerialAt, ChipAt}, NEW w \in Widths
        PROVE  LET a == At(focus, 0)
               IN  ReadReal(a, w)[1] \in {Serial, Cells} => Reached(a, w) = ReadReal(a, w)[1]
    BY <2>2, ChipsAnswer DEF BusInv
  <2>3. QED
    BY <2>1, <2>2 DEF RegistersAsWritten
<1>2. QED
  BY <1>1, BusInvariant, PTL
=============================================================================
