---------------------------- MODULE StorageProofs -----------------------------
(***************************************************************************)
(* Proofs about the image on the card.  FileMap: for any file, any chain   *)
(* of clusters and any sizes of sector and cluster, the map of the image   *)
(* is whole and right, and for which files its table is written past the   *)
(* end.  RomStream: the stream is correct for every file, every layout on   *)
(* the card, every number of slots and whatever the words that were not    *)
(* cleared hold: an inductive invariant IInv, and from it coherence of the cache, agreement of the    *)
(* table with the slots' owners, and the refinement of RomImage.           *)
(***************************************************************************)
EXTENDS FileMap, RomStream, TLAPS

(* Quotient and remainder.                                                 *)
LEMMA Division ==
  ASSUME NEW x \in Nat, NEW n \in Nat \ {0}
  PROVE  /\ x \div n \in Nat /\ x % n \in 0 .. n - 1
         /\ x = n * (x \div n) + (x % n)
OBVIOUS

LEMMA QuotientIs ==
  ASSUME NEW x \in Nat, NEW n \in Nat \ {0}, NEW q \in Nat, NEW r \in 0 .. n - 1,
         x = n * q + r
  PROVE  x \div n = q /\ x % n = r
<1> DEFINE a == x \div n
           b == x % n
<1>1. a \in Nat /\ b \in 0 .. n - 1 /\ x = n * a + b
  BY Division
<1> HIDE DEF a, b
<1>2. n * (a - q) = r - b
  BY <1>1
<1>3. ~(a - q >= 1) /\ ~(a - q <= -1)
  <2>1. CASE a - q >= 1
    <3>1. n * (a - q) >= n
      BY <1>1, <2>1
    <3> QED BY <3>1, <1>1, <1>2
  <2>2. CASE a - q <= -1
    <3>1. n * (a - q) <= -n
      BY <1>1, <2>2
    <3> QED BY <3>1, <1>1, <1>2
  <2> QED BY <2>1, <2>2
<1>4. a = q /\ b = r
  BY <1>1, <1>2, <1>3
<1> QED
  BY <1>4 DEF a, b
-----------------------------------------------------------------------------
(* The map of an image.                                                    *)

(* The counts generatefilemap makes of a size: whole clusters of the file, *)
(* the entries of the table, the sectors it needs and the clusters that    *)
(* hold them.                                                              *)
LEMMA CountsOfSize ==
  ASSUME NEW x \in Nat \ {0}
  PROVE  /\ x \div bytesPerCluster \in Nat
         /\ (x % bytesPerCluster) \div sectorsize \in 0 .. sectorsPerCluster - 1
         /\ x \div sectorsize
              = sectorsPerCluster * (x \div bytesPerCluster)
                  + ((x % bytesPerCluster) \div sectorsize)
         /\ CeilDiv(x, bytesPerCluster) \in Nat \ {0}
         /\ CeilDiv(x, bytesPerCluster)
              \in {x \div bytesPerCluster, (x \div bytesPerCluster) + 1}
         /\ CeilDiv(x, sectorsize) \in Nat
         /\ CeilDiv(x, sectorsize) - 1 <= x \div sectorsize
         /\ CeilDiv(x, sectorsize)
              <= sectorsPerCluster * CeilDiv(x, bytesPerCluster)
         /\ CeilDiv(x, sectorsize)
              <= sectorsPerCluster * ((x \div bytesPerCluster) + 1)
<1> DEFINE s == sectorsize
           c == sectorsPerCluster
           b == bytesPerCluster
           k == x \div b
           r == x % b
           q == r \div s
           t == r % s
<1>1. s \in Nat \ {0} /\ c \in Nat \ {0}
  BY MapAssumption
<1>2. b \in Nat \ {0} /\ b = s * c
  BY <1>1 DEF bytesPerCluster
<1> HIDE DEF b, s, c
<1>3. k \in Nat /\ r \in 0 .. b - 1 /\ x = b * k + r
  BY <1>2, Division
<1> HIDE DEF k, r
<1>4. q \in Nat /\ t \in 0 .. s - 1 /\ r = s * q + t
  <2>1. r \in Nat
    BY <1>2, <1>3
  <2> QED
    BY <2>1, <1>1, Division
<1> HIDE DEF q, t
<1>5. q < c
  <2>1. s * (c - q) > 0
    BY <1>1, <1>2, <1>3, <1>4
  <2> QED
    BY <2>1, <1>1, <1>4
<1>6. x \div s = c * k + q
  <2>1. x = s * (c * k + q) + t
    BY <1>1, <1>2, <1>3, <1>4
  <2>2. c * k + q \in Nat
    BY <1>1, <1>3, <1>4
  <2> QED
    BY <2>1, <2>2, <1>1, <1>4, QuotientIs
<1>7. CeilDiv(x, b) = IF r = 0 THEN k ELSE k + 1
  <2>1. CASE r = 0
    <3>1. x + b - 1 = b * k + (b - 1)
      BY <2>1, <1>2, <1>3
    <3>2. (x + b - 1) \div b = k
      <4>1. x + b - 1 \in Nat /\ b - 1 \in 0 .. b - 1
        BY <1>2
      <4> QED
        BY <4>1, <3>1, <1>2, <1>3, QuotientIs
    <3> QED
      BY <3>2, <2>1 DEF CeilDiv
  <2>2. CASE r # 0
    <3>1. x + b - 1 = b * (k + 1) + (r - 1)
      BY <1>2, <1>3
    <3>2. (x + b - 1) \div b = k + 1
      <4>1. x + b - 1 \in Nat /\ r - 1 \in 0 .. b - 1 /\ k + 1 \in Nat
        BY <2>2, <1>2, <1>3
      <4> QED
        BY <4>1, <3>1, <1>2, QuotientIs
    <3> QED
      BY <3>2, <2>2 DEF CeilDiv
  <2> QED
    BY <2>1, <2>2
<1>8. r = 0 => k > 0
  BY <1>2, <1>3
<1> DEFINE n == c * k + q
<1>9. n \in Nat /\ x = s * n + t
  BY <1>1, <1>2, <1>3, <1>4
<1>10. CeilDiv(x, s) = IF t = 0 THEN n ELSE n + 1
  <2> HIDE DEF n
  <2>1. CASE t = 0
    <3>1. x + s - 1 = s * n + (s - 1)
      BY <2>1, <1>1, <1>9
    <3>2. (x + s - 1) \div s = n
      BY <3>1, <1>1, <1>9, QuotientIs
    <3> QED
      BY <3>2, <2>1 DEF CeilDiv
  <2>2. CASE t # 0
    <3>1. x + s - 1 = s * (n + 1) + (t - 1)
      BY <1>1, <1>4, <1>9
    <3>2. (x + s - 1) \div s = n + 1
      BY <3>1, <2>2, <1>1, <1>4, <1>9, QuotientIs
    <3> QED
      BY <3>2, <2>2 DEF CeilDiv
  <2> QED
    BY <2>1, <2>2
<1>11. n + 1 <= c * (k + 1)
  BY <1>1, <1>3, <1>4, <1>5
<1>12. r = 0 => q = 0 /\ t = 0
  BY <1>1, <1>4
<1>13. CeilDiv(x, s) <= c * CeilDiv(x, b)
  <2>1. CASE r = 0
    BY <2>1, <1>1, <1>3, <1>7, <1>10, <1>12
  <2>2. CASE r # 0
    <3>1. CeilDiv(x, b) = k + 1
      BY <2>2, <1>7
    <3>2. CeilDiv(x, s) <= n + 1
      <4> HIDE DEF n
      <4> QED
        BY <1>9, <1>10
    <3>3. CeilDiv(x, s) \in Nat /\ c * (k + 1) \in Nat
      <4> HIDE DEF n
      <4> QED
        BY <1>1, <1>3, <1>9, <1>10
    <3> HIDE DEF n
    <3>4. CeilDiv(x, s) <= c * (k + 1)
      BY <3>2, <3>3, <1>9, <1>11
    <3> QED
      BY <3>1, <3>4
  <2> QED
    BY <2>1, <2>2
<1>14. /\ CeilDiv(x, b) \in Nat \ {0}
       /\ CeilDiv(x, b) \in {k, k + 1}
  BY <1>3, <1>7, <1>8
<1>15. /\ CeilDiv(x, s) \in Nat
       /\ CeilDiv(x, s) - 1 <= n
       /\ CeilDiv(x, s) <= c * (k + 1)
  <2> HIDE DEF n
  <2>1. c * (k + 1) \in Nat
    BY <1>1, <1>3
  <2> QED
    BY <1>9, <1>10, <1>11, <2>1
<1>16. q \in 0 .. c - 1
  BY <1>1, <1>4, <1>5
<1> HIDE DEF n
<1>17. x \div s = n
  BY <1>6 DEF n
<1>18. /\ k \in Nat
       /\ q \in 0 .. c - 1
       /\ x \div s = c * k + q
       /\ CeilDiv(x, s) - 1 <= x \div s
  BY <1>3, <1>6, <1>15, <1>16, <1>17
<1> QED
  BY <1>13, <1>14, <1>15, <1>18 DEF s, c, b, k, r, q

WholeClusters == size \div bytesPerCluster

(* How many clusters have been entered.                                    *)
EnteredClusters ==
  IF step \in {"clear", "first"} THEN 0 ELSE WholeClusters - clusCount + 1

(* The entries of the clusters entered.                                    *)
FilledRight ==
  \A i \in Entries :
    i < mappoffset /\ i < sectorsPerCluster * Len(chain)
      => mapped[i] = SectorOnCard(i)

(* The walk is at the place in the chain that clusCount says, the entries  *)
(* filled are those of the clusters entered, each with its own sector, and *)
(* the table is overrun as soon as what was filled is longer.              *)
MapInv ==
  /\ MapTypeOK
  /\ step \in {"clear", "first"} => clusCount = WholeClusters
  /\ step = "done" => clusCount = 0
  /\ mappoffset = sectorsPerCluster * EnteredClusters
  /\ cluster = IF WholeClusters - clusCount + 1 \in DOMAIN chain
               THEN chain[WholeClusters - clusCount + 1] ELSE CLUSTER_EOF
  /\ FilledRight
  /\ overrun <=> mappoffset - 1 > size \div sectorsize

LEMMA ChainFacts ==
  ASSUME size \in FileSize, chain \in Chains(size)
  PROVE  /\ size \in Nat \ {0}
         /\ DOMAIN chain = 1 .. Len(chain)
         /\ Len(chain) = CeilDiv(size, bytesPerCluster)
         /\ WholeClusters \in Nat
         /\ Len(chain) \in Nat \ {0}
         /\ Len(chain) \in {WholeClusters, WholeClusters + 1}
         /\ \A i \in 1 .. Len(chain) : chain[i] \in Cluster
         /\ \A i, j \in 1 .. Len(chain) : i # j => chain[i] # chain[j]
<1>1. size \in Nat \ {0}
  BY MapAssumption
<1>2. /\ CeilDiv(size, bytesPerCluster) \in Nat \ {0}
      /\ CeilDiv(size, bytesPerCluster) \in {WholeClusters, WholeClusters + 1}
      /\ WholeClusters \in Nat
  BY <1>1, CountsOfSize DEF WholeClusters
<1>3. /\ chain \in [1 .. CeilDiv(size, bytesPerCluster) -> Cluster]
      /\ \A i, j \in DOMAIN chain : i # j => chain[i] # chain[j]
  BY DEF Chains
<1>4. Len(chain) = CeilDiv(size, bytesPerCluster)
  BY <1>2, <1>3
<1> QED
  BY <1>1, <1>2, <1>3, <1>4

(* The link behind each cluster of the chain; the last has the end mark.   *)
LEMMA NextInChain ==
  ASSUME size \in FileSize, chain \in Chains(size), NEW k \in 1 .. Len(chain)
  PROVE  nextCluster(chain[k])
           = IF k + 1 \in 1 .. Len(chain) THEN chain[k + 1] ELSE CLUSTER_EOF
<1> DEFINE L == Len(chain)
<1>1. L \in Nat \ {0} /\ \A i, j \in 1 .. L : i # j => chain[i] # chain[j]
  BY ChainFacts
<1>2. CASE k < L
  <2> DEFINE P(i) == chain[i] = chain[k]
             w == CHOOSE i \in 1 .. L - 1 : P(i)
  <2>1. k \in 1 .. L - 1 /\ P(k)
    BY <1>1, <1>2
  <2>2. w \in 1 .. L - 1 /\ P(w)
    BY <2>1
  <2>3. w = k
    BY <2>2, <1>1
  <2>4. nextCluster(chain[k]) = chain[w + 1]
    BY <2>1 DEF nextCluster
  <2> QED
    BY <2>3, <2>4, <1>1, <1>2
<1>3. CASE k = L
  <2>1. \A i \in 1 .. L - 1 : chain[i] # chain[k]
    BY <1>1, <1>3
  <2> QED
    BY <2>1, <1>1, <1>3 DEF nextCluster
<1> QED
  BY <1>1, <1>2, <1>3

(* A cluster entered at its place in the chain is mapped right, and goes   *)
(* past the table when it ends there.                                      *)
LEMMA ClusterEntered ==
  ASSUME size \in FileSize, chain \in Chains(size), UNCHANGED <<size, chain>>,
         mapped \in [Entries -> Nat \cup {Junk}], FilledRight,
         overrun <=> mappoffset - 1 > size \div sectorsize,
         NEW e \in Nat, mappoffset = sectorsPerCluster * e,
         NEW d, d = IF e + 1 \in DOMAIN chain THEN chain[e + 1] ELSE CLUSTER_EOF,
         EnterCluster(d)
  PROVE  /\ mappoffset' = sectorsPerCluster * (e + 1)
         /\ mapped' \in [Entries' -> Nat \cup {Junk}]
         /\ FilledRight'
         /\ overrun' <=> mappoffset' - 1 > size \div sectorsize
<1> DEFINE c == sectorsPerCluster
           L == Len(chain)
<1>1. c \in Nat \ {0}
  BY MapAssumption
<1>2. /\ size \in Nat \ {0} /\ L \in Nat \ {0} /\ DOMAIN chain = 1 .. L
      /\ \A i \in 1 .. L : chain[i] \in Cluster
  BY ChainFacts
<1>3. Entries' = Entries /\ Entries \subseteq Nat /\ size \div sectorsize \in Nat
  BY <1>2, MapAssumption DEF Entries
<1>4. mappoffset \in Nat /\ mappoffset' = mappoffset + c
  BY <1>1 DEF EnterCluster
<1>5. d \in Nat /\ d >= 2
  <2>1. \A k \in Cluster : k \in Nat /\ k >= 2 /\ k < CLUSTER_EOF
    BY MapAssumption
  <2>2. chain[1] \in Cluster /\ CLUSTER_EOF \in Nat
    BY <1>2, MapAssumption
  <2>3. d \in Cluster \cup {CLUSTER_EOF}
    BY <1>2, <2>2
  <2> QED
    BY <2>1, <2>2, <2>3
<1>6. clusterToSector(d) \in Nat
  <2>1. (d - 2) * c \in Nat
    BY <1>1, <1>5
  <2> QED
    BY <2>1, MapAssumption DEF clusterToSector
<1>7. mapped' \in [Entries -> Nat \cup {Junk}]
  <2>1. \A i \in Entries : i - mappoffset \in 0 .. c - 1
          => clusterToSector(d) + (i - mappoffset) \in Nat
    BY <1>1, <1>6
  <2> QED
    BY <2>1 DEF EnterCluster
<1>8. ASSUME NEW i \in Entries, i < mappoffset', i < c * L
      PROVE  mapped'[i] = SectorOnCard(i)
  <2>1. i \in Nat
    BY <1>3
  <2>2. CASE i < mappoffset
    <3>1. mapped'[i] = mapped[i]
      BY <2>1, <2>2, <1>4 DEF EnterCluster
    <3> QED
      BY <3>1, <2>2, <1>8 DEF FilledRight
  <2>3. CASE ~(i < mappoffset)
    <3>1. i - mappoffset \in 0 .. c - 1
      BY <2>1, <2>3, <1>1, <1>4, <1>8
    <3>2. i = c * e + (i - mappoffset)
      BY <2>1, <1>4
    <3>3. i \div c = e /\ i % c = i - mappoffset
      BY <2>1, <3>1, <3>2, <1>1, QuotientIs
    <3>4. e < L
      <4>1. c * e < c * L
        BY <2>1, <2>3, <1>1, <1>2, <1>4, <1>8
      <4>2. c * (L - e) > 0
        BY <4>1, <1>1, <1>2
      <4> QED
        BY <4>2, <1>1, <1>2
    <3>5. d = chain[e + 1]
      BY <3>4, <1>2
    <3>6. mapped'[i] = clusterToSector(d) + (i - mappoffset)
      BY <3>1 DEF EnterCluster
    <3> QED
      BY <3>3, <3>5, <3>6 DEF SectorOnCard
  <2> QED
    BY <2>2, <2>3
<1>9. FilledRight'
  <2>1. \A i : SectorOnCard(i)' = SectorOnCard(i)
    BY DEF SectorOnCard
  <2> QED
    BY <1>3, <1>8, <2>1 DEF FilledRight
<1>10. overrun' <=> mappoffset' - 1 > size \div sectorsize
  <2>1. overrun' <=> (overrun \/ mappoffset + c - 1 \notin Entries)
    BY DEF EnterCluster
  <2>2. mappoffset + c - 1 \notin Entries <=> mappoffset + c - 1 > size \div sectorsize
    BY <1>1, <1>3, <1>4 DEF Entries
  <2>3. overrun => mappoffset + c - 1 > size \div sectorsize
    BY <1>1, <1>3, <1>4
  <2>4. mappoffset' - 1 = mappoffset + c - 1
    BY <1>1, <1>4
  <2> QED
    BY <2>1, <2>2, <2>3, <2>4, Zenon
<1>11. mappoffset' = c * (e + 1)
  BY <1>1, <1>4
<1> QED
  BY <1>3, <1>7, <1>9, <1>10, <1>11

LEMMA MapStarts == MapInit => MapInv
<1> SUFFICES ASSUME MapInit PROVE MapInv
  OBVIOUS
<1> USE DEF MapInit
<1>1. /\ size \in Nat \ {0} /\ WholeClusters \in Nat
      /\ DOMAIN chain = 1 .. Len(chain) /\ Len(chain) \in Nat \ {0}
      /\ chain[1] \in Cluster
  BY ChainFacts
<1>2. MapTypeOK
  <2>1. (size \div bytesPerCluster + 1) * sectorsPerCluster \in Nat
    BY <1>1, MapAssumption DEF WholeClusters
  <2>2. mappoffset \in 0 .. (size \div bytesPerCluster + 1) * sectorsPerCluster
    BY <2>1
  <2>3. clusCount \in 0 .. size \div bytesPerCluster
    BY <1>1 DEF WholeClusters
  <2>4. /\ mapped \in [Entries -> Nat \cup {Junk}]
        /\ cacheWord \in [Entries -> {Uncached, Junk}]
    OBVIOUS
  <2> QED
    BY <1>1, <2>2, <2>3, <2>4 DEF MapTypeOK
<1>3. mappoffset = sectorsPerCluster * EnteredClusters
  BY MapAssumption DEF EnteredClusters
<1>4. FilledRight
  BY DEF FilledRight, Entries
<1>5. overrun <=> mappoffset - 1 > size \div sectorsize
  BY <1>1, MapAssumption
<1>6. clusCount = WholeClusters
  BY DEF WholeClusters
<1>7. cluster = chain[WholeClusters - clusCount + 1]
  BY <1>1, <1>6
<1> QED
  BY <1>1, <1>2, <1>3, <1>4, <1>5, <1>6, <1>7 DEF MapInv

LEMMA ClearKeepsMap == MapInv /\ ClearCacheWords => MapInv'
<1> SUFFICES ASSUME MapInv, ClearCacheWords PROVE MapInv'
  OBVIOUS
<1> USE DEF MapInv, ClearCacheWords
<1>1. size \in FileSize /\ chain \in Chains(size)
  BY DEF MapTypeOK
<1>2. /\ size \in Nat \ {0} /\ WholeClusters \in Nat
      /\ size \div sectorsize \in Nat
      /\ sectorsPerCluster * WholeClusters <= size \div sectorsize
  <2>1. size \in Nat \ {0} /\ WholeClusters \in Nat
    BY <1>1, ChainFacts
  <2>2. sectorsPerCluster * WholeClusters \in Nat
    BY <2>1, MapAssumption
  <2> DEFINE q == (size % bytesPerCluster) \div sectorsize
  <2>3. /\ q \in 0 .. sectorsPerCluster - 1
        /\ size \div sectorsize = sectorsPerCluster * WholeClusters + q
    BY <2>1, CountsOfSize DEF WholeClusters
  <2> HIDE DEF q
  <2> QED
    BY <2>1, <2>2, <2>3, MapAssumption
<1>3. overrun' = overrun
  <2>1. Cleared - 1 = sectorsPerCluster * WholeClusters
    BY <1>2, MapAssumption DEF Cleared
  <2>2. Cleared - 1 \in Entries
    BY <1>2, <2>1, MapAssumption DEF Entries
  <2> QED
    BY <2>2 DEF MapTypeOK
<1>4. MapTypeOK'
  <2>1. cacheWord' \in [Entries -> {Uncached, Junk}]
    BY DEF MapTypeOK
  <2> QED
    BY <2>1, <1>3 DEF MapTypeOK, Chains, Entries
<1>5. FilledRight'
  BY DEF FilledRight, Entries, SectorOnCard
<1>6. EnteredClusters' = EnteredClusters /\ WholeClusters' = WholeClusters
  BY DEF EnteredClusters, WholeClusters
<1> QED
  BY <1>3, <1>4, <1>5, <1>6

(* The cluster that e others were entered before.                          *)
LEMMA EnteringKeepsMap ==
  ASSUME MapInv, UNCHANGED <<size, chain, cacheWord>>, NEW e \in Nat,
         mappoffset = sectorsPerCluster * e, EnterCluster(cluster'),
         cluster' = IF e + 1 \in DOMAIN chain THEN chain[e + 1] ELSE CLUSTER_EOF,
         step' = "walk", clusCount' = WholeClusters - e,
         clusCount' \in 0 .. WholeClusters
  PROVE  MapInv'
<1>1. size \in FileSize /\ chain \in Chains(size)
  BY DEF MapInv, MapTypeOK
<1>2. /\ size \in Nat \ {0} /\ WholeClusters \in Nat
      /\ DOMAIN chain = 1 .. Len(chain)
      /\ \A i \in 1 .. Len(chain) : chain[i] \in Cluster
  BY <1>1, ChainFacts
<1>3. WholeClusters' = WholeClusters /\ EnteredClusters' = e + 1
  BY <1>2 DEF WholeClusters, EnteredClusters
<1>4. /\ mappoffset' = sectorsPerCluster * (e + 1)
      /\ mapped' \in [Entries' -> Nat \cup {Junk}]
      /\ FilledRight'
      /\ overrun' <=> mappoffset' - 1 > size \div sectorsize
  <2>1. /\ mapped \in [Entries -> Nat \cup {Junk}] /\ FilledRight
        /\ overrun <=> mappoffset - 1 > size \div sectorsize
    BY DEF MapInv, MapTypeOK
  <2> DEFINE d == cluster'
  <2>2. /\ EnterCluster(d)
        /\ d = IF e + 1 \in DOMAIN chain THEN chain[e + 1] ELSE CLUSTER_EOF
    OBVIOUS
  <2> HIDE DEF d
  <2> QED
    BY <1>1, <2>1, <2>2, ClusterEntered
<1>5. e + 1 = WholeClusters' - clusCount' + 1 /\ e <= WholeClusters
  BY <1>2, <1>3
<1>6. MapTypeOK'
  <2>1. mappoffset' \in 0 .. (WholeClusters + 1) * sectorsPerCluster
    <3>1. /\ sectorsPerCluster * (e + 1) \in Nat
          /\ (WholeClusters + 1) * sectorsPerCluster \in Nat
          /\ (WholeClusters - e) * sectorsPerCluster >= 0
      BY <1>2, <1>5, MapAssumption
    <3>2. (WholeClusters + 1) * sectorsPerCluster - sectorsPerCluster * (e + 1)
            = (WholeClusters - e) * sectorsPerCluster
      BY <1>2, MapAssumption
    <3> HIDE DEF WholeClusters
    <3> QED
      BY <1>4, <3>1, <3>2
  <2>2. cluster' \in Cluster \cup {CLUSTER_EOF}
    BY <1>2
  <2>3. overrun' \in BOOLEAN
    BY DEF EnterCluster
  <2>4. /\ size' \in FileSize /\ chain' \in Chains(size')
        /\ cacheWord' \in [Entries' -> {Uncached, Junk}]
    BY DEF MapInv, MapTypeOK, Chains, Entries
  <2> QED
    BY <1>4, <2>1, <2>2, <2>3, <2>4 DEF MapTypeOK, WholeClusters
<1>7. size' = size /\ chain' = chain
  OBVIOUS
<1>8. overrun' <=> mappoffset' - 1 > size' \div sectorsize
  BY <1>4, <1>7
<1>9. cluster' = IF WholeClusters' - clusCount' + 1 \in DOMAIN chain'
                 THEN chain'[WholeClusters' - clusCount' + 1] ELSE CLUSTER_EOF
  BY <1>5, <1>7
<1> QED
  BY <1>3, <1>4, <1>6, <1>8, <1>9 DEF MapInv

LEMMA StepKeepsMap == MapInv /\ [MapNext]_mapVars => MapInv'
<1> SUFFICES ASSUME MapInv, [MapNext]_mapVars PROVE MapInv'
  OBVIOUS
<1>1. /\ size \in FileSize /\ chain \in Chains(size)
      /\ clusCount \in 0 .. WholeClusters
  BY DEF MapInv, MapTypeOK, WholeClusters
<1>2. WholeClusters \in Nat /\ DOMAIN chain = 1 .. Len(chain) /\ Len(chain) \in Nat
      /\ Len(chain) >= WholeClusters
  BY <1>1, ChainFacts
<1>3. CASE ClearCacheWords
  BY <1>3, ClearKeepsMap
<1>4. CASE MapFirstCluster
  <2> USE <1>4 DEF MapFirstCluster
  <2>1. /\ EnteredClusters = 0 /\ clusCount = WholeClusters
        /\ mappoffset = sectorsPerCluster * 0
    BY DEF MapInv, EnteredClusters
  <2>2. cluster' = IF 0 + 1 \in DOMAIN chain THEN chain[0 + 1] ELSE CLUSTER_EOF
    BY <2>1, <1>2 DEF MapInv
  <2>3. EnterCluster(cluster')
    OBVIOUS
  <2> QED
    BY <2>1, <2>2, <2>3, <1>1, <1>2, EnteringKeepsMap
<1>5. CASE MapNextCluster
  <2> USE <1>5 DEF MapNextCluster
  <2> DEFINE e == WholeClusters - clusCount + 1
  <2>1. e \in Nat /\ mappoffset = sectorsPerCluster * e
    BY <1>1, <1>2 DEF MapInv, EnteredClusters
  <2>2. e \in 1 .. Len(chain)
    BY <1>1, <1>2
  <2>3. cluster = chain[e]
    BY <2>2, <1>2 DEF MapInv
  <2>4. cluster' = IF e + 1 \in DOMAIN chain THEN chain[e + 1] ELSE CLUSTER_EOF
    BY <2>2, <2>3, <1>1, <1>2, NextInChain
  <2>5. clusCount' = WholeClusters - e /\ clusCount' \in 0 .. WholeClusters
    BY <1>1, <1>2
  <2> HIDE DEF e
  <2> QED
    BY <2>1, <2>4, <2>5, EnteringKeepsMap
<1>6. CASE Finish
  <2> USE <1>6 DEF Finish
  <2>1. MapTypeOK'
    BY DEF MapInv, MapTypeOK, Chains, Entries
  <2>2. FilledRight'
    BY DEF MapInv, FilledRight, Entries, SectorOnCard
  <2>3. WholeClusters' = WholeClusters /\ EnteredClusters' = EnteredClusters
    BY DEF WholeClusters, EnteredClusters
  <2> QED
    BY <2>1, <2>2, <2>3 DEF MapInv
<1>7. CASE UNCHANGED mapVars
  BY <1>7 DEF mapVars, MapInv, MapTypeOK, Chains, Entries, FilledRight,
     SectorOnCard, WholeClusters, EnteredClusters
<1> QED
  BY <1>3, <1>4, <1>5, <1>6, <1>7 DEF MapNext

(* The walk, the table and the overrun keep together for any file on any   *)
(* chain of a card of any geometry.                                        *)
THEOREM MapInvariant == MapSpec => []MapInv
BY MapStarts, StepKeepsMap, PTL DEF MapSpec

(* However long the file and wherever its clusters are, the finished map   *)
(* has every sector at its place on the card, and the walk takes the end   *)
(* mark for a cluster once at most and as the last.                        *)
THEOREM WholeFileIsMapped == MapSpec => []MapsWholeFile
<1>1. MapInv => MapsWholeFile
  <2> SUFFICES ASSUME MapInv PROVE MapsWholeFile
    OBVIOUS
  <2> USE DEF MapInv, MapTypeOK
  <2>1. /\ size \in Nat \ {0} /\ WholeClusters \in Nat
        /\ DOMAIN chain = 1 .. Len(chain)
        /\ Len(chain) = CeilDiv(size, bytesPerCluster)
        /\ Len(chain) \in Nat /\ Len(chain) >= WholeClusters
        /\ \A i \in 1 .. Len(chain) : chain[i] \in Cluster
    BY ChainFacts
  <2>2. ASSUME step = "done", NEW s \in FileSectors
        PROVE  mapped[s] = SectorOnCard(s)
    <3>1. /\ s \in Entries
          /\ s < sectorsPerCluster * Len(chain)
          /\ s < sectorsPerCluster * (WholeClusters + 1)
      <4> DEFINE n == CeilDiv(size, sectorsize)
                 E == size \div sectorsize
                 a == sectorsPerCluster * CeilDiv(size, bytesPerCluster)
                 b == sectorsPerCluster * (WholeClusters + 1)
      <4>1. n \in Nat /\ n - 1 <= E /\ n <= a /\ n <= b
        BY <2>1, CountsOfSize DEF WholeClusters
      <4>2. E \in Nat /\ a \in Nat /\ b \in Nat
        BY <2>1, MapAssumption
      <4>3. s \in 0 .. n - 1
        BY DEF FileSectors
      <4> HIDE DEF n, E, a, b
      <4>4. s \in 0 .. E /\ s < a /\ s < b
        BY <4>1, <4>2, <4>3
      <4> QED
        BY <4>4, <2>1 DEF Entries, E, a, b
    <3>2. mappoffset = sectorsPerCluster * (WholeClusters + 1)
      BY <2>2, <2>1 DEF EnteredClusters
    <3> QED
      BY <3>1, <3>2 DEF FilledRight
  <2>3. cluster = CLUSTER_EOF => clusCount = 0
    <3>1. clusCount \in 0 .. WholeClusters
      BY DEF WholeClusters
    <3>2. \A i \in 1 .. Len(chain) : chain[i] # CLUSTER_EOF
      BY <2>1, MapAssumption
    <3>3. clusCount # 0 => WholeClusters - clusCount + 1 \in 1 .. Len(chain)
      BY <3>1, <2>1
    <3> QED
      BY <3>2, <3>3, <2>1
  <2> QED
    BY <2>2, <2>3 DEF MapsWholeFile
<1> QED
  BY <1>1, MapInvariant, PTL

(* And the table, allocated by the size of the file and filled by whole    *)
(* clusters, is overrun for exactly the sizes said.                        *)
THEOREM OverrunIsKnown == MapSpec => []OverrunsUnlessLastClusterIsUsed
<1>1. MapInv => OverrunsUnlessLastClusterIsUsed
  <2> SUFFICES ASSUME MapInv, step = "done"
               PROVE  overrun <=> (size % bytesPerCluster) \div sectorsize
                                    < sectorsPerCluster - 1
    BY DEF OverrunsUnlessLastClusterIsUsed
  <2> DEFINE q == (size % bytesPerCluster) \div sectorsize
             p == sectorsPerCluster * WholeClusters
  <2>1. size \in Nat \ {0} /\ WholeClusters \in Nat
    BY ChainFacts DEF MapInv, MapTypeOK
  <2>2. q \in 0 .. sectorsPerCluster - 1 /\ size \div sectorsize = p + q
    BY <2>1, CountsOfSize DEF WholeClusters
  <2>3. p \in Nat
    BY <2>1, MapAssumption
  <2>4. mappoffset = p + sectorsPerCluster
    <3>1. mappoffset = sectorsPerCluster * (WholeClusters + 1)
      BY <2>1 DEF MapInv, EnteredClusters
    <3> QED
      BY <3>1, <2>1, MapAssumption
  <2> HIDE DEF q, p
  <2>5. mappoffset - 1 > size \div sectorsize <=> q < sectorsPerCluster - 1
    BY <2>2, <2>3, <2>4, MapAssumption
  <2>6. overrun <=> mappoffset - 1 > size \div sectorsize
    BY DEF MapInv
  <2> QED
    BY <2>5, <2>6 DEF q
<1> QED
  BY <1>1, MapInvariant, PTL
-----------------------------------------------------------------------------
(* The card map is intact wherever it is used: off sector 0.               *)
StreamedMapIntact == \A s \in Sector \ {0} : cardSector[s] = Layout[s]

(* A read under way wants sectors of the file, one at least.               *)
TransferInFile ==
  /\ pc = "idle" <=> pos = None
  /\ pc # "idle" => /\ left >= 1
                    /\ \A i \in 0 .. left - 1 : pos + i \in Streamed

(* What a miss has established before each of its steps.                   *)
MissUnderway ==
  /\ pc \in {"evict", "claim", "publish"} => cachedIn[pos] = None
  /\ pc \in {"claim", "publish"} =>
       \A s \in Blanked : cachedIn[s] # current_pointer
  /\ pc \in {"publish", "fill", "advance"} =>
       /\ asd = current_pointer
       /\ allocedfild[current_pointer] = pos
  /\ pc \in {"fill", "advance", "return"} => cachedIn[pos] = asd
  /\ pc = "return" => asd \in Slot

(* A cleared word never becomes anything but a slot.                       *)
ClearedWordsAreSlots == \A s \in Blanked : cachedIn[s] \in Slot \cup {None}

IInv ==
  /\ TypeOK
  /\ ClearedWordsAreSlots
  /\ StreamedMapIntact
  /\ TransferInFile
  /\ MissUnderway
  /\ SlotsAndOwnersAgree
  /\ Coherent

-----------------------------------------------------------------------------
(* A freshly mapped image, with every slot and every cleared word blank,   *)
(* satisfies the invariant.                                                *)
LEMMA InitEstablishes == Init => IInv
<1> SUFFICES ASSUME Init PROVE IInv
  OBVIOUS
<1> USE ConstantsAssumption DEF Init, Slot
<1>1. TypeOK
  BY DEF TypeOK, CardSector, Steps
<1>2. /\ ClearedWordsAreSlots /\ StreamedMapIntact /\ TransferInFile
      /\ MissUnderway
  BY DEF ClearedWordsAreSlots, StreamedMapIntact, TransferInFile, MissUnderway
<1>3. SlotsAndOwnersAgree /\ Coherent
  BY DEF SlotsAndOwnersAgree, Coherent
<1> QED
  BY <1>1, <1>2, <1>3 DEF IInv

(* Handing one sector over leaves a transfer that is still in the file.    *)
LEMMA DeliverKeepsTransfer ==
  ASSUME TypeOK, TransferInFile, pc # "idle", NEW k \in Slot \cup {Stray},
         Deliver(k)
  PROVE  /\ pc' \in Steps
         /\ pos' \in Streamed \cup {None}
         /\ left' \in 0 .. MaxTransfer
         /\ asd' \in Slot \cup {None}
         /\ data' \in CardSector \cup {None, Stray}
         /\ TransferInFile'
<1> DEFINE n == left
           p == pos
<1> USE ConstantsAssumption DEF Deliver
<1>1. p # None
  BY DEF TransferInFile
<1>2. p \in Streamed /\ p \in Nat
  BY <1>1 DEF TypeOK
<1>3. n \in 1 .. MaxTransfer
  BY DEF TransferInFile, TypeOK
<1>4. /\ asd' \in Slot \cup {None}
      /\ data' \in CardSector \cup {None, Stray}
  BY DEF TypeOK, Held
<1>5. left' = n - 1 /\ n - 1 \in 0 .. MaxTransfer
  BY <1>3
<1>6. left' \in 0 .. MaxTransfer /\ left' = n - 1
  BY <1>5 DEF TypeOK
<1>7. CASE n > 1
  <2>1. /\ pos' = p + 1
        /\ pc' = "lookup"
    BY <1>7
  <2>2. \A i \in 0 .. n - 1 : p + i \in Streamed
    BY DEF TransferInFile
  <2>3. p + 1 \in Streamed /\ p + 1 # None
    BY <1>2, <1>3, <1>7, <2>2
  <2>4. \A i \in 0 .. (n - 1) - 1 : (p + 1) + i \in Streamed
    <3>1. TAKE i \in 0 .. (n - 1) - 1
    <3>2. i + 1 \in 0 .. n - 1
      BY <1>3
    <3>3. p + (i + 1) \in Streamed
      BY <2>2, <3>2
    <3> QED
      BY <1>2, <3>3
  <2>5. pos' = p + 1 /\ pc' = "lookup"
    BY <2>1 DEF TypeOK
  <2>6. TransferInFile'
    BY <1>3, <1>6, <1>7, <2>3, <2>4, <2>5 DEF TransferInFile
  <2> QED
    BY <1>4, <1>6, <2>1, <2>3, <2>6 DEF TypeOK, Steps
<1>8. CASE ~ (n > 1)
  <2>1. /\ pos' = None
        /\ pc' = "idle"
    BY <1>8
  <2>2. TransferInFile'
    BY <2>1 DEF TransferInFile, TypeOK
  <2> QED
    BY <1>4, <1>6, <2>1, <2>2 DEF TypeOK, Steps
<1> QED
  BY <1>7, <1>8

(* Entering a read only records what is wanted.                            *)
LEMMA StartPreserves ==
  ASSUME IInv, NEW s \in Streamed, NEW n \in 1 .. MaxTransfer,
         Start(s, n)
  PROVE  IInv'
<1> USE ConstantsAssumption DEF IInv, Start, table
<1>1. TypeOK'
  <2>1. n \in 0 .. MaxTransfer
    OBVIOUS
  <2> QED
    BY <2>1 DEF TypeOK, Steps
<1>2. StreamedMapIntact'
  BY DEF StreamedMapIntact, TypeOK
<1>3. TransferInFile'
  <2>1. pos' = s /\ left' = n /\ pc' = "lookup"
    BY DEF TypeOK
  <2>2. s # None
    OBVIOUS
  <2> QED
    BY <2>1, <2>2 DEF TransferInFile
<1>4. MissUnderway'
  BY DEF MissUnderway, TransferInFile, TypeOK, Slot
<1>5. SlotsAndOwnersAgree'
  BY DEF SlotsAndOwnersAgree, MidMiss, MissUnderway,
       TransferInFile, TypeOK, Slot
<1>6. Coherent'
  BY DEF Coherent, Filling, MissUnderway, TransferInFile, TypeOK, Slot
<1>7. ClearedWordsAreSlots'
  BY DEF ClearedWordsAreSlots, MissUnderway, TransferInFile, TypeOK, Slot
<1> QED
  BY <1>1, <1>2, <1>3, <1>4, <1>5, <1>6, <1>7

(* A hit hands data over and leaves the cache alone.                        *)
LEMMA HitPreserves ==
  ASSUME IInv, Hit
  PROVE  IInv'
<1> USE ConstantsAssumption DEF IInv, Hit, Deliver, table
<1>0. pc # "idle" /\ cachedIn[pos] \in Slot \cup {Stray}
  BY DEF TransferInFile, TypeOK
<1>1. TypeOK'
  BY <1>0, DeliverKeepsTransfer DEF TypeOK, CardSector
<1>2. StreamedMapIntact'
  BY DEF StreamedMapIntact, TypeOK
<1>3. TransferInFile'
  BY <1>0, DeliverKeepsTransfer
<1>4. MissUnderway'
  BY DEF MissUnderway, TransferInFile, TypeOK, Slot
<1>5. SlotsAndOwnersAgree'
  BY DEF SlotsAndOwnersAgree, MidMiss, MissUnderway,
       TransferInFile, TypeOK, Slot
<1>6. Coherent'
  BY DEF Coherent, Filling, MissUnderway, TransferInFile, TypeOK, Slot
<1>7. ClearedWordsAreSlots'
  BY DEF ClearedWordsAreSlots, MissUnderway, TransferInFile, TypeOK, Slot
<1> QED
  BY <1>1, <1>2, <1>3, <1>4, <1>5, <1>6, <1>7

(* A miss is recorded before anything is changed.                          *)
LEMMA MissPreserves ==
  ASSUME IInv, Miss
  PROVE  IInv'
<1> USE ConstantsAssumption DEF IInv, Miss, table
<1>1. TypeOK'
  BY DEF TypeOK, Slot, CardSector, Steps
<1>2. StreamedMapIntact'
  BY DEF StreamedMapIntact, TypeOK
<1>3. TransferInFile'
  BY DEF TransferInFile, TypeOK
<1>4. MissUnderway'
  BY DEF MissUnderway, TransferInFile, TypeOK, Slot
<1>5. SlotsAndOwnersAgree'
  BY DEF SlotsAndOwnersAgree, MidMiss, MissUnderway,
       TransferInFile, TypeOK, Slot
<1>6. Coherent'
  BY DEF Coherent, Filling, MissUnderway, TransferInFile, TypeOK, Slot
<1>7. ClearedWordsAreSlots'
  BY DEF ClearedWordsAreSlots, MissUnderway, TransferInFile, TypeOK, Slot
<1> QED
  BY <1>1, <1>2, <1>3, <1>4, <1>5, <1>6, <1>7

(* Clearing the old owner's table word frees the slot: no sector is left   *)
(* pointing at it.  Only the word of sector 0 can be hit instead.          *)
LEMMA EvictPreserves ==
  ASSUME IInv, Evict
  PROVE  IInv'
<1> USE ConstantsAssumption DEF IInv, Evict, table
<1>1. TypeOK'
  BY DEF TypeOK, Slot, CardSector, Steps
<1>2. StreamedMapIntact'
  BY DEF StreamedMapIntact, TypeOK
<1>3. TransferInFile'
  BY DEF TransferInFile, TypeOK
<1>4. MissUnderway'
  <2> DEFINE owner == allocedfild[current_pointer]
  <2>1. CASE owner = None
    <3>1. ASSUME NEW s \in Blanked PROVE cachedIn[s] # current_pointer
      <4>1. current_pointer \in Slot
        BY DEF TypeOK
      <4>2. s \in Nat /\ current_pointer \in Nat
        BY <4>1 DEF Slot
      <4>3. s # None /\ current_pointer # None
        BY <4>2
      <4> QED
        BY <2>1, <4>3 DEF SlotsAndOwnersAgree
    <3>2. cachedIn' = cachedIn /\ cachedIn[pos] = None
      BY <2>1 DEF MissUnderway
    <3> QED
      BY <3>1, <3>2 DEF MissUnderway
  <2>2. CASE owner # None
    <3>1. ASSUME NEW s \in Blanked PROVE cachedIn'[s] # current_pointer
      <4>1. current_pointer \in Slot
        BY DEF TypeOK
      <4>2. current_pointer # None
        BY <4>1 DEF Slot
      <4>3. owner \in Sector
        BY <2>2, <4>1 DEF TypeOK
      <4>4. cachedIn[s] = current_pointer => s = owner
        BY <4>2 DEF SlotsAndOwnersAgree
      <4> QED
        BY <2>2, <4>2, <4>3, <4>4 DEF TypeOK
    <3>2. cachedIn'[pos] = None
      BY <2>2 DEF MissUnderway, TransferInFile, TypeOK
    <3> QED
      BY <3>1, <3>2 DEF MissUnderway, TypeOK
  <2> QED
    BY <2>1, <2>2
<1>5. SlotsAndOwnersAgree'
  <2> DEFINE owner == allocedfild[current_pointer]
  <2>0. pc' = "claim" /\ current_pointer \in Slot
    BY DEF TypeOK
  <2>1. CASE owner = None
    <3>1. ~ \E k \in Slot : MidMiss(k)
      BY DEF MidMiss
    <3> QED
      BY <2>1, <3>1 DEF SlotsAndOwnersAgree, TypeOK
  <2>2. CASE owner # None
    <3>1. owner \in Sector /\ cachedIn' = [cachedIn EXCEPT ![owner] = None]
      BY <2>2 DEF TypeOK, Slot
    <3>2. \A s \in Blanked : cachedIn'[s] # None => allocedfild'[cachedIn'[s]] = s
      BY <3>1 DEF SlotsAndOwnersAgree, TypeOK
    <3>3. MidMiss(current_pointer)'
      BY <2>0 DEF MidMiss
    <3>4. ASSUME NEW k \in Slot, allocedfild[k] # None, k # current_pointer
          PROVE  cachedIn'[allocedfild[k]] = k
      <4>1. cachedIn[allocedfild[k]] = k
        BY <3>4 DEF SlotsAndOwnersAgree, MidMiss
      <4>2. cachedIn[owner] = current_pointer
        BY <2>2, <2>0 DEF SlotsAndOwnersAgree, MidMiss
      <4> QED
        BY <3>1, <3>4, <4>1, <4>2 DEF TypeOK
    <3> QED
      BY <3>2, <3>3, <3>4 DEF SlotsAndOwnersAgree
  <2> QED
    BY <2>1, <2>2
<1>6. Coherent'
  BY DEF Coherent, Filling, MissUnderway, TransferInFile, TypeOK, Slot
<1>7. ClearedWordsAreSlots'
  BY DEF ClearedWordsAreSlots, MissUnderway, TransferInFile, TypeOK, Slot
<1> QED
  BY <1>1, <1>2, <1>3, <1>4, <1>5, <1>6, <1>7

(* A claimed slot has one owner, the sector wanted.                        *)
LEMMA ClaimPreserves ==
  ASSUME IInv, Claim
  PROVE  IInv'
<1> USE ConstantsAssumption DEF IInv, Claim, table
<1>1. TypeOK'
  BY DEF TypeOK, Slot, CardSector, Steps
<1>2. StreamedMapIntact'
  BY DEF StreamedMapIntact, TypeOK
<1>3. TransferInFile'
  BY DEF TransferInFile, TypeOK
<1>4. MissUnderway'
  BY DEF MissUnderway, TransferInFile, TypeOK, Slot
<1>5. SlotsAndOwnersAgree'
  BY DEF SlotsAndOwnersAgree, MidMiss, MissUnderway,
       TransferInFile, TypeOK, Slot
<1>6. Coherent'
  BY DEF Coherent, Filling, MissUnderway, TransferInFile, TypeOK, Slot
<1>7. ClearedWordsAreSlots'
  BY DEF ClearedWordsAreSlots, MissUnderway, TransferInFile, TypeOK, Slot
<1> QED
  BY <1>1, <1>2, <1>3, <1>4, <1>5, <1>6, <1>7

(* Publishing before the fill leaves one incoherent word, the reader's own. *)
LEMMA PublishPreserves ==
  ASSUME IInv, Publish
  PROVE  IInv'
<1> USE ConstantsAssumption DEF IInv, Publish, table
<1>1. TypeOK'
  BY DEF TypeOK, Slot, CardSector, Steps
<1>2. StreamedMapIntact'
  BY DEF StreamedMapIntact, TypeOK
<1>3. TransferInFile'
  BY DEF TransferInFile, TypeOK
<1>4. MissUnderway'
  BY DEF MissUnderway, TransferInFile, TypeOK, Slot
<1>5. SlotsAndOwnersAgree'
  <2>1. /\ asd = current_pointer /\ allocedfild[current_pointer] = pos
        /\ pos \in Sector /\ cachedIn[pos] = None
        /\ cachedIn' = [cachedIn EXCEPT ![pos] = asd]
    BY DEF MissUnderway, TransferInFile, TypeOK
  <2>2. \A s \in Blanked : cachedIn'[s] # None => allocedfild'[cachedIn'[s]] = s
    BY <2>1 DEF SlotsAndOwnersAgree, TypeOK
  <2>3. ASSUME NEW k \in Slot, allocedfild[k] # None
        PROVE  cachedIn'[allocedfild[k]] = k
    <3>0. k # None
      BY DEF Slot
    <3>1. CASE k = current_pointer
      BY <2>1, <3>1 DEF TypeOK
    <3>2. CASE k # current_pointer
      <4>1. cachedIn[allocedfild[k]] = k
        BY <2>3, <3>2 DEF SlotsAndOwnersAgree, MidMiss
      <4>2. allocedfild[k] # pos
        BY <2>1, <3>0, <4>1
      <4>3. cachedIn'[allocedfild[k]] = cachedIn[allocedfild[k]]
        <5>1. cachedIn \in [Sector -> Slot \cup {None, Stray}]
          BY DEF TypeOK
        <5>2. allocedfild[k] \in Sector
          BY <2>3 DEF TypeOK
        <5> QED
          BY <2>1, <4>2, <5>1, <5>2
      <4> QED
        BY <4>1, <4>3
    <3> QED
      BY <3>1, <3>2
  <2> QED
    BY <2>2, <2>3 DEF SlotsAndOwnersAgree
<1>6. Coherent'
  BY DEF Coherent, Filling, MissUnderway, TransferInFile, TypeOK, Slot
<1>7. ClearedWordsAreSlots'
  BY DEF ClearedWordsAreSlots, MissUnderway, TransferInFile, TypeOK, Slot
<1> QED
  BY <1>1, <1>2, <1>3, <1>4, <1>5, <1>6, <1>7

(* The fill makes the published word true, because the card map of a       *)
(* streamed sector was never touched.                                      *)
LEMMA FillPreserves ==
  ASSUME IInv, Fill
  PROVE  IInv'
<1> USE ConstantsAssumption DEF IInv, Fill, table
<1>1. TypeOK'
  <2>1. pos \in Sector /\ asd \in Slot
    BY DEF MissUnderway, TransferInFile, TypeOK
  <2> QED
    BY <2>1 DEF TypeOK, Steps
<1>2. StreamedMapIntact'
  BY DEF StreamedMapIntact, TypeOK
<1>3. TransferInFile'
  BY DEF TransferInFile, TypeOK
<1>4. MissUnderway'
  BY DEF MissUnderway, TransferInFile, TypeOK, Slot
<1>5. SlotsAndOwnersAgree'
  BY DEF SlotsAndOwnersAgree, MidMiss, MissUnderway,
       TransferInFile, TypeOK, Slot
<1>6. Coherent'
  <2>1. /\ pos \in Sector \ {0} /\ asd \in Slot
        /\ cachedIn[pos] = asd /\ pc = "fill"
        /\ buffer' = [buffer EXCEPT ![asd] = cardSector[pos]]
    BY DEF MissUnderway, TransferInFile, TypeOK
  <2>2. ASSUME NEW s \in Blanked, cachedIn[s] # None
        PROVE  buffer'[cachedIn[s]] = Layout[s]
    <3>1. CASE s = pos
      BY <2>1, <3>1 DEF StreamedMapIntact, TypeOK
    <3>2. CASE s # pos
      <4>1. cachedIn[s] # asd
        BY <2>1, <2>2, <3>2 DEF SlotsAndOwnersAgree, MissUnderway
      <4>2. buffer[cachedIn[s]] = Layout[s]
        BY <2>2, <3>2 DEF Coherent, Filling
      <4> QED
        BY <2>1, <2>2, <4>1, <4>2 DEF TypeOK
    <3> QED
      BY <3>1, <3>2
  <2> QED
    BY <2>2 DEF Coherent
<1>7. ClearedWordsAreSlots'
  BY DEF ClearedWordsAreSlots, MissUnderway, TransferInFile, TypeOK, Slot
<1> QED
  BY <1>1, <1>2, <1>3, <1>4, <1>5, <1>6, <1>7

(* Moving the ring on leaves the new slot to its owner.                    *)
LEMMA AdvancePreserves ==
  ASSUME IInv, Advance
  PROVE  IInv'
<1> USE ConstantsAssumption DEF IInv, Advance, Following, table
<1>1. TypeOK'
  BY DEF TypeOK, Slot, CardSector, Steps
<1>2. StreamedMapIntact'
  BY DEF StreamedMapIntact, TypeOK
<1>3. TransferInFile'
  BY DEF TransferInFile, TypeOK
<1>4. MissUnderway'
  BY DEF MissUnderway, TransferInFile, TypeOK, Slot
<1>5. SlotsAndOwnersAgree'
  BY DEF SlotsAndOwnersAgree, MidMiss, MissUnderway,
       TransferInFile, TypeOK, Slot
<1>6. Coherent'
  BY DEF Coherent, Filling, MissUnderway, TransferInFile, TypeOK, Slot
<1>7. ClearedWordsAreSlots'
  BY DEF ClearedWordsAreSlots, MissUnderway, TransferInFile, TypeOK, Slot
<1> QED
  BY <1>1, <1>2, <1>3, <1>4, <1>5, <1>6, <1>7

(* A miss ends by handing over the slot it filled.                         *)
LEMMA ReturnPreserves ==
  ASSUME IInv, Return
  PROVE  IInv'
<1> USE ConstantsAssumption DEF IInv, Return, Deliver, table
<1>0. pc # "idle" /\ asd \in Slot
  BY DEF MissUnderway
<1>1. TypeOK'
  BY <1>0, DeliverKeepsTransfer DEF TypeOK, CardSector
<1>2. StreamedMapIntact'
  BY DEF StreamedMapIntact, TypeOK
<1>3. TransferInFile'
  BY <1>0, DeliverKeepsTransfer
<1>4. MissUnderway'
  BY DEF MissUnderway, TransferInFile, TypeOK, Slot
<1>5. SlotsAndOwnersAgree'
  BY DEF SlotsAndOwnersAgree, MidMiss, MissUnderway,
       TransferInFile, TypeOK, Slot
<1>6. Coherent'
  BY DEF Coherent, Filling, MissUnderway, TransferInFile, TypeOK, Slot
<1>7. ClearedWordsAreSlots'
  BY DEF ClearedWordsAreSlots, MissUnderway, TransferInFile, TypeOK, Slot
<1> QED
  BY <1>1, <1>2, <1>3, <1>4, <1>5, <1>6, <1>7

(* Every step inside a read preserves the invariant.                       *)
LEMMA ContinuePreserves ==
  ASSUME IInv, Continue
  PROVE  IInv'
<1> QED
  BY HitPreserves, MissPreserves, EvictPreserves, ClaimPreserves,
     PublishPreserves, FillPreserves, AdvancePreserves, ReturnPreserves
     DEF Continue

(* The invariant is inductive.                                             *)
LEMMA NextPreserves ==
  ASSUME IInv, [Next]_vars
  PROVE  IInv'
<1>1. CASE Next
  BY <1>1, StartPreserves, ContinuePreserves DEF Next
<1>2. CASE UNCHANGED vars
  BY <1>2 DEF IInv, vars, table, TypeOK, ClearedWordsAreSlots, StreamedMapIntact,
     TransferInFile, MissUnderway, SlotsAndOwnersAgree, Coherent, MidMiss,
     Filling
<1> QED
  BY <1>1, <1>2

(* The inductive invariant holds of every image.                           *)
THEOREM StreamInvariant == Spec => []IInv
<1>1. IInv /\ [Next]_vars => IInv'
  BY NextPreserves
<1> QED
  BY <1>1, InitEstablishes, PTL DEF Spec

(* Types: every table word, slot owner, slot and read stays in range.      *)
THEOREM TypeCorrect == Spec => []TypeOK
<1>1. IInv => TypeOK
  BY DEF IInv
<1> QED
  BY <1>1, StreamInvariant, PTL

(* A sector the table says is cached is in its slot, whatever was evicted  *)
(* before, however small the cache is and whatever the words that were     *)
(* never cleared hold.                                                     *)
THEOREM CacheCoherent == Spec => []Coherent
<1>1. IInv => Coherent
  BY DEF IInv
<1> QED
  BY <1>1, StreamInvariant, PTL

(* No slot is shared by two sectors whose words were cleared, and none     *)
(* leaks.                                                                  *)
THEOREM SlotsNeverShared == Spec => []SlotsAndOwnersAgree
<1>1. IInv => SlotsAndOwnersAgree
  BY DEF IInv
<1> QED
  BY <1>1, StreamInvariant, PTL

-----------------------------------------------------------------------------
(* A delivery out of the slot that holds the wanted sector is the answer   *)
(* RomImage requires; for a sector it does not promise any answer will do. *)
LEMMA DeliverAnswers ==
  ASSUME NEW k, Deliver(k), TransferInFile, pc # "idle",
         pos \in Blanked => k # Stray /\ buffer[k] = Layout[pos]
  PROVE  Image!Answer
<1>1. pos # None
  BY DEF TransferInFile
<1>2. pos \in Blanked => data' = Layout[pos]
  BY DEF Deliver, Held
<1> QED
  BY <1>1, <1>2 DEF Image!Answer, Deliver

(* Each step of the stream is a step of RomImage or leaves it alone.       *)
LEMMA StreamStepIsImageStep ==
  ASSUME IInv, [Next]_vars
  PROVE  [Image!Next]_(Image!imageVars)
<1> USE DEF Image!imageVars, Image!Next, IInv
<1>1. ASSUME NEW s \in Streamed, NEW n \in 1 .. MaxTransfer, Start(s, n)
      PROVE  Image!Ask(s, n)
  BY <1>1 DEF Start, Image!Ask, TransferInFile
<1>2. CASE Hit
  <2>1. pc = "lookup" /\ ~ Filling(pos)
    BY <1>2 DEF Hit, Filling
  <2>2. pos \in Blanked =>
          cachedIn[pos] # Stray /\ buffer[cachedIn[pos]] = Layout[pos]
    BY <1>2, <2>1, ConstantsAssumption
       DEF Hit, Coherent, ClearedWordsAreSlots, Slot
  <2> QED
    BY <1>2, <2>1, <2>2, DeliverAnswers DEF Hit
<1>3. CASE Return
  <2>1. pc = "return" /\ ~ Filling(pos)
    BY <1>3 DEF Return, Filling
  <2>2. cachedIn[pos] = asd /\ asd # None /\ asd # Stray
    BY <2>1, ConstantsAssumption DEF MissUnderway, Slot
  <2>3. pos \in Blanked => asd # Stray /\ buffer[asd] = Layout[pos]
    BY <2>1, <2>2 DEF Coherent
  <2> QED
    BY <1>3, <2>1, <2>3, DeliverAnswers DEF Return
<1>4. CASE Miss \/ Evict \/ Claim \/ Publish \/ Fill \/ Advance
  BY <1>4 DEF Miss, Evict, Claim, Publish, Fill, Advance
<1>5. CASE UNCHANGED vars
  BY <1>5 DEF vars
<1> QED
  BY <1>1, <1>2, <1>3, <1>4, <1>5 DEF Next, Continue

(* What the readers see is the uncached image, of every sector whose cache *)
(* word was cleared.                                                       *)
THEOREM StreamImplementsImage == Spec => ImplementsRomImage
<1>1. Init => Image!Init
  BY DEF Init, Image!Init
<1>2. IInv /\ [Next]_vars => [Image!Next]_(Image!imageVars)
  BY StreamStepIsImageStep
<1> QED
  BY <1>1, <1>2, StreamInvariant, PTL DEF Spec, Image!Spec, ImplementsRomImage
=============================================================================
