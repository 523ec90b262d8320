------------------------------ MODULE FileMap -------------------------------
(***************************************************************************)
(* generatefilemap (arm9/source/fatmore.c): when an image is opened, its   *)
(* FAT chain is walked once and every sector of the file gets an entry in  *)
(* sectortabel, the card sector it lives in and a blank cache word, so     *)
(* that the stream (RomStream) never walks the chain again.                *)
(*                                                                         *)
(* The table is malloc'ed for size/sectorsize + 1 entries; what malloc     *)
(* returns is not zero, so a cache word nobody wrote is Junk.  A write past *)
(* the allocation is recorded and otherwise lost.                          *)
(***************************************************************************)
EXTENDS Integers, Sequences

CONSTANTS
  sectorsize,         (* bytes of a sector                                *)
  sectorsPerCluster,  (* of the card's file system                        *)
  Cluster,            (* the numbers of the clusters files may use, >= 2  *)
  FileSize,           (* the sizes in bytes of the images considered      *)
  CLUSTER_EOF,        (* end of a chain                                   *)
  dataStart,          (* card sector of cluster 2                         *)
  Uncached, Junk          (* a blank cache word, an uninitialised word        *)

bytesPerCluster == sectorsize * sectorsPerCluster

(* Number of parts of n that are needed to hold x.                         *)
CeilDiv(x, n) == (x + n - 1) \div n

ASSUME MapAssumption ==
  /\ sectorsize \in Nat \ {0}
  /\ sectorsPerCluster \in Nat \ {0}
  /\ Cluster \subseteq Nat \ {0, 1}
  /\ FileSize \subseteq Nat \ {0}
  /\ CLUSTER_EOF \in Nat /\ \A c \in Cluster : c < CLUSTER_EOF
  /\ dataStart \in Nat
  /\ {Uncached, Junk} \cap Nat = {}

(* Every chain that can hold a file of sz bytes: distinct clusters, and no  *)
(* more of them than the file needs.                                       *)
Chains(sz) ==
  {ch \in [1 .. CeilDiv(sz, bytesPerCluster) -> Cluster] :
     \A i, j \in DOMAIN ch : i # j => ch[i] # ch[j]}

VARIABLES
  size,        (* the length of the file                                  *)
  chain,       (* its clusters on the card, in order                      *)
  step,        (* which loop of generatefilemap runs next                 *)
  cluster,     (* the cluster reached in the walk                         *)
  clusCount,   (* clusters left to walk                                   *)
  mapped,      (* sectortabel[2i], of the entries allocated               *)
  cacheWord,    (* sectortabel[2i+1]                                       *)
  mappoffset,  (* the next entry to fill                                  *)
  overrun      (* some write went past the allocation                     *)

mapVars == <<size, chain, step, cluster, clusCount, mapped, cacheWord,
          mappoffset, overrun>>

(* Bug: the table has an entry to spare.                                   *)
EntriesAndSpare == 0 .. size \div sectorsize + 1
Entries == 0 .. size \div sectorsize
FileSectors == 0 .. CeilDiv(size, sectorsize) - 1

clusterToSector(c) == (c - 2) * sectorsPerCluster + dataStart

nextCluster(c) ==
  IF \E i \in 1 .. Len(chain) - 1 : chain[i] = c
    THEN chain[(CHOOSE i \in 1 .. Len(chain) - 1 : chain[i] = c) + 1]
    ELSE CLUSTER_EOF

MapTypeOK ==
  /\ size \in FileSize
  /\ chain \in Chains(size)
  /\ step \in {"clear", "first", "walk", "done"}
  /\ cluster \in Cluster \cup {CLUSTER_EOF}
  /\ clusCount \in 0 .. size \div bytesPerCluster
  /\ mapped \in [Entries -> Nat \cup {Junk}]
  /\ cacheWord \in [Entries -> {Uncached, Junk}]
  /\ mappoffset \in 0 .. (size \div bytesPerCluster + 1) * sectorsPerCluster
  /\ overrun \in BOOLEAN

MapInit ==
  /\ size \in FileSize
  /\ chain \in Chains(size)
  /\ step = "clear"
  /\ cluster = chain[1]
  /\ clusCount = size \div bytesPerCluster
  /\ mapped = [i \in Entries |-> Junk]
  /\ cacheWord = [i \in Entries |-> Junk]
  /\ mappoffset = 0
  /\ overrun = FALSE

-----------------------------------------------------------------------------

(* "setblanc": the loop that zeroes the cache words.                       *)
Cleared == sectorsPerCluster * clusCount + 1
ClearCacheWords ==
  /\ step = "clear"
  /\ cacheWord' = [i \in Entries |-> IF i < Cleared THEN Uncached ELSE cacheWord[i]]
  /\ overrun' = (overrun \/ Cleared - 1 \notin Entries)
  /\ step' = "first"
  /\ UNCHANGED <<size, chain, cluster, clusCount, mapped, mappoffset>>

(* One cluster's worth of consecutive sectors is entered from mappoffset.  *)
EnterCluster(c) ==
  /\ mapped' = [i \in Entries |->
                  IF i - mappoffset \in 0 .. sectorsPerCluster - 1
                    THEN clusterToSector(c) + (i - mappoffset)
                    ELSE mapped[i]]
  /\ mappoffset' = mappoffset + sectorsPerCluster
  /\ overrun' = (overrun \/ mappoffset + sectorsPerCluster - 1 \notin Entries)

MapFirstCluster ==
  /\ step = "first"
  /\ EnterCluster(cluster)
  /\ step' = "walk"
  /\ UNCHANGED <<size, chain, cluster, clusCount, cacheWord>>

(* Bug: the chain is followed twice for one cluster.                       *)
MapSecondNextCluster ==
  /\ step = "walk"
  /\ clusCount > 0
  /\ clusCount' = clusCount - 1
  /\ cluster' = nextCluster(nextCluster(cluster))
  /\ EnterCluster(cluster')
  /\ UNCHANGED <<size, chain, step, cacheWord>>

MapNextCluster ==
  /\ step = "walk"
  /\ clusCount > 0
  /\ clusCount' = clusCount - 1
  /\ cluster' = nextCluster(cluster)
  /\ EnterCluster(cluster')
  /\ UNCHANGED <<size, chain, step, cacheWord>>

Finish ==
  /\ step = "walk"
  /\ clusCount = 0
  /\ step' = "done"
  /\ UNCHANGED <<size, chain, cluster, clusCount, mapped, cacheWord,
                 mappoffset, overrun>>

MapNext == ClearCacheWords \/ MapFirstCluster \/ MapNextCluster \/ Finish

MapSpec == MapInit /\ [][MapNext]_mapVars

-----------------------------------------------------------------------------
(* Where a sector of the file is on the card, by its cluster in the chain.  *)
SectorOnCard(s) ==
  clusterToSector(chain[s \div sectorsPerCluster + 1])
    + (s % sectorsPerCluster)

(* However the file is scattered and whatever its length, the finished map *)
(* sends each of its sectors to the card sector that holds it; the walk    *)
(* looks at most one cluster past the chain's end, and follows no link out *)
(* of the end-of-chain mark.                                               *)
MapsWholeFile ==
  /\ step = "done" => \A s \in FileSectors : mapped[s] = SectorOnCard(s)
  /\ cluster = CLUSTER_EOF => clusCount = 0

(* "setblanc": every file starts with no sector cached.                    *)
EveryFileStartsBlank ==
  step = "done" => \A s \in FileSectors : cacheWord[s] = Uncached

(* The table is written past its end exactly when the file ends before the *)
(* last sector of its last cluster begins, or with that cluster.           *)
OverrunsUnlessLastClusterIsUsed ==
  step = "done" =>
    (overrun <=> (size % bytesPerCluster) \div sectorsize
                   < sectorsPerCluster - 1)
=============================================================================
