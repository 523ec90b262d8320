----------------------------- MODULE RomStream ------------------------------
(***************************************************************************)
(* The sector cache through which a GBA image larger than memory is read   *)
(* from the card (arm9/source/fatmore.c).  Every sector of the file has    *)
(* two words in sectortabel: the card sector it lives in, and the address  *)
(* of the buffer it is cached in, 0 when it is not.  A miss takes the slot *)
(* at current_pointer, zeroes the table word of the slot's previous owner  *)
(* (allocedfild), claims and publishes the slot, reads the card into it    *)
(* and moves current_pointer on.                                           *)
(*                                                                         *)
(* Whoever reads, the data-abort handler of a GBA load, the handler of a   *)
(* BIOS call or doDMA in one of these or in an interrupt handler, runs     *)
(* with interrupts masked: a read is carried through before another        *)
(* begins, and the steps of one transfer are all there is to interleave.   *)
(*                                                                         *)
(* The table is malloc'ed, and generatefilemap clears the cache words of   *)
(* whole clusters and one sector more only (FileMap): the other words keep *)
(* what malloc returned, and a word that is not 0 is taken for an address. *)
(***************************************************************************)
EXTENDS Naturals

CONSTANTS
  Sector,       (* the sectors of the image file, 0 being the first       *)
  Streamed,     (* those that are read through the cache: not resident    *)
  Layout,       (* Layout[s]: the card sector of file sector s            *)
  buffslots,    (* number of slots of greatownfilebuffer                  *)
  MaxTransfer,  (* bound: sectors one DMA transfer may span               *)
  Blanked,      (* the sectors whose cache words generatefilemap clears   *)
  Stray,        (* an address, and what is there, that is none of a slot  *)
  None          (* "no sector", "no slot", "no data"                      *)

Slot == 0 .. buffslots - 1
CardSector == {Layout[s] : s \in Sector} \cup {0}

ASSUME ConstantsAssumption ==
  /\ Sector \subseteq Nat
  /\ 0 \in Sector
  /\ Streamed \subseteq Sector \ {0}  (* the head of the image is resident: *)
                                     (* romSize exceeds the longest DMA     *)
  /\ Layout \in [Sector -> Nat \ {0}]
  /\ buffslots \in Nat \ {0}
  /\ MaxTransfer \in Nat \ {0}
  /\ Blanked \subseteq Sector
  /\ {None, Stray} \cap Nat = {} /\ None # Stray

VARIABLES
  cardSector,      (* sectortabel[2s]: where sector s lives on the card   *)
  cachedIn,        (* sectortabel[2s+1]: the slot s is cached in, None,   *)
                   (* or a word that was never cleared                    *)
  allocedfild,     (* the owner of each slot; None is the value 0, which  *)
                   (* as a table index means sectortabel[0]               *)
  current_pointer, (* the slot the next miss takes                        *)
  buffer,          (* the card sector whose data a slot holds, or None    *)
  pc,              (* where the read is                                   *)
  pos,             (* the sector being read, None when there is no read   *)
  left,            (* sectors left of the transfer                        *)
  asd,             (* the local of that name: the slot claimed            *)
  data             (* the card sector whose data was handed over last     *)

table == <<cardSector, cachedIn, allocedfild>>
vars == <<table, current_pointer, buffer, pc, pos, left, asd, data>>

Steps == {"idle", "lookup", "evict", "claim", "publish", "fill", "advance",
          "return"}

TypeOK ==
  /\ cardSector \in [Sector -> CardSector]
  /\ cachedIn \in [Sector -> Slot \cup {None, Stray}]
  /\ allocedfild \in [Slot -> Streamed \cup {None}]
  /\ current_pointer \in Slot
  /\ buffer \in [Slot -> CardSector \cup {None}]
  /\ pc \in Steps
  /\ pos \in Streamed \cup {None}
  /\ left \in 0 .. MaxTransfer
  /\ asd \in Slot \cup {None}
  /\ data \in CardSector \cup {None, Stray}

(* generatefilemap has laid the table out: every slot is blank, and so is  *)
(* every cache word it cleared.                                            *)
Init ==
  /\ cardSector = Layout
  /\ cachedIn \in {w \in [Sector -> Slot \cup {None, Stray}] :
                     \A s \in Blanked : w[s] = None}
  /\ allocedfild = [k \in Slot |-> None]
  /\ current_pointer = 0
  /\ buffer = [k \in Slot |-> None]
  /\ pc = "idle"
  /\ pos = None
  /\ left = 0
  /\ asd = None
  /\ data = None

-----------------------------------------------------------------------------
(* A load enters with one sector, a DMA transfer with up to MaxTransfer.   *)
Start(s, n) ==
  /\ pc = "idle"
  /\ \A i \in 0 .. n - 1 : s + i \in Streamed
  /\ pos' = s
  /\ left' = n
  /\ pc' = "lookup"
  /\ UNCHANGED <<table, current_pointer, buffer, asd, data>>

(* What a cache word leads to.                                             *)
Held(k) == IF k = Stray THEN Stray ELSE buffer[k]

(* Bug: the next word of a transfer comes from the same sector.            *)
DeliverSameSector(k) ==
  /\ data' = Held(k)
  /\ left' = left - 1
  /\ asd' = None
  /\ IF left > 1
       THEN pc' = "lookup" /\ UNCHANGED pos
       ELSE pos' = None /\ pc' = "idle"

(* The data of slot k is handed over; a transfer goes on with its next     *)
(* sector, a finished one leaves.                                          *)
Deliver(k) ==
  /\ data' = Held(k)
  /\ left' = left - 1
  /\ asd' = None
  /\ IF left > 1
       THEN pos' = pos + 1 /\ pc' = "lookup"
       ELSE pos' = None /\ pc' = "idle"

Hit ==
  /\ pc = "lookup"
  /\ cachedIn[pos] # None
  /\ Deliver(cachedIn[pos])
  /\ UNCHANGED <<table, current_pointer, buffer>>

(* Bug: a miss looks the table up again instead of loading the sector.     *)
MissLooksAgain ==
  /\ pc = "lookup"
  /\ cachedIn[pos] = None
  /\ UNCHANGED vars

Miss ==
  /\ pc = "lookup"
  /\ cachedIn[pos] = None
  /\ pc' = "evict"
  /\ UNCHANGED <<table, current_pointer, buffer, pos, left, asd, data>>

(* Bug: the previous owner keeps pointing at the slot.                     *)
EvictKeepsOwner ==
  /\ pc = "evict"
  /\ pc' = "claim"
  /\ UNCHANGED <<table, current_pointer, buffer, pos, left, asd, data>>

(* sectortabel[allocedfild[current_pointer]] = 0: a slot that never had an *)
(* owner holds the index 0, the card sector of the first sector.           *)
Evict ==
  /\ pc = "evict"
  /\ LET owner == allocedfild[current_pointer] IN
       IF owner = None
         THEN /\ cardSector' = [cardSector EXCEPT ![0] = 0]
              /\ UNCHANGED cachedIn
         ELSE /\ cachedIn' = [cachedIn EXCEPT ![owner] = None]
              /\ UNCHANGED cardSector
  /\ pc' = "claim"
  /\ UNCHANGED <<allocedfild, current_pointer, buffer, pos, left, asd, data>>

(* Bug: the slot's new owner is not written down.                          *)
ClaimUnrecorded ==
  /\ pc = "claim"
  /\ asd' = current_pointer
  /\ pc' = "publish"
  /\ UNCHANGED <<table, current_pointer, buffer, pos, left, data>>

Claim ==
  /\ pc = "claim"
  /\ allocedfild' = [allocedfild EXCEPT ![current_pointer] = pos]
  /\ asd' = current_pointer
  /\ pc' = "publish"
  /\ UNCHANGED <<cardSector, cachedIn, current_pointer, buffer, pos, left,
                 data>>

Publish ==
  /\ pc = "publish"
  /\ cachedIn' = [cachedIn EXCEPT ![pos] = asd]
  /\ pc' = "fill"
  /\ UNCHANGED <<cardSector, allocedfild, current_pointer, buffer, pos, left,
                 asd, data>>

(* readSectors; its result is not looked at, and the card is assumed sound. *)
Fill ==
  /\ pc = "fill"
  /\ buffer' = [buffer EXCEPT ![asd] = cardSector[pos]]
  /\ pc' = "advance"
  /\ UNCHANGED <<table, current_pointer, pos, left, asd, data>>

(* Bug: the ring has one slot too many.                                    *)
FollowingTooFar(k) == IF k = buffslots THEN 0 ELSE k + 1

Following(k) == IF k + 1 = buffslots THEN 0 ELSE k + 1

Advance ==
  /\ pc = "advance"
  /\ current_pointer' = Following(current_pointer)
  /\ pc' = "return"
  /\ UNCHANGED <<table, buffer, pos, left, asd, data>>

Return ==
  /\ pc = "return"
  /\ Deliver(asd)
  /\ UNCHANGED <<table, current_pointer, buffer>>

Continue ==
  Hit \/ Miss \/ Evict \/ Claim \/ Publish \/ Fill \/ Advance \/ Return

Next ==
  \/ \E s \in Streamed, n \in 1 .. MaxTransfer : Start(s, n)
  \/ Continue

(* A read is straight-line code that nothing preempts, so it is carried    *)
(* through; nothing is assumed of when reads begin.                        *)
Fairness == WF_vars(Continue)

Spec == Init /\ [][Next]_vars
FairSpec == Spec /\ Fairness

-----------------------------------------------------------------------------
(* The cache never changes what the image says: whatever hits, misses and  *)
(* evictions a read goes through, the data handed over is that of the      *)
(* sector asked for, in file order, to the end of the transfer.  That is   *)
(* so of the sectors whose cache words were cleared, also when a transfer  *)
(* goes on to others or comes from them.                                   *)
Image == INSTANCE RomImage WITH Promised <- Blanked, wanted <- pos, got <- data
ImplementsRomImage == Image!Spec

(* A sector found in the table is found in a slot that is filled with it.  *)
(* Only the read that is about to fill the slot may see it otherwise.      *)
Filling(s) == pc = "fill" /\ pos = s
Coherent ==
  \A s \in Blanked :
    cachedIn[s] # None /\ ~Filling(s) => buffer[cachedIn[s]] = Layout[s]

(* The table and the slots' owners name each other: no two sectors with    *)
(* cleared words share a slot, and no owned slot is lost to the cache      *)
(* except in mid-miss.                                                     *)
MidMiss(k) == k = current_pointer /\ pc \in {"claim", "publish"}
SlotsAndOwnersAgree ==
  /\ \A s \in Blanked : cachedIn[s] # None => allocedfild[cachedIn[s]] = s
  /\ \A k \in Slot :
       allocedfild[k] # None => cachedIn[allocedfild[k]] = k \/ MidMiss(k)

(* Every transfer an abort or an interrupt handler begins is completed.    *)
TransfersEnd == pos # None ~> pos = None
=============================================================================
