------------------------------- MODULE Eeprom --------------------------------
(***************************************************************************)
(* The emulated EEPROM save chip (arm9/source/EEprom.cpp).  A game talks   *)
(* to it one bit at a time, by DMA: a request is two opcode bits, the      *)
(* address, for a write the data, and a stop bit; the answer to a read is  *)
(* four bits to ignore and the word.  How many bits the address has is not *)
(* told: the chip infers it from cpuDmaCount, the length of the last DMA   *)
(* that took the slow path (gba.armcore.cpp, doDMAslow), which no other    *)
(* kind of transfer sets and nothing resets.                               *)
(*                                                                         *)
(* The bits of eepromBuffer, packed eight to a byte in the code, are a     *)
(* sequence here, so that eepromByte is not needed; an address is its      *)
(* bits, the highest first, zeros in front.                                *)
(***************************************************************************)
EXTENDS Naturals, Sequences

CONSTANTS
  Narrow,      (* address bits of a 512 byte chip: 6                      *)
  Wide,        (* and of an 8 KB chip: 14                                 *)
  Used,        (* those of them that tell its words apart: 10             *)
  WordBits,    (* bits of a word: 64                                      *)
  OtherCounts, (* lengths of the game's other slow DMA transfers          *)
  None

Bit == {0, 1}
Word == [1 .. WordBits -> Bit]
Blank == [i \in 1 .. WordBits |-> 1]

Addresses == [1 .. Wide -> Bit]
BlocksOf(w) ==
  {a \in Addresses :
     \A i \in 1 .. Wide - (IF w = Narrow THEN Narrow ELSE Used) : a[i] = 0}
Block == BlocksOf(Wide)
Request ==
  [op : {"read"}, block : Block] \cup [op : {"write"}, block : Block, word : Word]

(* The lengths of a narrow chip's requests are not those of a wide one's.  *)
ASSUME EepromAssumption ==
  /\ {Narrow, Used, Wide} \subseteq Nat \ {0}
  /\ Narrow < Wide /\ Narrow <= Used /\ Used <= Wide
  /\ WordBits \in Nat \ {0, 1} /\ Narrow + WordBits # Wide
  /\ OtherCounts \subseteq Nat \ {0}
  /\ None \notin Request

VARIABLES
  eepromMode, eepromBits, eepromBuffer, eepromAddress, eepromSize,
  eepromData,    (* [block -> bits]                                       *)
  cpuDmaCount,
  width,         (* the game's: the address bits its chip has             *)
  request,       (* the game's: what it is asking for, or None            *)
  stream,        (* the game's: the bits of the request still to send     *)
  received,      (* the game's: the bits of the answer so far             *)
  answer         (* the game's: the last word it was given                *)

chipVars == <<eepromMode, eepromBits, eepromBuffer, eepromAddress,
              eepromSize, eepromData>>
eepromVars ==
  <<chipVars, cpuDmaCount, width, request, stream, received, answer>>

(* The last w bits of an address, and the address whose last bits they are. *)
ToBits(a, w) == [i \in 1 .. w |-> a[Wide - w + i]]
FromBits(bits) ==
  [i \in 1 .. Wide |-> IF i <= Wide - Len(bits) THEN 0
                      ELSE bits[i - (Wide - Len(bits))]]

Modes == {"IDLE", "READADDRESS", "READDATA", "READDATA2", "WRITEDATA"}

EepromTypeOK ==
  /\ eepromMode \in Modes
  /\ eepromBits \in 0 .. 2 + Wide + WordBits
  /\ Len(eepromBuffer) <= 2 + Wide + WordBits
  /\ eepromAddress \in Addresses
  /\ eepromSize \in {Narrow, Wide}
  /\ eepromData \in [Block -> Word]
  /\ cpuDmaCount \in Nat
  /\ Len(stream) <= 3 + Wide + WordBits
  /\ Len(received) <= 4 + WordBits

(* eepromInit and eepromReset: eepromSize is 512 until a wide request.     *)
EepromInit ==
  /\ eepromMode = "IDLE" /\ eepromBits = 0 /\ eepromBuffer = <<>>
  /\ eepromAddress = [i \in 1 .. Wide |-> 0] /\ eepromSize = Narrow
  /\ eepromData = [b \in Block |-> Blank]
  /\ cpuDmaCount = 0
  /\ width \in {Narrow, Wide}
  /\ request = None /\ stream = <<>> /\ received = <<>> /\ answer = None

-----------------------------------------------------------------------------
(* eepromWrite.                                                            *)
WideCounts == {3 + Wide, 3 + Wide + WordBits}       (* 0x11 and 0x51       *)

StartRequest(bit) ==
  /\ eepromMode = "IDLE"
  /\ eepromMode' = "READADDRESS"
  /\ eepromBits' = 1
  /\ eepromBuffer' = <<bit>>
  /\ UNCHANGED <<eepromAddress, eepromSize, eepromData>>

(* A mutant: a wide request does not make the chip a large one.            *)
TakeAddressOnly(bit) ==
  LET w == IF cpuDmaCount \in WideCounts THEN Wide ELSE Narrow
      bits == Append(eepromBuffer, bit)
  IN /\ eepromMode = "READADDRESS"
     /\ IF eepromBits + 1 # 3 + w
        THEN /\ eepromBits' = eepromBits + 1
             /\ eepromBuffer' = bits
             /\ UNCHANGED <<eepromMode, eepromAddress>>
        ELSE /\ eepromAddress' = FromBits(SubSeq(bits, 3, 2 + w))
             /\ eepromMode' = IF bits[2] = 0 THEN "WRITEDATA" ELSE "READDATA"
             /\ eepromBits' = IF bits[2] = 0 THEN 1 ELSE 0
             /\ eepromBuffer' = <<bit>>
     /\ UNCHANGED <<eepromSize, eepromData>>

(* The bit after the address is the stop bit of a read, the first data bit *)
(* of a write.                                                             *)
TakeAddress(bit) ==
  LET w == IF cpuDmaCount \in WideCounts THEN Wide ELSE Narrow
      bits == Append(eepromBuffer, bit)
  IN /\ eepromMode = "READADDRESS"
     /\ IF eepromBits + 1 # 3 + w
        THEN /\ eepromBits' = eepromBits + 1
             /\ eepromBuffer' = bits
             /\ UNCHANGED <<eepromMode, eepromAddress, eepromSize>>
        ELSE /\ eepromAddress' = FromBits(SubSeq(bits, 3, 2 + w))
             /\ eepromSize' = IF w = Wide THEN Wide ELSE eepromSize
             /\ IF bits[2] = 0
                THEN /\ eepromMode' = "WRITEDATA"
                     /\ eepromBits' = 1
                     /\ eepromBuffer' = <<bit>>
                ELSE /\ eepromMode' = "READDATA"
                     /\ eepromBits' = 0
                     /\ UNCHANGED eepromBuffer
     /\ UNCHANGED eepromData

(* A bit sent while an answer is due only brings the chip back to idle.    *)
DropAnswer ==
  /\ eepromMode \in {"READDATA", "READDATA2"}
  /\ eepromMode' = "IDLE"
  /\ UNCHANGED <<eepromBits, eepromBuffer, eepromAddress, eepromSize, eepromData>>

TakeData(bit) ==
  LET n == eepromBits + 1
      bits == Append(eepromBuffer, bit)
  IN /\ eepromMode = "WRITEDATA"
     /\ eepromBuffer' = bits
     /\ eepromData' = IF n = WordBits
                      THEN [eepromData EXCEPT ![eepromAddress] = bits]
                      ELSE eepromData
     /\ IF n = WordBits + 1
        THEN eepromMode' = "IDLE" /\ eepromBits' = 0
        ELSE eepromBits' = n /\ UNCHANGED eepromMode
     /\ UNCHANGED <<eepromAddress, eepromSize>>

eepromWrite(bit) ==
  IF cpuDmaCount = 0
  THEN UNCHANGED chipVars
  ELSE StartRequest(bit) \/ TakeAddress(bit) \/ DropAnswer \/ TakeData(bit)

(* eepromRead: what it answers, and what it changes.                       *)
Answered ==
  CASE eepromMode = "READDATA" -> 0
    [] eepromMode = "READDATA2" -> eepromData[eepromAddress][eepromBits + 1]
    [] OTHER -> 1

eepromRead ==
  /\ CASE eepromMode = "READDATA" ->
            IF eepromBits + 1 = 4
            THEN eepromMode' = "READDATA2" /\ eepromBits' = 0
            ELSE eepromBits' = eepromBits + 1 /\ UNCHANGED eepromMode
       [] eepromMode = "READDATA2" ->
            /\ eepromBits' = eepromBits + 1
            /\ IF eepromBits + 1 = WordBits THEN eepromMode' = "IDLE"
                                            ELSE UNCHANGED eepromMode
       [] OTHER -> UNCHANGED <<eepromMode, eepromBits>>
  /\ UNCHANGED <<eepromBuffer, eepromAddress, eepromSize, eepromData>>

-----------------------------------------------------------------------------
(* The game: whole requests, each by one DMA, and whole answers by         *)
(* another; other slow transfers in between.                               *)
Requests == {r \in Request : r.block \in BlocksOf(width)}

BitsOf(r) ==
  IF r.op = "read" THEN <<1, 1>> \o ToBits(r.block, width) \o <<0>>
  ELSE <<1, 0>> \o ToBits(r.block, width) \o r.word \o <<0>>

(* A mutant: the length of the first transfer is kept.                     *)
doDMAslowOnce(c) == cpuDmaCount' = IF cpuDmaCount = 0 THEN c ELSE cpuDmaCount

doDMAslow(c) == cpuDmaCount' = c

Ask(r) ==
  /\ request = None
  /\ request' = r
  /\ stream' = BitsOf(r)
  /\ received' = <<>>
  /\ doDMAslow(Len(BitsOf(r)))
  /\ UNCHANGED <<chipVars, width, answer>>

Send ==
  /\ stream # <<>>
  /\ eepromWrite(Head(stream))
  /\ stream' = Tail(stream)
  /\ request' = IF Len(stream) = 1 /\ request.op = "write" THEN None ELSE request
  /\ UNCHANGED <<cpuDmaCount, width, received, answer>>

Receive ==
  LET bits == Append(received, Answered)
  IN /\ request # None /\ request.op = "read" /\ stream = <<>>
     /\ IF received = <<>> THEN doDMAslow(4 + WordBits) ELSE UNCHANGED cpuDmaCount
     /\ eepromRead
     /\ IF Len(bits) = 4 + WordBits
        THEN /\ answer' = SubSeq(bits, 5, 4 + WordBits)
             /\ request' = None
             /\ received' = <<>>
        ELSE received' = bits /\ UNCHANGED <<answer, request>>
     /\ UNCHANGED <<width, stream>>

OtherDma(c) ==
  /\ stream = <<>> /\ received = <<>>
  /\ doDMAslow(c)
  /\ UNCHANGED <<chipVars, width, request, stream, received, answer>>

EepromNext ==
  \/ \E r \in Requests : Ask(r)
  \/ Send
  \/ Receive
  \/ \E c \in OtherCounts : OtherDma(c)

EepromSpec == EepromInit /\ [][EepromNext]_eepromVars

-----------------------------------------------------------------------------
(* Bit by bit, with nothing but DMA lengths to tell the chips apart, the   *)
(* game still gets a store of words: no write lands in another block or    *)
(* comes shifted, and every read is answered with the word last written.   *)
Store ==
  INSTANCE EepromStore WITH
    store <- eepromData, Blank <- Blank,
    request <- IF request # None /\ request.op = "write" /\ Len(stream) = 1
               THEN None ELSE request
ImplementsStore == Store!Spec

(* Whatever was stored lies in the first eepromSize bytes, the part of     *)
(* eepromData that CPUWriteBatteryFile saves.                              *)
SavedPartCoversWrites ==
  \A b \in Block :
    eepromData[b] # Blank => b \in BlocksOf(eepromSize)
=============================================================================
