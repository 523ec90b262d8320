------------------------------ MODULE ArmWords -------------------------------
(* Words of the game's processor, scaled down: a word is WordBits bits wide *)
(* and, as on the machine, four bytes long, so that a byte, a half word and *)
(* a word still differ, addresses are aligned to four, and shifts, carries  *)
(* and the wrap-around at the top of the address space still happen.        *)
EXTENDS Integers

CONSTANTS
  WordBits,    \* bits of a word: 32 on the machine
  Memory       \* what a word read at each address returns (CPUReadMemory)

Word == 0 .. 2 ^ WordBits - 1

ASSUME WordsAssumption ==
  /\ WordBits \in Nat /\ WordBits > 0 /\ WordBits % 4 = 0
  /\ Memory \in [Word -> Word]

Wrap(n) == n % 2 ^ WordBits
Aligned(a) == a - (a % 4)
TopBit(v) == v \div 2 ^ (WordBits - 1)

BitsOf(size) == CASE size = "byte" -> WordBits \div 4
                  [] size = "half" -> WordBits \div 2
                  [] size = "word" -> WordBits
Low(size, v) == v % 2 ^ BitsOf(size)
Signed(size, v) ==
  IF Low(size, v) >= 2 ^ (BitsOf(size) - 1)
    THEN Wrap(Low(size, v) - 2 ^ BitsOf(size)) ELSE Low(size, v)
=============================================================================
