---------------------------- MODULE FlashCommands ----------------------------
(***************************************************************************)
(* What a flash save chip promises a game: its cells change only at the    *)
(* end of a whole command, a fixed sequence of writes that opens with the  *)
(* two unlock cycles, and a command sent from a quiet chip always takes.   *)
(* One liberty is part of the promise: an erase leaves its opening in      *)
(* force until the chip is next read or is sent something else.            *)
(***************************************************************************)
EXTENDS Naturals, Sequences

CONSTANTS
  Address,   (* the addresses of a bank that are written or read          *)
  Byte,      (* the bytes a game writes                                   *)
  SectorOf   (* SectorOf[a]: the erase sector of address a                *)

VARIABLES
  pending,   (* the opening of a command the chip has seen so far         *)
  erased,    (* TRUE between an erase and the chip's next access          *)
  banks,     (* how many banks the chip has                               *)
  bank,      (* the bank addresses mean                                   *)
  memory     (* memory[k][a]: cell a of bank k                            *)

commandVars == <<pending, erased, banks, bank, memory>>

Unlock1 == <<21845, 170>>          (* 0xAA at 0x5555                      *)
Unlock2 == <<10922, 85>>           (* 0x55 at 0x2AAA                      *)
Opcode(b) == <<21845, b>>

Programming == <<Unlock1, Unlock2, Opcode(160)>>
Switching   == <<Unlock1, Unlock2, Opcode(176)>>
Erasing     == <<Unlock1, Unlock2, Opcode(128), Unlock1, Unlock2>>

Opening ==
  {<<Unlock1>>, <<Unlock1, Unlock2>>, Programming,
   <<Unlock1, Unlock2, Opcode(128)>>,
   <<Unlock1, Unlock2, Opcode(128), Unlock1>>, Erasing}
  \cup (IF banks = 2 THEN {Switching} ELSE {})

Init ==
  /\ pending = <<>>
  /\ erased = FALSE
  /\ banks \in {1, 2}
  /\ bank = 0
  /\ memory = [k \in 0 .. 1 |-> [a \in Address |-> 255]]

Quiet == pending' = <<>> /\ erased' = FALSE

Extend(w) ==
  /\ Append(pending, w) \in Opening
  /\ pending' = Append(pending, w)
  /\ erased' = FALSE
  /\ UNCHANGED <<banks, bank, memory>>

Program(a, b) ==
  /\ pending = Programming
  /\ memory' = [memory EXCEPT ![bank][a] = b]
  /\ Quiet
  /\ UNCHANGED <<banks, bank>>

Switch(a, b) ==
  /\ pending = Switching
  /\ bank' = IF a = 0 THEN b % 2 ELSE bank
  /\ Quiet
  /\ UNCHANGED <<banks, memory>>

EraseSector(a) ==
  /\ pending = Erasing
  /\ memory' = [memory EXCEPT ![bank] =
                  [c \in Address |->
                     IF SectorOf[c] = SectorOf[a] THEN 0 ELSE @[c]]]
  /\ erased' = TRUE
  /\ UNCHANGED <<pending, banks, bank>>

EraseChip ==
  /\ pending = Erasing
  /\ memory' = [k \in 0 .. 1 |->
                  IF k < banks THEN [a \in Address |-> 0] ELSE memory[k]]
  /\ erased' = TRUE
  /\ UNCHANGED <<pending, banks, bank>>

(* A write that continues no command and completes none.                   *)
Abandon(w) ==
  /\ Append(pending, w) \notin Opening
  /\ pending \notin {Programming, Switching}
  /\ pending = Erasing => w[2] \notin {48, 16}
  /\ Quiet
  /\ UNCHANGED <<banks, bank, memory>>

Write(a, b) ==
  \/ Extend(<<a, b>>)
  \/ Program(a, b)
  \/ Switch(a, b)
  \/ b = 48 /\ EraseSector(a)
  \/ b = 16 /\ EraseChip
  \/ Abandon(<<a, b>>)

(* The first read after an erase ends it.                                  *)
Read == erased /\ Quiet /\ UNCHANGED <<banks, bank, memory>>

Next == (\E a \in Address, b \in Byte : Write(a, b)) \/ Read

Spec == Init /\ [][Next]_commandVars
=============================================================================
