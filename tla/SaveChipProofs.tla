--------------------------- MODULE SaveChipProofs ---------------------------
(***************************************************************************)
(* Proofs about the chips of the cartridge.  The states of the flash chip  *)
(* stand for openings of commands; that what it does to its cells is       *)
(* exactly what whole commands do needs one invariant: the chip only       *)
(* answers the status of an erase while it is still where the erase left   *)
(* it.                                                                     *)
(*   The EEPROM is sent its requests bit by bit.  Its invariant says, for  *)
(* every number of bits sent, what the chip has of them: the chip's        *)
(* progress, the game's and the length the chip infers its size from never *)
(* come apart.                                                             *)
(*   The clock is sent its requests bit by bit too.  Its invariant says,   *)
(* for every number of accesses done, what the chip holds, what the game   *)
(* has heard of its data, and which times the bytes of the data are of.    *)
(***************************************************************************)
EXTENDS FlashChip, Eeprom, Rtc, SequenceTheorems, TLAPS

-----------------------------------------------------------------------------
(* The flash chip: invariants.                                             *)

IInv == FlashTypeOK /\ StatusIsRead

(* A new chip is in the invariant.                                        *)
LEMMA InitEstablishesIInv == FlashInit => IInv
  BY DEF FlashInit, IInv, FlashTypeOK, FlashStates, Bank, StatusIsRead

(* Every write keeps the invariant.                                        *)
LEMMA WriteKeepsIInv ==
  ASSUME IInv, NEW a \in Address, NEW b \in Byte, flashWrite(a, b)
  PROVE  IInv'
PROOF
  <1> USE DEF IInv, FlashTypeOK, FlashStates, Bank, StatusIsRead
  <1>2. CASE Unlock("READ_ARRAY", "CMD_1", IsUnlock1(a, b))
    BY <1>2 DEF Unlock, Goto, KeepCells
  <1>3. CASE Unlock("CMD_1", "CMD_2", IsUnlock2(a, b))
    BY <1>3 DEF Unlock, Goto, KeepCells
  <1>4. CASE Command(a, b)
    BY <1>4 DEF Command, Goto, ResetStates, KeepCells
  <1>5. CASE Unlock("CMD_3", "CMD_4", IsUnlock1(a, b))
    BY <1>5 DEF Unlock, Goto, KeepCells
  <1>6. CASE Unlock("CMD_4", "CMD_5", IsUnlock2(a, b))
    BY <1>6 DEF Unlock, Goto, KeepCells
  <1>7. CASE Erase(a, b)
    BY <1>7 DEF Erase, Goto, ResetStates
  <1>8. CASE Program(a, b)
    BY <1>8 DEF Program, Goto, ResetStates
  <1>9. CASE SetBank(a, b)
    <2>1. b % 2 \in 0 .. 1  BY FlashAssumption
    <2>2. QED  BY <1>9, <2>1 DEF SetBank, Goto, ResetStates
  <1>10. CASE Identified(a, b)
    BY <1>10 DEF Identified, Goto, ResetStates, KeepCells
  <1>11. QED
    BY <1>2, <1>3, <1>4, <1>5, <1>6, <1>7, <1>8, <1>9, <1>10 DEF flashWrite

(* So does a read, and so does the game's idling.                          *)
LEMMA StepKeepsIInv == IInv /\ [FlashNext]_flashVars => IInv'
PROOF
  <1> SUFFICES ASSUME IInv, [FlashNext]_flashVars PROVE IInv'
    OBVIOUS
  <1>1. CASE \E a \in Address, b \in Byte : flashWrite(a, b)
    BY <1>1, WriteKeepsIInv
  <1>2. CASE flashRead
    BY <1>2 DEF flashRead, ResetStates, Goto, KeepCells, IInv, FlashTypeOK,
                FlashStates, Bank, StatusIsRead
  <1>3. CASE UNCHANGED flashVars
    BY <1>3 DEF flashVars, IInv, FlashTypeOK, StatusIsRead
  <1>4. QED  BY <1>1, <1>2, <1>3 DEF FlashNext

(* The chip stays in its states and banks, and an erase status is only     *)
(* answered by a chip that waits for another erase byte.                   *)
THEOREM FlashInvariant == FlashSpec => [](FlashTypeOK /\ StatusIsRead)
PROOF
  <1>1. FlashSpec => []IInv
    BY InitEstablishesIInv, StepKeepsIInv, PTL DEF FlashSpec
  <1>2. QED  BY <1>1, PTL DEF IInv

-----------------------------------------------------------------------------
(* Sequences of writes.                                                    *)

(* An appended sequence is known by its length and its elements.           *)
LEMMA AppendIs ==
  ASSUME NEW S, NEW s \in Seq(S), NEW w \in S, NEW t \in Seq(S),
         Len(t) = Len(s) + 1, t[Len(s) + 1] = w,
         \A i \in 1 .. Len(s) : t[i] = s[i]
  PROVE  Append(s, w) = t
PROOF
  <1>1. Append(s, w) \in Seq(S) /\ Len(Append(s, w)) = Len(t)
    BY AppendProperties
  <1>2. \A i \in 1 .. Len(Append(s, w)) : Append(s, w)[i] = t[i]
    BY AppendProperties
  <1>3. QED  BY <1>1, <1>2, SeqEqual, Zenon

(* A write appended to an opening, for every length an opening has.        *)
LEMMA AppendTo0 ==
  ASSUME NEW w
  PROVE  Append(<<>>, w) = <<w>>
PROOF
  <1> DEFINE S == {w}
  <1>1. <<>> \in Seq(S) /\ <<w>> \in Seq(S) /\ w \in S  OBVIOUS
  <1>2. Len(<<>>) = 0 /\ Len(<<w>>) = Len(<<>>) + 1  OBVIOUS
  <1>3. <<w>>[Len(<<>>) + 1] = w  BY <1>2
  <1>4. \A i \in 1 .. Len(<<>>) : <<w>>[i] = <<>>[i]  BY <1>2
  <1> HIDE DEF S
  <1>5. QED  BY <1>1, <1>2, <1>3, <1>4, AppendIs, Zenon

LEMMA AppendTo1 ==
  ASSUME NEW u, NEW w
  PROVE  Append(<<u>>, w) = <<u, w>>
PROOF
  <1> DEFINE S == {u, w}
  <1>1. <<u>> \in Seq(S) /\ <<u, w>> \in Seq(S) /\ w \in S  OBVIOUS
  <1>2. Len(<<u>>) = 1 /\ Len(<<u, w>>) = Len(<<u>>) + 1  OBVIOUS
  <1>3. <<u, w>>[Len(<<u>>) + 1] = w  BY <1>2
  <1>4. \A i \in 1 .. Len(<<u>>) : <<u, w>>[i] = <<u>>[i]  BY <1>2
  <1> HIDE DEF S
  <1>5. QED  BY <1>1, <1>2, <1>3, <1>4, AppendIs, Zenon

LEMMA AppendTo2 ==
  ASSUME NEW u, NEW v, NEW w
  PROVE  Append(<<u, v>>, w) = <<u, v, w>>
PROOF
  <1> DEFINE S == {u, v, w}
  <1>1. <<u, v>> \in Seq(S) /\ <<u, v, w>> \in Seq(S) /\ w \in S  OBVIOUS
  <1>2. Len(<<u, v>>) = 2 /\ Len(<<u, v, w>>) = Len(<<u, v>>) + 1  OBVIOUS
  <1>3. <<u, v, w>>[Len(<<u, v>>) + 1] = w  BY <1>2
  <1>4. \A i \in 1 .. Len(<<u, v>>) : <<u, v, w>>[i] = <<u, v>>[i]  BY <1>2
  <1> HIDE DEF S
  <1>5. QED  BY <1>1, <1>2, <1>3, <1>4, AppendIs, Zenon

LEMMA AppendTo3 ==
  ASSUME NEW u, NEW v, NEW x, NEW w
  PROVE  Append(<<u, v, x>>, w) = <<u, v, x, w>>
PROOF
  <1> DEFINE S == {u, v, x, w}
  <1>1. <<u, v, x>> \in Seq(S) /\ <<u, v, x, w>> \in Seq(S) /\ w \in S  OBVIOUS
  <1>2. Len(<<u, v, x>>) = 3 /\ Len(<<u, v, x, w>>) = Len(<<u, v, x>>) + 1  OBVIOUS
  <1>3. <<u, v, x, w>>[Len(<<u, v, x>>) + 1] = w  BY <1>2
  <1>4. \A i \in 1 .. Len(<<u, v, x>>) : <<u, v, x, w>>[i] = <<u, v, x>>[i]  BY <1>2
  <1> HIDE DEF S
  <1>5. QED  BY <1>1, <1>2, <1>3, <1>4, AppendIs, Zenon

LEMMA AppendTo4 ==
  ASSUME NEW u, NEW v, NEW x, NEW y, NEW w
  PROVE  Append(<<u, v, x, y>>, w) = <<u, v, x, y, w>>
PROOF
  <1> DEFINE S == {u, v, x, y, w}
  <1>1. <<u, v, x, y>> \in Seq(S) /\ <<u, v, x, y, w>> \in Seq(S) /\ w \in S  OBVIOUS
  <1>2. Len(<<u, v, x, y>>) = 4 /\ Len(<<u, v, x, y, w>>) = Len(<<u, v, x, y>>) + 1
    OBVIOUS
  <1>3. <<u, v, x, y, w>>[Len(<<u, v, x, y>>) + 1] = w  BY <1>2
  <1>4. \A i \in 1 .. Len(<<u, v, x, y>>) : <<u, v, x, y, w>>[i] = <<u, v, x, y>>[i]
    BY <1>2
  <1> HIDE DEF S
  <1>5. QED  BY <1>1, <1>2, <1>3, <1>4, AppendIs, Zenon

LEMMA AppendTo5 ==
  ASSUME NEW u, NEW v, NEW x, NEW y, NEW z, NEW w
  PROVE  Append(<<u, v, x, y, z>>, w) = <<u, v, x, y, z, w>>
PROOF
  <1> DEFINE S == {u, v, x, y, z, w}
  <1>1. <<u, v, x, y, z>> \in Seq(S) /\ <<u, v, x, y, z, w>> \in Seq(S) /\ w \in S
    OBVIOUS
  <1>2. /\ Len(<<u, v, x, y, z>>) = 5
        /\ Len(<<u, v, x, y, z, w>>) = Len(<<u, v, x, y, z>>) + 1
    OBVIOUS
  <1>3. <<u, v, x, y, z, w>>[Len(<<u, v, x, y, z>>) + 1] = w  BY <1>2
  <1>4. \A i \in 1 .. Len(<<u, v, x, y, z>>) :
          <<u, v, x, y, z, w>>[i] = <<u, v, x, y, z>>[i]
    BY <1>2
  <1> HIDE DEF S
  <1>5. QED  BY <1>1, <1>2, <1>3, <1>4, AppendIs, Zenon

(* Every opening, written out.                                             *)
LEMMA OpeningIs ==
  Commands!Opening =
    {<<<<21845, 170>>>>,
     <<<<21845, 170>>, <<10922, 85>>>>,
     <<<<21845, 170>>, <<10922, 85>>, <<21845, 160>>>>,
     <<<<21845, 170>>, <<10922, 85>>, <<21845, 128>>>>,
     <<<<21845, 170>>, <<10922, 85>>, <<21845, 128>>, <<21845, 170>>>>,
     <<<<21845, 170>>, <<10922, 85>>, <<21845, 128>>, <<21845, 170>>,
       <<10922, 85>>>>}
    \cup (IF flashSize = 2
            THEN {<<<<21845, 170>>, <<10922, 85>>, <<21845, 176>>>>} ELSE {})
  BY DEF Commands!Opening, Commands!Programming, Commands!Switching,
         Commands!Erasing, Commands!Unlock1, Commands!Unlock2,
         Commands!Opcode

(* The opening each state stands for.                                      *)
LEMMA PendingIs ==
  /\ flashState \in {"READ_ARRAY", "AUTOSELECT"} => Pending = <<>>
  /\ flashState = "CMD_1" => Pending = <<<<21845, 170>>>>
  /\ flashState = "CMD_2" => Pending = <<<<21845, 170>>, <<10922, 85>>>>
  /\ flashState = "CMD_3" =>
       Pending = <<<<21845, 170>>, <<10922, 85>>, <<21845, 128>>>>
  /\ flashState = "CMD_4" =>
       Pending = <<<<21845, 170>>, <<10922, 85>>, <<21845, 128>>,
                   <<21845, 170>>>>
  /\ flashState = "CMD_5" =>
       Pending = <<<<21845, 170>>, <<10922, 85>>, <<21845, 128>>,
                   <<21845, 170>>, <<10922, 85>>>>
  /\ flashState = "PROGRAM" =>
       Pending = <<<<21845, 170>>, <<10922, 85>>, <<21845, 160>>>>
  /\ flashState = "SETBANK" =>
       Pending = <<<<21845, 170>>, <<10922, 85>>, <<21845, 176>>>>
  BY DEF Pending

(* The writes that continue each of the openings the chip can be in.       *)
LEMMA OpeningsGrow ==
  ASSUME NEW w
  PROVE  /\ flashState \in {"READ_ARRAY", "AUTOSELECT", "CMD_3"} =>
              (Append(Pending, w) \in Commands!Opening <=> w = <<21845, 170>>)
         /\ flashState \in {"CMD_1", "CMD_4"} =>
              (Append(Pending, w) \in Commands!Opening <=> w = <<10922, 85>>)
         /\ flashState = "CMD_2" =>
              (Append(Pending, w) \in Commands!Opening <=>
                 \/ w = <<21845, 128>>
                 \/ w = <<21845, 160>>
                 \/ w = <<21845, 176>> /\ flashSize = 2)
         /\ flashState \in {"CMD_5", "PROGRAM", "SETBANK"} =>
              Append(Pending, w) \notin Commands!Opening
PROOF
  <1> DEFINE u1 == <<21845, 170>>
             u2 == <<10922, 85>>
             eo == <<21845, 128>>
             po == <<21845, 160>>
             so == <<21845, 176>>
             whole == {<<u1>>, <<u1, u2>>, <<u1, u2, po>>, <<u1, u2, eo>>,
                       <<u1, u2, eo, u1>>, <<u1, u2, eo, u1, u2>>}
             grows == Append(Pending, w) \in Commands!Opening
  <1>0. /\ flashSize = 2 => Commands!Opening = whole \cup {<<u1, u2, so>>}
        /\ flashSize # 2 => Commands!Opening = whole
    BY OpeningIs
  <1>10. /\ u1 # u2 /\ u1 # eo /\ u1 # po /\ u1 # so
         /\ u2 # eo /\ u2 # po /\ u2 # so
         /\ eo # po /\ eo # so /\ po # so
    OBVIOUS
  <1>1. ASSUME flashState \in {"READ_ARRAY", "AUTOSELECT"}
        PROVE  grows <=> w = u1
    <2>1. Pending = <<>>
      BY <1>1, PendingIs
    <2> HIDE DEF u1, u2, eo, po, so
    <2>2. Append(Pending, w) = <<w>>
      BY <2>1, AppendTo0
    <2>3. CASE flashSize = 2
      <3>1. <<w>> \in whole \cup {<<u1, u2, so>>} <=> w = u1
        BY <1>10, <2>3
      <3>2. QED  BY <1>0, <2>2, <2>3, <3>1
    <2>4. CASE flashSize # 2
      <3>1. <<w>> \in whole <=> w = u1
        BY <1>10, <2>4
      <3>2. QED  BY <1>0, <2>2, <2>4, <3>1
    <2>5. QED  BY <2>3, <2>4
  <1>2. ASSUME flashState = "CMD_1"
        PROVE  grows <=> w = u2
    <2>1. Pending = <<u1>>
      BY <1>2, PendingIs
    <2> HIDE DEF u1, u2, eo, po, so
    <2>2. Append(Pending, w) = <<u1, w>>
      BY <2>1, AppendTo1
    <2>3. CASE flashSize = 2
      <3>1. <<u1, w>> \in whole \cup {<<u1, u2, so>>} <=> w = u2
        BY <1>10, <2>3
      <3>2. QED  BY <1>0, <2>2, <2>3, <3>1
    <2>4. CASE flashSize # 2
      <3>1. <<u1, w>> \in whole <=> w = u2
        BY <1>10, <2>4
      <3>2. QED  BY <1>0, <2>2, <2>4, <3>1
    <2>5. QED  BY <2>3, <2>4
  <1>3. ASSUME flashState = "CMD_2"
        PROVE  grows <=> w = eo \/ w = po \/ (w = so /\ flashSize = 2)
    <2>1. Pending = <<u1, u2>>
      BY <1>3, PendingIs
    <2> HIDE DEF u1, u2, eo, po, so
    <2>2. Append(Pending, w) = <<u1, u2, w>>
      BY <2>1, AppendTo2
    <2>3. CASE flashSize = 2
      <3>1. <<u1, u2, w>> \in whole \cup {<<u1, u2, so>>}
              <=> w = eo \/ w = po \/ (w = so /\ flashSize = 2)
        BY <1>10, <2>3
      <3>2. QED  BY <1>0, <2>2, <2>3, <3>1
    <2>4. CASE flashSize # 2
      <3>1. <<u1, u2, w>> \in whole <=> w = eo \/ w = po \/ (w = so /\ flashSize = 2)
        BY <1>10, <2>4
      <3>2. QED  BY <1>0, <2>2, <2>4, <3>1
    <2>5. QED  BY <2>3, <2>4
  <1>4. ASSUME flashState = "CMD_3"
        PROVE  grows <=> w = u1
    <2>1. Pending = <<u1, u2, eo>>
      BY <1>4, PendingIs
    <2> HIDE DEF u1, u2, eo, po, so
    <2>2. Append(Pending, w) = <<u1, u2, eo, w>>
      BY <2>1, AppendTo3
    <2>3. CASE flashSize = 2
      <3>1. <<u1, u2, eo, w>> \in whole \cup {<<u1, u2, so>>} <=> w = u1
        BY <1>10, <2>3
      <3>2. QED  BY <1>0, <2>2, <2>3, <3>1
    <2>4. CASE flashSize # 2
      <3>1. <<u1, u2, eo, w>> \in whole <=> w = u1
        BY <1>10, <2>4
      <3>2. QED  BY <1>0, <2>2, <2>4, <3>1
    <2>5. QED  BY <2>3, <2>4
  <1>5. ASSUME flashState = "CMD_4"
        PROVE  grows <=> w = u2
    <2>1. Pending = <<u1, u2, eo, u1>>
      BY <1>5, PendingIs
    <2> HIDE DEF u1, u2, eo, po, so
    <2>2. Append(Pending, w) = <<u1, u2, eo, u1, w>>
      BY <2>1, AppendTo4
    <2>3. CASE flashSize = 2
      <3>1. <<u1, u2, eo, u1, w>> \in whole \cup {<<u1, u2, so>>} <=> w = u2
        BY <1>10, <2>3
      <3>2. QED  BY <1>0, <2>2, <2>3, <3>1
    <2>4. CASE flashSize # 2
      <3>1. <<u1, u2, eo, u1, w>> \in whole <=> w = u2
        BY <1>10, <2>4
      <3>2. QED  BY <1>0, <2>2, <2>4, <3>1
    <2>5. QED  BY <2>3, <2>4
  <1>6. ASSUME flashState = "CMD_5"
        PROVE  grows <=> FALSE
    <2>1. Pending = <<u1, u2, eo, u1, u2>>
      BY <1>6, PendingIs
    <2> HIDE DEF u1, u2, eo, po, so
    <2>2. Append(Pending, w) = <<u1, u2, eo, u1, u2, w>>
      BY <2>1, AppendTo5
    <2>3. CASE flashSize = 2
      <3>1. <<u1, u2, eo, u1, u2, w>> \in whole \cup {<<u1, u2, so>>} <=> FALSE
        BY <1>10, <2>3
      <3>2. QED  BY <1>0, <2>2, <2>3, <3>1
    <2>4. CASE flashSize # 2
      <3>1. <<u1, u2, eo, u1, u2, w>> \in whole <=> FALSE
        BY <1>10, <2>4
      <3>2. QED  BY <1>0, <2>2, <2>4, <3>1
    <2>5. QED  BY <2>3, <2>4
  <1>7. ASSUME flashState = "PROGRAM"
        PROVE  grows <=> FALSE
    <2>1. Pending = <<u1, u2, po>>
      BY <1>7, PendingIs
    <2> HIDE DEF u1, u2, eo, po, so
    <2>2. Append(Pending, w) = <<u1, u2, po, w>>
      BY <2>1, AppendTo3
    <2>3. CASE flashSize = 2
      <3>1. <<u1, u2, po, w>> \in whole \cup {<<u1, u2, so>>} <=> FALSE
        BY <1>10, <2>3
      <3>2. QED  BY <1>0, <2>2, <2>3, <3>1
    <2>4. CASE flashSize # 2
      <3>1. <<u1, u2, po, w>> \in whole <=> FALSE
        BY <1>10, <2>4
      <3>2. QED  BY <1>0, <2>2, <2>4, <3>1
    <2>5. QED  BY <2>3, <2>4
  <1>8. ASSUME flashState = "SETBANK"
        PROVE  grows <=> FALSE
    <2>1. Pending = <<u1, u2, so>>
      BY <1>8, PendingIs
    <2> HIDE DEF u1, u2, eo, po, so
    <2>2. Append(Pending, w) = <<u1, u2, so, w>>
      BY <2>1, AppendTo3
    <2>3. CASE flashSize = 2
      <3>1. <<u1, u2, so, w>> \in whole \cup {<<u1, u2, so>>} <=> FALSE
        BY <1>10, <2>3
      <3>2. QED  BY <1>0, <2>2, <2>3, <3>1
    <2>4. CASE flashSize # 2
      <3>1. <<u1, u2, so, w>> \in whole <=> FALSE
        BY <1>10, <2>4
      <3>2. QED  BY <1>0, <2>2, <2>4, <3>1
    <2>5. QED  BY <2>3, <2>4
  <1> HIDE DEF grows
  <1>9. QED
    BY <1>1, <1>2, <1>3, <1>4, <1>5, <1>6, <1>7, <1>8 DEF grows

(* The three whole openings are the chip's three last states.              *)
LEMMA OpeningsEnd ==
  ASSUME flashState \in FlashStates
  PROVE  /\ Pending = Commands!Programming <=> flashState = "PROGRAM"
         /\ Pending = Commands!Switching <=> flashState = "SETBANK"
         /\ Pending = Commands!Erasing <=> flashState = "CMD_5"
PROOF
  <1>1. /\ Commands!Programming = <<<<21845, 170>>, <<10922, 85>>, <<21845, 160>>>>
        /\ Commands!Switching = <<<<21845, 170>>, <<10922, 85>>, <<21845, 176>>>>
        /\ Commands!Erasing =
             <<<<21845, 170>>, <<10922, 85>>, <<21845, 128>>, <<21845, 170>>,
               <<10922, 85>>>>
    BY DEF Commands!Programming, Commands!Switching, Commands!Erasing,
           Commands!Unlock1, Commands!Unlock2, Commands!Opcode
  <1>2. CASE flashState \in {"READ_ARRAY", "AUTOSELECT"}
    BY <1>1, <1>2, PendingIs
  <1>3. CASE flashState = "CMD_1"
    BY <1>1, <1>3, PendingIs
  <1>4. CASE flashState = "CMD_2"
    BY <1>1, <1>4, PendingIs
  <1>5. CASE flashState = "CMD_3"
    BY <1>1, <1>5, PendingIs
  <1>6. CASE flashState = "CMD_4"
    BY <1>1, <1>6, PendingIs
  <1>7. CASE flashState = "CMD_5"
    BY <1>1, <1>7, PendingIs
  <1>8. CASE flashState = "PROGRAM"
    BY <1>1, <1>8, PendingIs
  <1>9. CASE flashState = "SETBANK"
    BY <1>1, <1>9, PendingIs
  <1>10. QED
    BY <1>2, <1>3, <1>4, <1>5, <1>6, <1>7, <1>8, <1>9 DEF FlashStates
(* The states a write leads to stand for what has been seen, and the write.*)
LEMMA OpeningsFollow ==
  /\ flashState \in {"READ_ARRAY", "AUTOSELECT"} /\ flashState' = "CMD_1" =>
       Pending' = Append(Pending, <<21845, 170>>)
  /\ flashState = "CMD_1" /\ flashState' = "CMD_2" =>
       Pending' = Append(Pending, <<10922, 85>>)
  /\ flashState = "CMD_2" /\ flashState' = "CMD_3" =>
       Pending' = Append(Pending, <<21845, 128>>)
  /\ flashState = "CMD_2" /\ flashState' = "PROGRAM" =>
       Pending' = Append(Pending, <<21845, 160>>)
  /\ flashState = "CMD_2" /\ flashState' = "SETBANK" =>
       Pending' = Append(Pending, <<21845, 176>>)
  /\ flashState = "CMD_3" /\ flashState' = "CMD_4" =>
       Pending' = Append(Pending, <<21845, 170>>)
  /\ flashState = "CMD_4" /\ flashState' = "CMD_5" =>
       Pending' = Append(Pending, <<10922, 85>>)
PROOF
  <1> DEFINE u1 == <<21845, 170>>
             u2 == <<10922, 85>>
             eo == <<21845, 128>>
             po == <<21845, 160>>
             so == <<21845, 176>>
  <1>1. ASSUME flashState \in {"READ_ARRAY", "AUTOSELECT"}, flashState' = "CMD_1"
        PROVE  Pending' = Append(Pending, u1)
    <2>1. Pending = <<>> /\ Pending' = <<u1>>
      BY <1>1 DEF Pending
    <2> HIDE DEF u1, u2, eo, po, so
    <2>2. QED  BY <2>1, AppendTo0
  <1>2. ASSUME flashState = "CMD_1", flashState' = "CMD_2"
        PROVE  Pending' = Append(Pending, u2)
    <2>1. Pending = <<u1>> /\ Pending' = <<u1, u2>>
      BY <1>2 DEF Pending
    <2> HIDE DEF u1, u2, eo, po, so
    <2>2. QED  BY <2>1, AppendTo1
  <1>3. ASSUME flashState = "CMD_2", flashState' = "CMD_3"
        PROVE  Pending' = Append(Pending, eo)
    <2>1. Pending = <<u1, u2>> /\ Pending' = <<u1, u2, eo>>
      BY <1>3 DEF Pending
    <2> HIDE DEF u1, u2, eo, po, so
    <2>2. QED  BY <2>1, AppendTo2
  <1>4. ASSUME flashState = "CMD_2", flashState' = "PROGRAM"
        PROVE  Pending' = Append(Pending, po)
    <2>1. Pending = <<u1, u2>> /\ Pending' = <<u1, u2, po>>
      BY <1>4 DEF Pending
    <2> HIDE DEF u1, u2, eo, po, so
    <2>2. QED  BY <2>1, AppendTo2
  <1>5. ASSUME flashState = "CMD_2", flashState' = "SETBANK"
        PROVE  Pending' = Append(Pending, so)
    <2>1. Pending = <<u1, u2>> /\ Pending' = <<u1, u2, so>>
      BY <1>5 DEF Pending
    <2> HIDE DEF u1, u2, eo, po, so
    <2>2. QED  BY <2>1, AppendTo2
  <1>6. ASSUME flashState = "CMD_3", flashState' = "CMD_4"
        PROVE  Pending' = Append(Pending, u1)
    <2>1. Pending = <<u1, u2, eo>> /\ Pending' = <<u1, u2, eo, u1>>
      BY <1>6 DEF Pending
    <2> HIDE DEF u1, u2, eo, po, so
    <2>2. QED  BY <2>1, AppendTo3
  <1>7. ASSUME flashState = "CMD_4", flashState' = "CMD_5"
        PROVE  Pending' = Append(Pending, u2)
    <2>1. Pending = <<u1, u2, eo, u1>> /\ Pending' = <<u1, u2, eo, u1, u2>>
      BY <1>7 DEF Pending
    <2> HIDE DEF u1, u2, eo, po, so
    <2>2. QED  BY <2>1, AppendTo4
  <1>8. QED  BY <1>1, <1>2, <1>3, <1>4, <1>5, <1>6, <1>7

(* A write that is neither a step of an opening nor the end of a command.  *)
LEMMA Abandons ==
  ASSUME IInv, NEW a \in Address, NEW b \in Byte, KeepCells,
         Append(Pending, <<a, b>>) \notin Commands!Opening,
         flashState \notin {"PROGRAM", "SETBANK"},
         flashState = "CMD_5" => b \notin {48, 16},
         Pending' = <<>>, flashReadState' # "ERASE_COMPLETE"
  PROVE  Commands!Write(a, b)
PROOF
  <1>1. flashState \in FlashStates  BY DEF IInv, FlashTypeOK
  <1>2. <<a, b>>[2] = b  OBVIOUS
  <1>3. Commands!Abandon(<<a, b>>)
    BY <1>1, <1>2, OpeningsEnd DEF Commands!Abandon, Commands!Quiet, KeepCells
  <1>4. QED  BY <1>3 DEF Commands!Write

(* A write that is the next step of an opening.                            *)
LEMMA Extends ==
  ASSUME IInv, NEW a \in Address, NEW b \in Byte, KeepCells,
         Append(Pending, <<a, b>>) \in Commands!Opening,
         Pending' = Append(Pending, <<a, b>>),
         flashReadState' # "ERASE_COMPLETE"
  PROVE  Commands!Write(a, b)
PROOF
  <1>1. Commands!Extend(<<a, b>>)
    BY DEF Commands!Extend, KeepCells
  <1>2. QED  BY <1>1 DEF Commands!Write

(* Every write the chip handles is one the commands allow.                 *)
LEMMA WriteImplements ==
  ASSUME IInv, NEW a \in Address, NEW b \in Byte, flashWrite(a, b)
  PROVE  Commands!Write(a, b)
PROOF
  <1> DEFINE w == <<a, b>>
             grows == Append(Pending, w) \in Commands!Opening
             follows == Pending' = Append(Pending, w)
             unread == flashReadState' # "ERASE_COMPLETE"
             quiet == Pending' = <<>>
  <1>a. /\ w = <<21845, 170>> <=> IsUnlock1(a, b)
        /\ w = <<10922, 85>> <=> IsUnlock2(a, b)
        /\ w = <<21845, 128>> <=> a = 21845 /\ b = 128
        /\ w = <<21845, 160>> <=> a = 21845 /\ b = 160
        /\ w = <<21845, 176>> <=> a = 21845 /\ b = 176
    BY DEF IsUnlock1, IsUnlock2
  <1>b. flashSize \in {1, 2} /\ (flashState # "CMD_5" => flashReadState # "ERASE_COMPLETE")
    BY DEF IInv, FlashTypeOK, StatusIsRead
  <1>c. flashState' \in {"READ_ARRAY", "AUTOSELECT"} => quiet
    BY DEF Pending
  <1>d. KeepCells /\ grows /\ follows /\ unread => Commands!Write(a, b)
    BY Extends
  <1>e. KeepCells /\ ~grows /\ quiet /\ unread
        /\ flashState \notin {"PROGRAM", "SETBANK"}
        /\ (flashState = "CMD_5" => b \notin {48, 16}) => Commands!Write(a, b)
    BY Abandons
  <1> HIDE DEF w
  <1>f. /\ flashState \in {"READ_ARRAY", "AUTOSELECT", "CMD_3"} =>
             (grows <=> IsUnlock1(a, b))
        /\ flashState \in {"CMD_1", "CMD_4"} => (grows <=> IsUnlock2(a, b))
        /\ flashState = "CMD_2" =>
             (grows <=> a = 21845 /\ (\/ b \in {128, 160}
                                      \/ b = 176 /\ flashSize = 2))
        /\ flashState = "CMD_5" => ~grows
    <2>1. /\ flashState \in {"READ_ARRAY", "AUTOSELECT", "CMD_3"} =>
               (grows <=> w = <<21845, 170>>)
          /\ flashState \in {"CMD_1", "CMD_4"} => (grows <=> w = <<10922, 85>>)
          /\ flashState = "CMD_2" =>
               (grows <=> \/ w = <<21845, 128>>
                          \/ w = <<21845, 160>>
                          \/ w = <<21845, 176>> /\ flashSize = 2)
          /\ flashState = "CMD_5" => ~grows
      BY OpeningsGrow
    <2> HIDE DEF grows
    <2>2. QED  BY <1>a, <2>1
  <1>g. /\ flashState \in {"READ_ARRAY", "AUTOSELECT"} /\ flashState' = "CMD_1"
             /\ IsUnlock1(a, b) => follows
        /\ flashState = "CMD_1" /\ flashState' = "CMD_2" /\ IsUnlock2(a, b) =>
             follows
        /\ flashState = "CMD_2" /\ flashState' = "CMD_3" /\ a = 21845
             /\ b = 128 => follows
        /\ flashState = "CMD_2" /\ flashState' = "PROGRAM" /\ a = 21845
             /\ b = 160 => follows
        /\ flashState = "CMD_2" /\ flashState' = "SETBANK" /\ a = 21845
             /\ b = 176 => follows
        /\ flashState = "CMD_3" /\ flashState' = "CMD_4" /\ IsUnlock1(a, b) =>
             follows
        /\ flashState = "CMD_4" /\ flashState' = "CMD_5" /\ IsUnlock2(a, b) =>
             follows
    BY <1>a, OpeningsFollow
  <1> HIDE DEF grows, follows, quiet
  <1>3. CASE Unlock("READ_ARRAY", "CMD_1", IsUnlock1(a, b))
    BY <1>b, <1>c, <1>d, <1>e, <1>f, <1>g, <1>3 DEF Unlock, Goto
  <1>4. CASE Unlock("CMD_1", "CMD_2", IsUnlock2(a, b))
    BY <1>b, <1>c, <1>d, <1>e, <1>f, <1>g, <1>4 DEF Unlock, Goto
  <1>5. CASE Command(a, b)
    BY <1>b, <1>c, <1>d, <1>e, <1>f, <1>g, <1>5
       DEF Command, ResetStates, Goto
  <1>6. CASE Unlock("CMD_3", "CMD_4", IsUnlock1(a, b))
    BY <1>b, <1>c, <1>d, <1>e, <1>f, <1>g, <1>6 DEF Unlock, Goto
  <1>7. CASE Unlock("CMD_4", "CMD_5", IsUnlock2(a, b))
    BY <1>b, <1>c, <1>d, <1>e, <1>f, <1>g, <1>7 DEF Unlock, Goto
  <1>8. CASE Erase(a, b)
    <2>1. Pending = Commands!Erasing /\ flashState \in FlashStates
      BY <1>8, OpeningsEnd DEF Erase, IInv, FlashTypeOK
    <2>2. CASE b \notin {48, 16}
      BY <1>c, <1>e, <1>f, <1>8, <2>2
         DEF Erase, ResetStates, Goto, KeepCells
    <2>3. CASE b \in {48, 16}
      <3>1. Pending' = Pending /\ flashReadState' = "ERASE_COMPLETE"
        BY <1>8, <2>3 DEF Erase, Pending
      <3>2. CASE b = 48
        <4>1. Commands!EraseSector(a)
          BY <1>8, <2>1, <3>1, <3>2 DEF Erase, Commands!EraseSector
        <4>2. QED  BY <3>2, <4>1 DEF Commands!Write
      <3>3. CASE b = 16
        <4>1. Commands!EraseChip
          BY <1>8, <2>1, <3>1, <3>3 DEF Erase, Commands!EraseChip, Bank
        <4>2. QED  BY <3>3, <4>1 DEF Commands!Write
      <3>4. QED  BY <2>3, <3>2, <3>3
    <2>4. QED  BY <2>2, <2>3
  <1>9. CASE Program(a, b)
    <2>1. Commands!Program(a, b)
      BY <1>c, <1>9, OpeningsEnd DEF quiet,
         Program, ResetStates, Goto, Commands!Program, Commands!Quiet, IInv,
             FlashTypeOK
    <2>2. QED  BY <2>1 DEF Commands!Write
  <1>10. CASE SetBank(a, b)
    <2>1. Commands!Switch(a, b)
      BY <1>c, <1>10, OpeningsEnd DEF quiet,
         SetBank, ResetStates, Goto, Commands!Switch, Commands!Quiet, IInv,
             FlashTypeOK
    <2>2. QED  BY <2>1 DEF Commands!Write
  <1>11. CASE Identified(a, b)
    BY <1>b, <1>c, <1>d, <1>e, <1>f, <1>g, <1>11
       DEF Identified, ResetStates, Goto
  <1>12. QED
    BY <1>3, <1>4, <1>5, <1>6, <1>7, <1>8, <1>9, <1>10, <1>11 DEF flashWrite

(* A new chip maps to a new chip.                                          *)
LEMMA InitImplements == FlashInit => Commands!Init
  BY DEF FlashInit, Commands!Init, Pending, Bank

(* Every step of the chip maps to a step of the commands, or to a stutter. *)
LEMMA StepImplements ==
  IInv /\ [FlashNext]_flashVars => [Commands!Next]_(Commands!commandVars)
PROOF
  <1> SUFFICES ASSUME IInv, [FlashNext]_flashVars
               PROVE  [Commands!Next]_(Commands!commandVars)
    OBVIOUS
  <1>1. CASE \E a \in Address, b \in Byte : flashWrite(a, b)
    BY <1>1, WriteImplements DEF Commands!Next
  <1>2. CASE flashRead
    <2>1. Commands!Read
      BY <1>2 DEF flashRead, ResetStates, Goto, KeepCells, Pending,
                  Commands!Read, Commands!Quiet
    <2>2. QED  BY <2>1 DEF Commands!Next
  <1>3. CASE UNCHANGED flashVars
    BY <1>3 DEF flashVars, Commands!commandVars, Pending
  <1>4. QED  BY <1>1, <1>2, <1>3 DEF FlashNext

(* No stray write reaches the cells and no command is lost, whatever       *)
(* addresses and bytes there are.                                          *)
THEOREM FlashImplementsCommands == FlashSpec => ImplementsCommands
PROOF
  <1>1. FlashSpec => []IInv
    BY InitEstablishesIInv, StepKeepsIInv, PTL DEF FlashSpec
  <1>2. QED
    BY <1>1, InitImplements, StepImplements, PTL
       DEF FlashSpec, ImplementsCommands, Commands!Spec

-----------------------------------------------------------------------------
(* The EEPROM: requests bit by bit.                                        *)

(* What is known of the chip when k bits of the request's have been sent:  *)
(* it is idle, it has them all, or it is taking the word.                  *)
TakingAddress(k) ==
  /\ eepromMode = "READADDRESS" /\ eepromBits = k /\ Len(eepromBuffer) = k
  /\ \A i \in 1 .. k : eepromBuffer[i] = BitsOf(request)[i]
TakingWord(j) ==
  /\ request.op = "write" /\ eepromMode = "WRITEDATA"
  /\ eepromBits = j /\ Len(eepromBuffer) = j
  /\ \A i \in 1 .. j : eepromBuffer[i] = request.word[i]
  /\ eepromAddress = request.block
  /\ width = Wide => eepromSize = Wide
Taken(k) ==
  \/ k = 0 /\ eepromMode = "IDLE"
  \/ k \in 1 .. 2 + width /\ TakingAddress(k)
  \/ \E j \in 1 .. WordBits : k = (2 + width) + j /\ TakingWord(j)

Between == eepromMode = "IDLE" /\ stream = <<>> /\ received = <<>>
StillToSend(k) ==
  LET n == Len(BitsOf(request)) IN
  /\ Len(stream) = n - k
  /\ \A i \in 1 .. n - k : stream[i] = BitsOf(request)[k + i]
Sending ==
  /\ received = <<>> /\ cpuDmaCount = Len(BitsOf(request))
  /\ \E k \in 0 .. Len(BitsOf(request)) - 1 : StillToSend(k) /\ Taken(k)
Answering ==
  /\ request.op = "read" /\ eepromAddress = request.block
  /\ \/ /\ Len(received) \in 0 .. 3 /\ eepromMode = "READDATA"
        /\ eepromBits = Len(received)
     \/ /\ eepromMode = "READDATA2" /\ eepromBits \in 0 .. WordBits - 1
        /\ Len(received) = 4 + eepromBits
        /\ \A i \in 1 .. eepromBits :
             received[4 + i] = eepromData[request.block][i]

ExchangeTyped ==
  /\ width \in {Narrow, Wide} /\ eepromSize \in {Narrow, Wide}
  /\ request \in Requests \cup {None}
  /\ stream \in Seq(Bit) /\ received \in Seq(Bit) /\ eepromBuffer \in Seq(Bit)
  /\ eepromData \in [Block -> Word]
EepromInv ==
  /\ ExchangeTyped /\ SavedPartCoversWrites
  /\ request = None => Between
  /\ request # None /\ stream # <<>> => Sending
  /\ request # None /\ stream = <<>> => Answering

-----------------------------------------------------------------------------
(* The sizes a chip has.                                                   *)
LEMMA EepromSizes ==
  /\ Narrow \in Nat \ {0} /\ Wide \in Nat \ {0} /\ Used \in Nat \ {0}
  /\ Narrow < Wide /\ Narrow <= Used /\ Used <= Wide
  /\ WordBits \in Nat \ {0, 1} /\ Narrow + WordBits # Wide
  /\ None \notin Request
BY EepromAssumption

LEMMA BlocksAreAddresses ==
  /\ BlocksOf(Narrow) \subseteq BlocksOf(Wide) /\ BlocksOf(Wide) \subseteq Addresses
BY EepromSizes DEF BlocksOf

LEMMA RequestsTyped ==
  ASSUME NEW r \in Requests
  PROVE  /\ r # None /\ r \in Request /\ r.op \in {"read", "write"}
         /\ r.block \in BlocksOf(width) /\ r.block \in Block /\ r.block \in Addresses
         /\ r.op = "write" => r.word \in Word
<1>1. r \in Request /\ r.block \in BlocksOf(width)
  BY DEF Requests
<1>2. /\ r.op \in {"read", "write"} /\ r.block \in Block
      /\ r.op = "write" => r.word \in Word
  BY <1>1 DEF Request
<1>3. r.block \in Addresses
  BY <1>2, BlocksAreAddresses DEF Block
<1> QED
  BY <1>1, <1>2, <1>3, EepromSizes

(* A joined sequence is its first part, then its second.                   *)
LEMMA JoinedAt ==
  ASSUME NEW s \in Seq(Bit), NEW t \in Seq(Bit)
  PROVE  /\ s \o t \in Seq(Bit) /\ Len(s \o t) = Len(s) + Len(t)
         /\ \A i \in 1 .. Len(s) : (s \o t)[i] = s[i]
         /\ \A i \in 1 .. Len(t) : (s \o t)[Len(s) + i] = t[i]
<1> DEFINE j == s \o t
<1>1. /\ j \in Seq(Bit) /\ Len(j) = Len(s) + Len(t)
      /\ \A i \in 1 .. Len(s) + Len(t) :
           j[i] = IF i <= Len(s) THEN s[i] ELSE t[i - Len(s)]
  BY ConcatProperties
<1>2. Len(s) \in Nat /\ Len(t) \in Nat
  BY LenProperties
<1> HIDE DEF j
<1>3. \A i \in 1 .. Len(s) : j[i] = s[i]
  BY <1>1, <1>2
<1>4. ASSUME NEW i \in 1 .. Len(t) PROVE j[Len(s) + i] = t[i]
  <2>1. /\ Len(s) + i \in 1 .. Len(s) + Len(t)
        /\ ~(Len(s) + i <= Len(s)) /\ (Len(s) + i) - Len(s) = i
    BY <1>2
  <2> QED
    BY <1>1, <2>1
<1> QED
  BY <1>1, <1>3, <1>4 DEF j

(* The bits of a request: two of its kind, the address, the word of a      *)
(* write, and one to stop.                                                 *)
LEMMA BitsOfRequest ==
  ASSUME NEW r \in Requests, width \in {Narrow, Wide}
  PROVE  LET B == BitsOf(r)
             d == IF r.op = "write" THEN WordBits ELSE 0
         IN /\ B \in Seq(Bit) /\ Len(B) = ((2 + width) + d) + 1
            /\ B[2] = 0 <=> r.op = "write"
            /\ \A i \in 1 .. width : B[2 + i] = r.block[(Wide - width) + i]
            /\ r.op = "write" => \A i \in 1 .. WordBits : B[(2 + width) + i] = r.word[i]
<1> DEFINE a == ToBits(r.block, width)
<1>1. width \in Nat /\ width <= Wide /\ Wide \in Nat
  BY EepromSizes
<1>2. /\ r.block \in Addresses /\ r.op \in {"read", "write"}
      /\ r.op = "write" => r.word \in Word
  BY RequestsTyped
<1>3. /\ a \in Seq(Bit) /\ Len(a) = width
      /\ \A i \in 1 .. width : a[i] = r.block[(Wide - width) + i]
  <2>1. \A i \in 1 .. width : r.block[(Wide - width) + i] \in Bit
    BY <1>1, <1>2 DEF Addresses
  <2>2. a \in [1 .. width -> Bit]
    BY <2>1 DEF ToBits
  <2>3. \A i \in 1 .. width : a[i] = r.block[(Wide - width) + i]
    BY DEF ToBits
  <2> HIDE DEF a
  <2> QED
    BY <1>1, <2>2, <2>3
<1> HIDE DEF a
<1> DEFINE z == <<0>>
<1>4. z \in Seq(Bit) /\ Len(z) = 1
  BY DEF Bit
<1> HIDE DEF z
<1>5. CASE r.op = "read"
  <2> DEFINE h == <<1, 1>>
             s == h \o a
             B == s \o z
  <2>1. h \in Seq(Bit) /\ Len(h) = 2 /\ h[2] = 1
    BY DEF Bit
  <2> HIDE DEF h
  <2>2. /\ s \in Seq(Bit) /\ Len(s) = 2 + width
        /\ \A i \in 1 .. 2 : s[i] = h[i]
        /\ \A i \in 1 .. width : s[2 + i] = a[i]
    <3>1. /\ h \o a \in Seq(Bit) /\ Len(h \o a) = Len(h) + Len(a)
          /\ \A i \in 1 .. Len(h) : (h \o a)[i] = h[i]
          /\ \A i \in 1 .. Len(a) : (h \o a)[Len(h) + i] = a[i]
      BY <1>3, <2>1, JoinedAt
    <3> QED
      BY <1>3, <2>1, <3>1
  <2> HIDE DEF s
  <2>3. /\ B \in Seq(Bit) /\ Len(B) = (2 + width) + 1
        /\ \A i \in 1 .. 2 + width : B[i] = s[i]
    <3>1. /\ s \o z \in Seq(Bit) /\ Len(s \o z) = Len(s) + Len(z)
          /\ \A i \in 1 .. Len(s) : (s \o z)[i] = s[i]
          /\ \A i \in 1 .. Len(z) : (s \o z)[Len(s) + i] = z[i]
      BY <1>4, <2>2, JoinedAt
    <3> QED
      BY <1>4, <2>2, <3>1
  <2> HIDE DEF B
  <2>4. B[2] = 1
    BY <1>1, <2>1, <2>2, <2>3
  <2>5. ASSUME NEW i \in 1 .. width PROVE B[2 + i] = r.block[(Wide - width) + i]
    <3>1. 2 + i \in 1 .. 2 + width
      BY <1>1
    <3> QED
      BY <1>3, <2>2, <2>3, <3>1
  <2>6. BitsOf(r) = B
    BY <1>5 DEF BitsOf, B, s, a, h, z
  <2>7. (2 + width) + 1 = ((2 + width) + 0) + 1
    BY <1>1
  <2> QED
    BY <1>5, <2>3, <2>4, <2>5, <2>6, <2>7
<1>6. CASE r.op = "write"
  <2> DEFINE h == <<1, 0>>
             s == h \o a
             t == s \o r.word
             B == t \o z
  <2>1. h \in Seq(Bit) /\ Len(h) = 2 /\ h[2] = 0
    BY DEF Bit
  <2>2. r.word \in Seq(Bit) /\ Len(r.word) = WordBits /\ WordBits \in Nat
    BY <1>2, <1>6, EepromSizes DEF Word
  <2> HIDE DEF h
  <2>3. /\ s \in Seq(Bit) /\ Len(s) = 2 + width
        /\ \A i \in 1 .. 2 : s[i] = h[i]
        /\ \A i \in 1 .. width : s[2 + i] = a[i]
    <3>1. /\ h \o a \in Seq(Bit) /\ Len(h \o a) = Len(h) + Len(a)
          /\ \A i \in 1 .. Len(h) : (h \o a)[i] = h[i]
          /\ \A i \in 1 .. Len(a) : (h \o a)[Len(h) + i] = a[i]
      BY <1>3, <2>1, JoinedAt
    <3> QED
      BY <1>3, <2>1, <3>1
  <2> HIDE DEF s
  <2>4. /\ t \in Seq(Bit) /\ Len(t) = (2 + width) + WordBits
        /\ \A i \in 1 .. 2 + width : t[i] = s[i]
        /\ \A i \in 1 .. WordBits : t[(2 + width) + i] = r.word[i]
    <3>1. /\ s \o r.word \in Seq(Bit) /\ Len(s \o r.word) = Len(s) + Len(r.word)
          /\ \A i \in 1 .. Len(s) : (s \o r.word)[i] = s[i]
          /\ \A i \in 1 .. Len(r.word) : (s \o r.word)[Len(s) + i] = r.word[i]
      BY <2>2, <2>3, JoinedAt
    <3> QED
      BY <2>2, <2>3, <3>1
  <2> HIDE DEF t
  <2>5. /\ B \in Seq(Bit) /\ Len(B) = ((2 + width) + WordBits) + 1
        /\ \A i \in 1 .. (2 + width) + WordBits : B[i] = t[i]
    <3>1. /\ t \o z \in Seq(Bit) /\ Len(t \o z) = Len(t) + Len(z)
          /\ \A i \in 1 .. Len(t) : (t \o z)[i] = t[i]
          /\ \A i \in 1 .. Len(z) : (t \o z)[Len(t) + i] = z[i]
      BY <1>4, <2>4, JoinedAt
    <3> QED
      BY <1>4, <2>4, <3>1
  <2> HIDE DEF B
  <2>6. B[2] = 0
    BY <1>1, <2>1, <2>2, <2>3, <2>4, <2>5
  <2>7. ASSUME NEW i \in 1 .. width PROVE B[2 + i] = r.block[(Wide - width) + i]
    <3>1. 2 + i \in 1 .. 2 + width /\ 2 + i \in 1 .. (2 + width) + WordBits
      BY <1>1, <2>2
    <3> QED
      BY <1>3, <2>3, <2>4, <2>5, <3>1
  <2>8. ASSUME NEW i \in 1 .. WordBits PROVE B[(2 + width) + i] = r.word[i]
    <3>1. (2 + width) + i \in 1 .. (2 + width) + WordBits
      BY <1>1, <2>2
    <3> QED
      BY <2>4, <2>5, <3>1
  <2>9. BitsOf(r) = B
    BY <1>6 DEF BitsOf, B, t, s, a, h, z
  <2> QED
    BY <1>6, <2>5, <2>6, <2>7, <2>8, <2>9
<1> QED
  BY <1>2, <1>5, <1>6

(* From the length of the request the chip infers the size it has.         *)
LEMMA WidthIsInferred ==
  ASSUME ExchangeTyped, request \in Requests, cpuDmaCount = Len(BitsOf(request))
  PROVE  /\ (IF cpuDmaCount \in WideCounts THEN Wide ELSE Narrow) = width
         /\ cpuDmaCount # 0
<1>1. width \in {Narrow, Wide}
  BY DEF ExchangeTyped
<1>2. cpuDmaCount = ((2 + width) + (IF request.op = "write" THEN WordBits ELSE 0)) + 1
  BY <1>1, BitsOfRequest
<1>3. CASE request.op = "write"
  <2>1. cpuDmaCount = ((2 + width) + WordBits) + 1
    BY <1>2, <1>3
  <2> QED
    BY <1>1, <2>1, EepromSizes DEF WideCounts
<1>4. CASE request.op # "write"
  <2>1. cpuDmaCount = ((2 + width) + 0) + 1
    BY <1>2, <1>4
  <2> QED
    BY <1>1, <2>1, EepromSizes DEF WideCounts
<1> QED
  BY <1>3, <1>4

(* The request as the game sees it is done once its word is stored.        *)
Open ==
  IF request # None /\ request.op = "write" /\ Len(stream) = 1
  THEN None ELSE request

LEMMA StoreStutters ==
  ASSUME UNCHANGED <<eepromData, answer>>, Open' = Open
  PROVE  [Store!Next]_Store!storeVars
BY DEF Open, Store!storeVars

(* What is known of a bit that is sent.                                    *)
BitSent(k) ==
  LET B == BitsOf(request)
      bit == B[k + 1]
  IN  /\ StillToSend(k) /\ Taken(k) /\ bit \in Bit
      /\ StartRequest(bit) \/ TakeAddress(bit) \/ DropAnswer \/ TakeData(bit)
      /\ stream' \in Seq(Bit) /\ Len(stream') = Len(B) - (k + 1)
      /\ \A i \in 1 .. Len(B) - (k + 1) : stream'[i] = B[(k + 1) + i]
      /\ request' = IF Len(B) - k = 1 /\ request.op = "write" THEN None ELSE request
      /\ UNCHANGED <<cpuDmaCount, width, received, answer>>

LEMMA SendSends ==
  ASSUME EepromInv, Send
  PROVE  /\ request \in Requests /\ Sending
         /\ \E k \in 0 .. Len(BitsOf(request)) - 1 : BitSent(k)
<1> DEFINE B == BitsOf(request)
<1>1. /\ stream # <<>> /\ eepromWrite(Head(stream)) /\ stream' = Tail(stream)
      /\ request' = IF Len(stream) = 1 /\ request.op = "write" THEN None ELSE request
      /\ UNCHANGED <<cpuDmaCount, width, received, answer>>
  BY DEF Send
<1>2. request # None
  BY <1>1 DEF EepromInv, Between
<1>3. request \in Requests /\ Sending
  BY <1>1, <1>2 DEF EepromInv, ExchangeTyped
<1>4. stream \in Seq(Bit) /\ width \in {Narrow, Wide}
  BY DEF EepromInv, ExchangeTyped
<1>5. B \in Seq(Bit) /\ Len(B) \in Nat
  BY <1>3, <1>4, BitsOfRequest, LenProperties
<1>6. PICK k \in 0 .. Len(B) - 1 : StillToSend(k) /\ Taken(k)
  BY <1>3 DEF Sending
<1>7. Len(stream) = Len(B) - k /\ \A i \in 1 .. Len(B) - k : stream[i] = B[k + i]
  BY <1>6 DEF StillToSend
<1> HIDE DEF B
<1>8. Head(stream) = B[k + 1] /\ Head(stream) \in Bit
  <2>1. stream[1] = B[k + 1]
    BY <1>5, <1>6, <1>7
  <2> QED
    BY <1>1, <1>4, <2>1, HeadTailProperties
<1>9. /\ stream' \in Seq(Bit) /\ Len(stream') = Len(B) - (k + 1)
      /\ \A i \in 1 .. Len(B) - (k + 1) : stream'[i] = B[(k + 1) + i]
  <2>1. /\ stream' \in Seq(Bit) /\ Len(stream') = Len(stream) - 1
        /\ \A i \in 1 .. Len(stream') : stream'[i] = stream[i + 1]
    BY <1>1, <1>4, HeadTailProperties
  <2>2. Len(stream') = Len(B) - (k + 1)
    BY <1>5, <1>6, <1>7, <2>1
  <2>3. ASSUME NEW i \in 1 .. Len(B) - (k + 1) PROVE stream'[i] = B[(k + 1) + i]
    <3>1. i + 1 \in 1 .. Len(B) - k /\ k + (i + 1) = (k + 1) + i
      BY <1>5, <1>6
    <3>2. stream[i + 1] = B[k + (i + 1)]
      BY <1>7, <3>1
    <3> QED
      BY <2>1, <2>2, <3>1, <3>2
  <2> QED
    BY <2>1, <2>2, <2>3
<1>10. cpuDmaCount # 0
  BY <1>3, WidthIsInferred DEF Sending, EepromInv
<1>11. StartRequest(B[k + 1]) \/ TakeAddress(B[k + 1]) \/ DropAnswer \/ TakeData(B[k + 1])
  BY <1>1, <1>8, <1>10 DEF eepromWrite
<1>12. request' = IF Len(B) - k = 1 /\ request.op = "write" THEN None ELSE request
  BY <1>1, <1>7
<1>13. BitSent(k)
  BY <1>1, <1>6, <1>8, <1>9, <1>11, <1>12 DEF BitSent, B
<1> QED
  BY <1>3, <1>13 DEF B

(* Words that are kept are still in the part that is saved.                *)
LEMMA SavedPartKept ==
  ASSUME ExchangeTyped, SavedPartCoversWrites, UNCHANGED eepromData,
         eepromSize' \in {eepromSize, Wide}
  PROVE  SavedPartCoversWrites'
<1>1. BlocksOf(eepromSize) \subseteq BlocksOf(eepromSize')
  BY BlocksAreAddresses DEF ExchangeTyped
<1> QED
  BY <1>1 DEF SavedPartCoversWrites

(* The invariant after a bit that is not the last.                         *)
LEMMA MoreToSend ==
  ASSUME EepromInv, request \in Requests, Sending,
         NEW k \in 0 .. Len(BitsOf(request)) - 1, BitSent(k),
         k + 1 <= Len(BitsOf(request)) - 1, UNCHANGED request, Taken(k + 1)',
         eepromBuffer' \in Seq(Bit), eepromSize' \in {eepromSize, Wide},
         eepromData' \in [Block -> Word], SavedPartCoversWrites'
  PROVE  EepromInv'
<1>1. /\ stream' \in Seq(Bit) /\ Len(stream') = Len(BitsOf(request)) - (k + 1)
      /\ \A i \in 1 .. Len(BitsOf(request)) - (k + 1) :
           stream'[i] = BitsOf(request)[(k + 1) + i]
      /\ UNCHANGED <<cpuDmaCount, width, received>>
  BY DEF BitSent
<1>2. BitsOf(request)' = BitsOf(request)
  BY <1>1 DEF BitsOf
<1>3. Requests' = Requests
  BY <1>1 DEF Requests
<1>4. Len(BitsOf(request)) \in Nat
  BY BitsOfRequest, LenProperties DEF EepromInv, ExchangeTyped
<1>5. k + 1 \in 0 .. Len(BitsOf(request)) - 1
  BY <1>4
<1>6. StillToSend(k + 1)'
  BY <1>1, <1>2 DEF StillToSend
<1>7. received' = <<>> /\ cpuDmaCount' = Len(BitsOf(request))
  BY <1>1 DEF Sending
<1>8. Sending'
  BY <1>2, <1>5, <1>6, <1>7 DEF Sending
<1>9. request' # None /\ stream' # <<>>
  BY <1>1, <1>4, <1>5, RequestsTyped, EmptySeq
<1>10. ExchangeTyped'
  BY <1>1, <1>3 DEF EepromInv, ExchangeTyped
<1> QED
  BY <1>8, <1>9, <1>10 DEF EepromInv

(* The bits a request has at least.                                        *)
LEMMA RequestLength ==
  ASSUME ExchangeTyped, request \in Requests
  PROVE  LET n == Len(BitsOf(request)) IN
         /\ width \in Nat \ {0} /\ WordBits \in Nat \ {0, 1} /\ n \in Nat
         /\ request.op \in {"read", "write"}
         /\ request.op = "read" => n = (2 + width) + 1
         /\ request.op = "write" => n = ((2 + width) + WordBits) + 1
<1>1. width \in Nat \ {0} /\ WordBits \in Nat \ {0, 1}
  BY EepromSizes DEF ExchangeTyped
<1>2. request.op \in {"read", "write"}
  BY RequestsTyped
<1>3. Len(BitsOf(request))
        = ((2 + width) + (IF request.op = "write" THEN WordBits ELSE 0)) + 1
  BY BitsOfRequest DEF ExchangeTyped
<1> QED
  BY <1>1, <1>2, <1>3

(* The first bit wakes the chip up.                                        *)
LEMMA FirstBit ==
  ASSUME EepromInv, request \in Requests, Sending, BitSent(0)
  PROVE  EepromInv' /\ [Store!Next]_Store!storeVars
<1> DEFINE B == BitsOf(request)
<1>1. ExchangeTyped /\ SavedPartCoversWrites
  BY DEF EepromInv
<1>2. /\ width \in Nat \ {0} /\ WordBits \in Nat \ {0, 1} /\ Len(B) \in Nat
      /\ Len(B) >= (2 + width) + 1
  BY <1>1, RequestLength
<1>3. eepromMode = "IDLE"
  <2>1. Taken(0)
    BY DEF BitSent
  <2>2. 0 \notin 1 .. 2 + width /\ \A j \in 1 .. WordBits : 0 # (2 + width) + j
    BY <1>2
  <2> QED
    BY <2>1, <2>2 DEF Taken
<1>4. StartRequest(B[1])
  BY <1>3 DEF BitSent, TakeAddress, DropAnswer, TakeData
<1>5. /\ B[1] \in Bit /\ request' = request /\ Len(stream) = Len(B)
      /\ Len(stream') = Len(B) - 1 /\ UNCHANGED <<width, answer>>
  BY <1>2 DEF BitSent, StillToSend
<1>6. Taken(1)'
  <2>1. /\ eepromMode' = "READADDRESS" /\ eepromBits' = 1
        /\ eepromBuffer' = <<B[1]>>
    BY <1>4 DEF StartRequest
  <2>2. BitsOf(request)' = B
    BY <1>5 DEF BitsOf
  <2>3. TakingAddress(1)'
    BY <2>1, <2>2 DEF TakingAddress
  <2>4. 1 \in 1 .. 2 + width'
    BY <1>2, <1>5
  <2> QED
    BY <2>3, <2>4 DEF Taken
<1>7. eepromBuffer' \in Seq(Bit) /\ UNCHANGED <<eepromSize, eepromData>>
  BY <1>4, <1>5 DEF StartRequest
<1>8. 0 \in 0 .. Len(B) - 1 /\ 0 + 1 <= Len(B) - 1 /\ 0 + 1 = 1
  BY <1>2
<1>9. EepromInv'
  BY <1>1, <1>5, <1>6, <1>7, <1>8, SavedPartKept, MoreToSend DEF ExchangeTyped
<1>10. Open' = Open
  <2>1. Len(stream) # 1 /\ Len(stream') # 1
    BY <1>2, <1>5
  <2> QED
    BY <1>5, <2>1 DEF Open
<1> QED
  BY <1>5, <1>7, <1>9, <1>10, StoreStutters

(* A bit of the kind or of the address, but for the last one's successor.  *)
LEMMA AddressBit ==
  ASSUME EepromInv, request \in Requests, Sending,
         NEW k \in 1 .. 1 + width, BitSent(k), TakingAddress(k)
  PROVE  EepromInv' /\ [Store!Next]_Store!storeVars
<1> DEFINE B == BitsOf(request)
<1>1. ExchangeTyped /\ SavedPartCoversWrites
  BY DEF EepromInv
<1>2. /\ width \in Nat \ {0} /\ WordBits \in Nat \ {0, 1} /\ Len(B) \in Nat
      /\ Len(B) >= (2 + width) + 1
      /\ request.op = "write" => Len(B) = ((2 + width) + WordBits) + 1
  BY <1>1, RequestLength
<1>3. /\ eepromMode = "READADDRESS" /\ eepromBits = k /\ Len(eepromBuffer) = k
      /\ \A i \in 1 .. k : eepromBuffer[i] = B[i]
  BY DEF TakingAddress
<1>4. TakeAddress(B[k + 1])
  BY <1>3 DEF BitSent, StartRequest, DropAnswer, TakeData
<1>5. (IF cpuDmaCount \in WideCounts THEN Wide ELSE Narrow) = width
  BY <1>1, WidthIsInferred DEF Sending
<1>6. /\ eepromBits' = k + 1 /\ eepromBuffer' = Append(eepromBuffer, B[k + 1])
      /\ UNCHANGED <<eepromMode, eepromAddress, eepromSize, eepromData>>
  <2>1. k + 1 # 3 + width
    BY <1>2
  <2> QED
    BY <1>3, <1>4, <1>5, <2>1 DEF TakeAddress
<1>7. /\ B[k + 1] \in Bit /\ Len(stream) = Len(B) - k
      /\ Len(stream') = Len(B) - (k + 1) /\ UNCHANGED <<width, answer>>
      /\ request' = IF Len(B) - k = 1 /\ request.op = "write" THEN None ELSE request
  BY DEF BitSent, StillToSend
<1>8. request' = request
  BY <1>2, <1>7
<1>9. /\ eepromBuffer' \in Seq(Bit) /\ Len(eepromBuffer') = k + 1
      /\ \A i \in 1 .. k : eepromBuffer'[i] = eepromBuffer[i]
      /\ eepromBuffer'[k + 1] = B[k + 1]
  <2>1. eepromBuffer \in Seq(Bit)
    BY <1>1 DEF ExchangeTyped
  <2> DEFINE e == Append(eepromBuffer, B[k + 1])
  <2>2. /\ e \in Seq(Bit) /\ Len(e) = Len(eepromBuffer) + 1
        /\ \A i \in 1 .. Len(eepromBuffer) : e[i] = eepromBuffer[i]
        /\ e[Len(eepromBuffer) + 1] = B[k + 1]
    BY <1>7, <2>1, AppendProperties
  <2> QED
    BY <1>3, <1>6, <2>2
<1>10. Taken(k + 1)'
  <2>1. BitsOf(request)' = B
    BY <1>7, <1>8 DEF BitsOf
  <2>2. \A i \in 1 .. k + 1 : eepromBuffer'[i] = B[i]
    BY <1>3, <1>9
  <2>3. TakingAddress(k + 1)'
    BY <1>3, <1>6, <1>9, <2>1, <2>2 DEF TakingAddress
  <2>4. k + 1 \in 1 .. 2 + width'
    BY <1>2, <1>7
  <2> QED
    BY <2>3, <2>4 DEF Taken
<1>11. k \in 0 .. Len(B) - 1 /\ k + 1 <= Len(B) - 1
  BY <1>2
<1>12. EepromInv'
  BY <1>1, <1>6, <1>8, <1>9, <1>10, <1>11, SavedPartKept, MoreToSend DEF ExchangeTyped
<1>13. Open' = Open
  <2>1. request.op = "write" => Len(stream) # 1 /\ Len(stream') # 1
    BY <1>2, <1>7
  <2> QED
    BY <1>8, <2>1 DEF Open
<1> QED
  BY <1>6, <1>7, <1>12, <1>13, StoreStutters

(* The address the chip has read is the one the request names.             *)
LEMMA AddressIsRead ==
  ASSUME ExchangeTyped, request \in Requests, NEW e \in Seq(Bit),
         Len(e) = (2 + width) + 1,
         \A i \in 1 .. 2 + width : e[i] = BitsOf(request)[i]
  PROVE  FromBits(SubSeq(e, 3, 2 + width)) = request.block
<1> DEFINE a == SubSeq(e, 3, 2 + width)
<1>1. /\ width \in Nat \ {0} /\ width <= Wide /\ Wide \in Nat
      /\ width \in {Narrow, Wide} /\ Narrow <= Used /\ Used <= Wide
      /\ Narrow \in Nat /\ Used \in Nat
  BY EepromSizes DEF ExchangeTyped
<1>2. \A i \in 1 .. (2 + width) + 1 : e[i] \in Bit
  BY ElementOfSeq
<1>3. /\ a \in Seq(Bit)
      /\ Len(a) = IF 3 <= 2 + width THEN ((2 + width) - 3) + 1 ELSE 0
      /\ \A i \in 1 .. ((2 + width) - 3) + 1 : a[i] = e[(3 + i) - 1]
  <2>1. 3 \in Int /\ 2 + width \in Int /\ \A i \in 3 .. 2 + width : e[i] \in Bit
    BY <1>1, <1>2
  <2> QED
    BY <2>1, SubSeqProperties
<1> HIDE DEF a
<1>4. Len(a) = width
  BY <1>1, <1>3
<1>5. ASSUME NEW i \in 1 .. width PROVE a[i] = request.block[(Wide - width) + i]
  <2>1. i \in 1 .. ((2 + width) - 3) + 1 /\ (3 + i) - 1 = 2 + i
        /\ 2 + i \in 1 .. 2 + width
    BY <1>1
  <2>2. BitsOf(request)[2 + i] = request.block[(Wide - width) + i]
    BY <1>1, BitsOfRequest
  <2> QED
    BY <1>3, <2>1, <2>2
<1>6. request.block \in BlocksOf(width) /\ request.block \in Addresses
  BY RequestsTyped
<1>7. ASSUME NEW i \in 1 .. Wide - width PROVE request.block[i] = 0
  <2>1. width = Narrow \/ width = Wide
    BY <1>1
  <2>2. CASE width = Narrow
    <3>1. \A n \in 1 .. Wide - Narrow : request.block[n] = 0
      BY <1>6, <2>2 DEF BlocksOf
    <3> QED
      BY <2>2, <3>1
  <2>3. CASE width = Wide
    BY <1>1, <2>3
  <2> QED
    BY <2>1, <2>2, <2>3
<1>8. ASSUME NEW i \in 1 .. Wide
      PROVE  (IF i <= Wide - Len(a) THEN 0 ELSE a[i - (Wide - Len(a))])
               = request.block[i]
  <2>1. CASE i <= Wide - width
    <3>1. i \in 1 .. Wide - width
      BY <1>1, <2>1
    <3> QED
      BY <1>4, <1>7, <2>1, <3>1
  <2>2. CASE ~(i <= Wide - width)
    <3>1. i - (Wide - width) \in 1 .. width
          /\ (Wide - width) + (i - (Wide - width)) = i
      BY <1>1, <2>2
    <3>2. a[i - (Wide - width)] = request.block[(Wide - width) + (i - (Wide - width))]
      BY <1>5, <3>1
    <3> QED
      BY <1>4, <2>2, <3>1, <3>2
  <2> QED
    BY <2>1, <2>2
<1>9. request.block = [i \in 1 .. Wide |-> request.block[i]]
  BY <1>6 DEF Addresses
<1> QED
  BY <1>8, <1>9 DEF FromBits, a

(* The bit after the address begins the word of a write, and ends the      *)
(* request of a read.                                                      *)
LEMMA AddressTaken ==
  ASSUME EepromInv, request \in Requests, Sending,
         NEW k, k = 2 + width, BitSent(k), TakingAddress(k)
  PROVE  EepromInv' /\ [Store!Next]_Store!storeVars
<1> DEFINE B == BitsOf(request)
           e == Append(eepromBuffer, B[k + 1])
<1>1. ExchangeTyped /\ SavedPartCoversWrites
  BY DEF EepromInv
<1>2. /\ width \in Nat \ {0} /\ WordBits \in Nat \ {0, 1} /\ Len(B) \in Nat
      /\ request.op \in {"read", "write"}
      /\ request.op = "read" => Len(B) = k + 1
      /\ request.op = "write" => Len(B) = (k + WordBits) + 1
      /\ k = 2 + width
  BY <1>1, RequestLength
<1>3. /\ eepromMode = "READADDRESS" /\ eepromBits = k /\ Len(eepromBuffer) = k
      /\ \A i \in 1 .. k : eepromBuffer[i] = B[i]
  BY DEF TakingAddress
<1>4. TakeAddress(B[k + 1])
  BY <1>3 DEF BitSent, StartRequest, DropAnswer, TakeData
<1>5. (IF cpuDmaCount \in WideCounts THEN Wide ELSE Narrow) = width
  BY <1>1, WidthIsInferred DEF Sending
<1>6. /\ B[k + 1] \in Bit /\ Len(stream) = Len(B) - k
      /\ Len(stream') = Len(B) - (k + 1) /\ stream' \in Seq(Bit)
      /\ UNCHANGED <<width, answer, received>>
      /\ request' = IF Len(B) - k = 1 /\ request.op = "write" THEN None ELSE request
  BY DEF BitSent, StillToSend
<1>7. /\ e \in Seq(Bit) /\ Len(e) = k + 1
      /\ \A i \in 1 .. k : e[i] = B[i]
  <2>1. eepromBuffer \in Seq(Bit)
    BY <1>1 DEF ExchangeTyped
  <2>2. /\ e \in Seq(Bit) /\ Len(e) = Len(eepromBuffer) + 1
        /\ \A i \in 1 .. Len(eepromBuffer) : e[i] = eepromBuffer[i]
    BY <1>6, <2>1, AppendProperties
  <2> QED
    BY <1>3, <2>2
<1>8. FromBits(SubSeq(e, 3, 2 + width)) = request.block
  BY <1>1, <1>7, AddressIsRead
<1>9. e[2] = 0 <=> request.op = "write"
  <2>1. B[2] = 0 <=> request.op = "write"
    BY <1>1, BitsOfRequest DEF ExchangeTyped
  <2>2. e[2] = B[2]
    BY <1>2, <1>7
  <2> QED
    BY <2>1, <2>2
<1>10. /\ eepromAddress' = request.block
       /\ eepromSize' = IF width = Wide THEN Wide ELSE eepromSize
       /\ IF e[2] = 0
          THEN /\ eepromMode' = "WRITEDATA" /\ eepromBits' = 1
               /\ eepromBuffer' = <<B[k + 1]>>
          ELSE /\ eepromMode' = "READDATA" /\ eepromBits' = 0
               /\ UNCHANGED eepromBuffer
       /\ UNCHANGED eepromData
  <2>1. eepromBits + 1 = 3 + width
    BY <1>2, <1>3
  <2> QED
    BY <1>4, <1>5, <1>8, <2>1 DEF TakeAddress
<1>11. request' = request
  BY <1>2, <1>6
<1>12. SavedPartCoversWrites'
  BY <1>1, <1>10, SavedPartKept
<1>13. CASE request.op = "write"
  <2>1. /\ eepromMode' = "WRITEDATA" /\ eepromBits' = 1
        /\ eepromBuffer' = <<B[k + 1]>>
    BY <1>9, <1>10, <1>13
  <2>2. B[k + 1] = request.word[1]
    <3>1. \A i \in 1 .. WordBits : B[(2 + width) + i] = request.word[i]
      BY <1>1, <1>13, BitsOfRequest DEF ExchangeTyped
    <3>2. 1 \in 1 .. WordBits
      BY <1>2
    <3> QED
      BY <3>1, <3>2
  <2>3. TakingWord(1)'
    BY <1>6, <1>10, <1>11, <1>13, <2>1, <2>2 DEF TakingWord
  <2>4. Taken(k + 1)'
    <3>1. 1 \in 1 .. WordBits /\ k + 1 = (2 + width') + 1
      BY <1>2, <1>6
    <3> QED
      BY <2>3, <3>1 DEF Taken
  <2>5. eepromBuffer' \in Seq(Bit)
    BY <1>6, <2>1
  <2>6. k \in 0 .. Len(B) - 1 /\ k + 1 <= Len(B) - 1
    BY <1>2, <1>13
  <2>7. eepromSize' \in {eepromSize, Wide} /\ eepromData' \in [Block -> Word]
    BY <1>1, <1>10 DEF ExchangeTyped
  <2> HIDE DEF B, e
  <2>8. EepromInv'
    BY <1>11, <1>12, <2>4, <2>5, <2>6, <2>7, MoreToSend DEF B
  <2>9. Open' = Open
    <3>1. Len(stream) # 1 /\ Len(stream') # 1
      BY <1>2, <1>6, <1>13
    <3> QED
      BY <1>11, <3>1 DEF Open
  <2> QED
    BY <1>6, <1>10, <2>8, <2>9, StoreStutters
<1>14. CASE request.op = "read"
  <2>1. /\ eepromMode' = "READDATA" /\ eepromBits' = 0
        /\ UNCHANGED eepromBuffer
    BY <1>9, <1>10, <1>14
  <2>2. received' = <<>>
    BY <1>6 DEF Sending
  <2>3. stream' = <<>>
    BY <1>2, <1>6, <1>14, EmptySeq
  <2>4. request' # None
    BY <1>11, RequestsTyped
  <2>5. Answering'
    BY <1>10, <1>11, <1>14, <2>1, <2>2 DEF Answering
  <2>6. ExchangeTyped'
    <3>1. Requests' = Requests
      BY <1>6 DEF Requests
    <3> QED
      BY <1>1, <1>6, <1>10, <1>11, <2>1, <3>1 DEF ExchangeTyped
  <2>7. EepromInv'
    BY <1>12, <2>3, <2>4, <2>5, <2>6 DEF EepromInv
  <2>8. Open' = Open
    BY <1>11, <1>14 DEF Open
  <2> QED
    BY <1>6, <1>10, <2>7, <2>8, StoreStutters
<1> QED
  BY <1>2, <1>13, <1>14

(* The words of a write are taken bit by bit and stored with the last.     *)
LEMMA WordBit ==
  ASSUME EepromInv, request \in Requests, Sending, NEW j \in 1 .. WordBits,
         NEW k, k = (2 + width) + j, BitSent(k), TakingWord(j), j # WordBits
  PROVE  EepromInv' /\ [Store!Next]_Store!storeVars
<1> DEFINE B == BitsOf(request)
           bit == B[k + 1]
           e == Append(eepromBuffer, bit)
<1>1. ExchangeTyped /\ SavedPartCoversWrites
  BY DEF EepromInv
<1>2. /\ width \in Nat \ {0} /\ WordBits \in Nat \ {0, 1} /\ Len(B) \in Nat
      /\ request.op = "write" /\ Len(B) = ((2 + width) + WordBits) + 1
      /\ j \in Nat \ {0} /\ j < WordBits /\ k = (2 + width) + j
  BY <1>1, RequestLength DEF TakingWord
<1>3. /\ eepromMode = "WRITEDATA" /\ eepromBits = j /\ Len(eepromBuffer) = j
      /\ \A i \in 1 .. j : eepromBuffer[i] = request.word[i]
      /\ eepromAddress = request.block
      /\ width = Wide => eepromSize = Wide
  BY DEF TakingWord
<1>4. TakeData(bit)
  BY <1>3 DEF BitSent, StartRequest, DropAnswer, TakeAddress
<1>5. /\ bit \in Bit /\ Len(stream) = Len(B) - k
      /\ Len(stream') = Len(B) - (k + 1)
      /\ UNCHANGED <<width, answer>>
      /\ request' = IF Len(B) - k = 1 /\ request.op = "write" THEN None ELSE request
  BY DEF BitSent, StillToSend
<1>6. request' = request
  BY <1>2, <1>5
<1>7. bit = request.word[j + 1]
  <2>1. \A i \in 1 .. WordBits : B[(2 + width) + i] = request.word[i]
    BY <1>1, <1>2, BitsOfRequest DEF ExchangeTyped
  <2>2. j + 1 \in 1 .. WordBits /\ k + 1 = (2 + width) + (j + 1)
    BY <1>2
  <2> QED
    BY <2>1, <2>2
<1>8. /\ e \in Seq(Bit) /\ Len(e) = j + 1
      /\ \A i \in 1 .. j + 1 : e[i] = request.word[i]
  <2>1. eepromBuffer \in Seq(Bit)
    BY <1>1 DEF ExchangeTyped
  <2>2. /\ e \in Seq(Bit) /\ Len(e) = Len(eepromBuffer) + 1
        /\ \A i \in 1 .. Len(eepromBuffer) : e[i] = eepromBuffer[i]
        /\ e[Len(eepromBuffer) + 1] = bit
    BY <1>5, <2>1, AppendProperties
  <2>3. ASSUME NEW i \in 1 .. j + 1 PROVE e[i] = request.word[i]
    <3>1. i \in 1 .. j \/ i = j + 1
      BY <1>2
    <3> HIDE DEF e, bit
    <3> QED
      BY <1>3, <1>7, <2>2, <3>1
  <2> QED
    BY <1>3, <2>2, <2>3
<1>9. /\ eepromBuffer' = e /\ eepromBits' = j + 1
      /\ eepromData' = IF j + 1 = WordBits
                       THEN [eepromData EXCEPT ![request.block] = e] ELSE eepromData
      /\ UNCHANGED <<eepromMode, eepromAddress, eepromSize>>
  <2>1. j + 1 # WordBits + 1
    BY <1>2
  <2> QED
    BY <1>3, <1>4, <2>1 DEF TakeData
<1>10. Taken(k + 1)'
  <2>1. TakingWord(j + 1)'
    BY <1>2, <1>3, <1>5, <1>6, <1>8, <1>9 DEF TakingWord
  <2>2. j + 1 \in 1 .. WordBits /\ k + 1 = (2 + width') + (j + 1)
    BY <1>2, <1>5
  <2> QED
    BY <2>1, <2>2 DEF Taken
<1>11. k \in 0 .. Len(B) - 1 /\ k + 1 <= Len(B) - 1
  BY <1>2
<1>12. CASE j + 1 # WordBits
  <2>1. eepromData' = eepromData
    BY <1>9, <1>12
  <2>2. eepromBuffer' \in Seq(Bit)
    BY <1>8, <1>9
  <2>3. SavedPartCoversWrites' /\ eepromData' \in [Block -> Word]
    BY <1>1, <1>9, <2>1, SavedPartKept DEF ExchangeTyped
  <2>4. Open' = Open
    <3>1. Len(stream) # 1 /\ Len(stream') # 1
      BY <1>2, <1>5, <1>12
    <3> QED
      BY <1>6, <3>1 DEF Open
  <2> HIDE DEF B
  <2>5. EepromInv'
    BY <1>6, <1>9, <1>10, <1>11, <2>2, <2>3, MoreToSend DEF B
  <2> QED
    BY <1>5, <2>1, <2>4, <2>5, StoreStutters
<1>13. CASE j + 1 = WordBits
  <2>1. e = request.word /\ request.word \in Word
    <3>1. request.word \in Word
      BY <1>2, RequestsTyped
    <3>2. request.word \in Seq(Bit) /\ Len(request.word) = WordBits
      BY <1>2, <3>1 DEF Word
    <3> HIDE DEF e
    <3> QED
      BY <1>8, <1>13, <3>1, <3>2, SeqEqual
  <2>2. eepromData' = [eepromData EXCEPT ![request.block] = request.word]
    BY <1>9, <1>13, <2>1
  <2>3. eepromData' \in [Block -> Word]
    BY <1>1, <2>1, <2>2 DEF ExchangeTyped
  <2>4. SavedPartCoversWrites'
    <3>1. request.block \in BlocksOf(width) /\ request.block \in Block
      BY RequestsTyped
    <3>2. request.block \in BlocksOf(eepromSize)
      BY <1>1, <1>3, <3>1, BlocksAreAddresses DEF ExchangeTyped
    <3>3. ASSUME NEW b \in Block, eepromData'[b] # Blank
          PROVE  b \in BlocksOf(eepromSize)
      <4>1. CASE b = request.block
        BY <3>2, <4>1
      <4>2. CASE b # request.block
        <5>1. eepromData'[b] = eepromData[b]
          BY <1>1, <2>2, <4>2 DEF ExchangeTyped
        <5> QED
          BY <1>1, <3>3, <5>1 DEF SavedPartCoversWrites
      <4> QED
        BY <4>1, <4>2
    <3> QED
      BY <1>9, <3>3 DEF SavedPartCoversWrites
  <2>5. eepromBuffer' \in Seq(Bit)
    BY <1>8, <1>9
  <2>6. Open = request /\ Open' = None
    <3>1. Len(stream) = 2 /\ Len(stream') = 1
      BY <1>2, <1>5, <1>13
    <3>2. request # None
      BY RequestsTyped
    <3> QED
      BY <1>2, <1>6, <3>1, <3>2 DEF Open
  <2>7. Store!Write
    BY <1>2, <1>5, <2>2, <2>6, RequestsTyped DEF Store!Write, Open
  <2> HIDE DEF B
  <2>8. EepromInv'
    BY <1>6, <1>9, <1>10, <1>11, <2>3, <2>4, <2>5, MoreToSend DEF B
  <2> QED
    BY <2>7, <2>8 DEF Store!Next
<1> QED
  BY <1>12, <1>13

(* The stop bit of a write.                                                *)
LEMMA StopBit ==
  ASSUME EepromInv, request \in Requests, Sending,
         BitSent((2 + width) + WordBits), TakingWord(WordBits)
  PROVE  EepromInv' /\ [Store!Next]_Store!storeVars
<1> DEFINE B == BitsOf(request)
           k == (2 + width) + WordBits
           bit == B[k + 1]
<1>1. ExchangeTyped /\ SavedPartCoversWrites
  BY DEF EepromInv
<1>2. /\ width \in Nat \ {0} /\ WordBits \in Nat \ {0, 1} /\ Len(B) \in Nat
      /\ request.op = "write" /\ Len(B) = ((2 + width) + WordBits) + 1
  BY <1>1, RequestLength DEF TakingWord
<1>3. eepromMode = "WRITEDATA" /\ eepromBits = WordBits
  BY DEF TakingWord
<1>4. TakeData(bit)
  BY <1>3 DEF BitSent, StartRequest, DropAnswer, TakeAddress
<1>5. /\ bit \in Bit /\ Len(stream) = Len(B) - k /\ stream' \in Seq(Bit)
      /\ Len(stream') = Len(B) - (k + 1)
      /\ UNCHANGED <<width, answer, received>>
      /\ request' = IF Len(B) - k = 1 /\ request.op = "write" THEN None ELSE request
  BY DEF BitSent, StillToSend
<1>6. request' = None /\ Len(stream) = 1 /\ stream' = <<>>
  BY <1>2, <1>5, EmptySeq
<1>7. /\ eepromMode' = "IDLE" /\ eepromBuffer' = Append(eepromBuffer, bit)
      /\ UNCHANGED <<eepromData, eepromSize>>
  <2>1. WordBits + 1 # WordBits
    BY <1>2
  <2> QED
    BY <1>3, <1>4, <2>1 DEF TakeData
<1>8. received' = <<>>
  BY <1>5 DEF Sending
<1>9. Between'
  BY <1>6, <1>7, <1>8 DEF Between
<1>10. ExchangeTyped'
  <2>1. eepromBuffer' \in Seq(Bit)
    BY <1>1, <1>5, <1>7, AppendProperties DEF ExchangeTyped
  <2> QED
    BY <1>1, <1>5, <1>6, <1>7, <2>1 DEF ExchangeTyped
<1>11. SavedPartCoversWrites'
  BY <1>1, <1>7, SavedPartKept
<1>12. EepromInv'
  BY <1>6, <1>9, <1>10, <1>11 DEF EepromInv
<1>13. Open = None /\ Open' = None
  BY <1>2, <1>6 DEF Open
<1> QED
  BY <1>5, <1>7, <1>12, <1>13, StoreStutters

LEMMA SendKeeps ==
  ASSUME EepromInv, Send
  PROVE  EepromInv' /\ [Store!Next]_Store!storeVars
<1>1. request \in Requests /\ Sending
  BY SendSends
<1>2. PICK k \in 0 .. Len(BitsOf(request)) - 1 : BitSent(k)
  BY SendSends
<1>3. Taken(k)
  BY <1>2 DEF BitSent
<1>4. CASE k = 0
  BY <1>1, <1>2, <1>4, FirstBit
<1>5. CASE k \in 1 .. 2 + width /\ TakingAddress(k)
  <2>1. CASE k = 2 + width
    BY <1>1, <1>2, <1>5, <2>1, AddressTaken
  <2>2. CASE k # 2 + width
    <3>1. k \in 1 .. 1 + width
      BY <1>1, <1>5, <2>2, RequestLength DEF EepromInv
    <3> QED
      BY <1>1, <1>2, <1>5, <3>1, AddressBit
  <2> QED
    BY <2>1, <2>2
<1>6. CASE \E j \in 1 .. WordBits : k = (2 + width) + j /\ TakingWord(j)
  <2>1. PICK j \in 1 .. WordBits : k = (2 + width) + j /\ TakingWord(j)
    BY <1>6
  <2>2. CASE j = WordBits
    BY <1>1, <1>2, <2>1, <2>2, StopBit
  <2>3. CASE j # WordBits
    BY <1>1, <1>2, <2>1, <2>3, WordBit
  <2> QED
    BY <2>2, <2>3
<1> QED
  BY <1>3, <1>4, <1>5, <1>6 DEF Taken

(* A new request, whose length tells the chip its size.                    *)
LEMMA AskKeeps ==
  ASSUME EepromInv, NEW r \in Requests, Ask(r)
  PROVE  EepromInv' /\ [Store!Next]_Store!storeVars
<1> DEFINE B == BitsOf(r)
           n == Len(B)
<1>1. ExchangeTyped /\ SavedPartCoversWrites /\ request = None /\ Between
  BY DEF EepromInv, Ask
<1>2. /\ request' = r /\ stream' = B /\ received' = <<>> /\ cpuDmaCount' = n
      /\ UNCHANGED <<chipVars, width, answer>>
  BY DEF Ask, doDMAslow
<1>3. B \in Seq(Bit) /\ n \in Nat /\ n >= 4 /\ width \in Nat
  <2>1. /\ B \in Seq(Bit)
        /\ n = ((2 + width) + (IF r.op = "write" THEN WordBits ELSE 0)) + 1
    BY <1>1, BitsOfRequest DEF ExchangeTyped
  <2>2. width \in Nat \ {0} /\ WordBits \in Nat
    BY <1>1, EepromSizes DEF ExchangeTyped
  <2> QED
    BY <2>1, <2>2
<1>4. (BitsOf(request))' = B /\ Requests' = Requests
  BY <1>2 DEF BitsOf, Requests
<1>5. r # None /\ r \in Request /\ r.op \in {"read", "write"}
  BY RequestsTyped
<1>6. ExchangeTyped'
  BY <1>1, <1>2, <1>3, <1>4 DEF ExchangeTyped, chipVars
<1>7. SavedPartCoversWrites'
  BY <1>1, <1>2, SavedPartKept DEF chipVars
<1> HIDE DEF B, n
<1>8. Sending'
  <2>1. StillToSend(0)'
    <3>1. n - 0 = n /\ \A i \in 1 .. n : 0 + i = i
      BY <1>3
    <3>2. Len(stream') = n
      BY <1>2 DEF n
    <3> QED
      BY <1>2, <1>4, <3>1, <3>2 DEF StillToSend, n
  <2>2. Taken(0)'
    BY <1>1, <1>2 DEF Taken, Between, chipVars
  <2>3. 0 \in 0 .. n - 1
    BY <1>3
  <2>4. /\ received' = <<>> /\ cpuDmaCount' = Len(BitsOf(request)')
        /\ 0 \in 0 .. Len(BitsOf(request)') - 1
    BY <1>2, <1>4, <2>3 DEF n
  <2> QED
    BY <2>1, <2>2, <2>4 DEF Sending
<1>9. request' # None /\ stream' # <<>> /\ Len(stream') # 1
  BY <1>2, <1>3, <1>5, EmptySeq DEF n
<1>10. EepromInv'
  BY <1>6, <1>7, <1>8, <1>9 DEF EepromInv
<1>11. Open = None /\ Open' = r
  BY <1>1, <1>2, <1>9 DEF Open
<1>12. Store!Ask(r)
  BY <1>2, <1>11 DEF Store!Ask, Open, chipVars
<1>13. r \in Store!Requests
  BY <1>5 DEF Request, Store!Requests
<1> QED
  BY <1>10, <1>12, <1>13 DEF Store!Next

(* What a bit of the answer leaves alone.                                  *)
LEMMA ReceiveFrame ==
  ASSUME EepromInv, Receive
  PROVE  /\ request \in Requests /\ request.op = "read" /\ stream = <<>>
         /\ ExchangeTyped /\ SavedPartCoversWrites /\ Answering
         /\ UNCHANGED <<eepromBuffer, eepromAddress, eepromSize, eepromData,
                        width, stream>>
         /\ SavedPartCoversWrites'
<1>1. /\ request # None /\ request.op = "read" /\ stream = <<>>
      /\ UNCHANGED <<eepromBuffer, eepromAddress, eepromSize, eepromData, width, stream>>
  BY DEF Receive, eepromRead
<1>2. ExchangeTyped /\ SavedPartCoversWrites /\ Answering /\ request \in Requests
  BY <1>1 DEF EepromInv, ExchangeTyped
<1>3. SavedPartCoversWrites'
  BY <1>1, <1>2, SavedPartKept
<1> QED
  BY <1>1, <1>2, <1>3

(* A bit of the answer that is not its last.                               *)
LEMMA MoreToReceive ==
  ASSUME EepromInv, Receive, UNCHANGED <<request, answer>>, Answering',
         received' \in Seq(Bit)
  PROVE  EepromInv' /\ [Store!Next]_Store!storeVars
<1>1. ExchangeTyped'
  BY ReceiveFrame DEF ExchangeTyped, Requests
<1>2. EepromInv'
  BY <1>1, ReceiveFrame, RequestsTyped DEF EepromInv
<1>3. Open' = Open
  BY ReceiveFrame DEF Open
<1> QED
  BY <1>2, <1>3, ReceiveFrame, StoreStutters

(* The four bits to ignore.                                                *)
LEMMA IgnoredBit ==
  ASSUME EepromInv, Receive, eepromMode = "READDATA"
  PROVE  EepromInv' /\ [Store!Next]_Store!storeVars
<1> DEFINE bits == Append(received, Answered)
<1>1. /\ Len(received) \in 0 .. 3 /\ eepromBits = Len(received)
      /\ request.op = "read" /\ eepromAddress = request.block
  BY ReceiveFrame DEF Answering
<1>2. bits \in Seq(Bit) /\ Len(bits) = Len(received) + 1
  <2>1. Answered \in Bit /\ received \in Seq(Bit)
    BY ReceiveFrame DEF Answered, Bit, ExchangeTyped
  <2> QED
    BY <2>1, AppendProperties
<1>3. WordBits \in Nat \ {0, 1}
  BY EepromSizes
<1>4. received' = bits /\ UNCHANGED <<answer, request>>
  <2>1. Len(bits) # 4 + WordBits
    BY <1>1, <1>2, <1>3
  <2> QED
    BY <2>1 DEF Receive
<1>5. IF eepromBits + 1 = 4
      THEN eepromMode' = "READDATA2" /\ eepromBits' = 0
      ELSE eepromBits' = eepromBits + 1 /\ UNCHANGED eepromMode
  BY DEF Receive, eepromRead
<1> HIDE DEF bits
<1>6. Answering'
  <2>1. request'.op = "read" /\ eepromAddress' = request'.block
    BY <1>1, <1>4, ReceiveFrame
  <2>2. CASE Len(received) = 3
    <3>1. /\ eepromMode' = "READDATA2" /\ eepromBits' = 0 /\ Len(received') = 4 + 0
      BY <1>1, <1>2, <1>4, <1>5, <2>2
    <3>2. 0 \in 0 .. WordBits - 1 /\ 1 .. 0 = {}
      BY <1>3
    <3> QED
      BY <2>1, <3>1, <3>2 DEF Answering
  <2>3. CASE Len(received) # 3
    <3>1. eepromMode' = "READDATA" /\ eepromBits' = Len(received')
      BY <1>1, <1>2, <1>4, <1>5, <2>3
    <3>2. Len(received') \in 0 .. 3
      BY <1>1, <1>2, <1>4, <2>3
    <3> QED
      BY <2>1, <3>1, <3>2 DEF Answering
  <2> QED
    BY <2>2, <2>3
<1> QED
  BY <1>2, <1>4, <1>6, MoreToReceive

(* The bits of the word; with the last one the game has all of it.         *)
LEMMA WordBitRead ==
  ASSUME EepromInv, Receive, eepromMode = "READDATA2"
  PROVE  EepromInv' /\ [Store!Next]_Store!storeVars
<1> DEFINE w == eepromData[request.block]
           bits == Append(received, Answered)
<1>1. /\ eepromBits \in 0 .. WordBits - 1 /\ Len(received) = 4 + eepromBits
      /\ \A i \in 1 .. eepromBits : received[4 + i] = w[i]
      /\ request.op = "read" /\ eepromAddress = request.block
  BY ReceiveFrame DEF Answering
<1>2. WordBits \in Nat \ {0, 1}
  BY EepromSizes
<1>3. w \in Word /\ w \in Seq(Bit) /\ Len(w) = WordBits
  <2>1. w \in Word
    BY ReceiveFrame, RequestsTyped DEF ExchangeTyped
  <2> QED
    BY <1>2, <2>1 DEF Word
<1>4. Answered = w[eepromBits + 1] /\ Answered \in Bit
  <2>1. Answered = w[eepromBits + 1]
    BY <1>1 DEF Answered
  <2>2. eepromBits + 1 \in 1 .. WordBits
    BY <1>1, <1>2
  <2> QED
    BY <1>3, <2>1, <2>2 DEF Word
<1>5. /\ bits \in Seq(Bit) /\ Len(bits) = 4 + (eepromBits + 1)
      /\ \A i \in 1 .. eepromBits + 1 : bits[4 + i] = w[i]
  <2>1. received \in Seq(Bit)
    BY ReceiveFrame DEF ExchangeTyped
  <2>2. /\ bits \in Seq(Bit) /\ Len(bits) = Len(received) + 1
        /\ \A i \in 1 .. Len(received) : bits[i] = received[i]
        /\ bits[Len(received) + 1] = Answered
    BY <1>4, <2>1, AppendProperties
  <2> HIDE DEF bits, w
  <2>3. Len(bits) = 4 + (eepromBits + 1)
    BY <1>1, <2>2
  <2>4. ASSUME NEW i \in 1 .. eepromBits + 1 PROVE bits[4 + i] = w[i]
    <3>1. CASE i = eepromBits + 1
      <4>1. 4 + i = Len(received) + 1
        BY <1>1, <1>2, <3>1
      <4> QED
        BY <1>4, <2>2, <3>1, <4>1
    <3>2. CASE i # eepromBits + 1
      <4>1. i \in 1 .. eepromBits /\ 4 + i \in 1 .. Len(received)
        BY <1>1, <1>2, <3>2
      <4> QED
        BY <1>1, <2>2, <4>1
    <3> QED
      BY <3>1, <3>2
  <2> QED
    BY <2>2, <2>3, <2>4
<1>6. /\ eepromBits' = eepromBits + 1
      /\ IF eepromBits + 1 = WordBits THEN eepromMode' = "IDLE" ELSE UNCHANGED eepromMode
  BY DEF Receive, eepromRead
<1>7. IF Len(bits) = 4 + WordBits
      THEN /\ answer' = SubSeq(bits, 5, 4 + WordBits)
           /\ request' = None
           /\ received' = <<>>
      ELSE received' = bits /\ UNCHANGED <<answer, request>>
  BY DEF Receive
<1> HIDE DEF bits
<1>8. CASE eepromBits + 1 # WordBits
  <2>1. received' = bits /\ UNCHANGED <<answer, request, eepromMode>>
    BY <1>1, <1>2, <1>5, <1>6, <1>7, <1>8
  <2>2. eepromBits' \in 0 .. WordBits - 1 /\ Len(received') = 4 + eepromBits'
    BY <1>1, <1>2, <1>5, <1>6, <1>8, <2>1
  <2>3. \A i \in 1 .. eepromBits' : received'[4 + i] = w[i]
    BY <1>5, <1>6, <2>1
  <2>4. Answering'
    <3>1. eepromData' = eepromData /\ eepromAddress' = eepromAddress
      BY ReceiveFrame
    <3> QED
      BY <1>1, <2>1, <2>2, <2>3, <3>1 DEF Answering, w
  <2> QED
    BY <1>5, <2>1, <2>4, MoreToReceive
<1>9. CASE eepromBits + 1 = WordBits
  <2>1. /\ answer' = SubSeq(bits, 5, 4 + WordBits) /\ request' = None
        /\ received' = <<>> /\ eepromMode' = "IDLE"
    BY <1>1, <1>2, <1>5, <1>6, <1>7, <1>9
  <2> DEFINE a == SubSeq(bits, 5, 4 + WordBits)
  <2>2. a = w
    <3>1. /\ a \in Seq(Bit)
          /\ Len(a) = IF 5 <= 4 + WordBits THEN ((4 + WordBits) - 5) + 1 ELSE 0
          /\ \A i \in 1 .. ((4 + WordBits) - 5) + 1 : a[i] = bits[(5 + i) - 1]
      <4>1. Len(bits) = 4 + WordBits
        BY <1>1, <1>2, <1>5, <1>9
      <4>2. \A i \in 1 .. 4 + WordBits : bits[i] \in Bit
        BY <1>5, <4>1, ElementOfSeq
      <4>3. /\ 5 \in Int /\ 4 + WordBits \in Int
            /\ \A i \in 5 .. 4 + WordBits : bits[i] \in Bit
        BY <1>2, <4>2
      <4> QED
        BY <4>3, SubSeqProperties
    <3> HIDE DEF a, w
    <3>2. Len(a) = WordBits
      BY <1>2, <3>1
    <3>3. ASSUME NEW i \in 1 .. WordBits PROVE a[i] = w[i]
      <4>1. i \in 1 .. ((4 + WordBits) - 5) + 1 /\ (5 + i) - 1 = 4 + i
            /\ i \in 1 .. eepromBits + 1
        BY <1>2, <1>9
      <4> QED
        BY <1>5, <3>1, <4>1
    <3> QED
      BY <1>3, <3>1, <3>2, <3>3, SeqEqual
  <2>3. Between'
    BY <2>1, ReceiveFrame DEF Between
  <2>4. ExchangeTyped'
    <3>1. <<>> \in Seq(Bit)
      OBVIOUS
    <3> QED
      BY <2>1, <3>1, ReceiveFrame DEF ExchangeTyped
  <2>5. EepromInv'
    BY <2>1, <2>3, <2>4, ReceiveFrame DEF EepromInv
  <2>6. Open = request /\ Open' = None
    BY <1>1, <2>1 DEF Open
  <2>7. Store!Read
    <3>1. answer' = eepromData[request.block] /\ eepromData' = eepromData
      BY <2>1, <2>2, ReceiveFrame DEF w, a
    <3> QED
      BY <1>1, <2>6, <3>1, ReceiveFrame, RequestsTyped DEF Store!Read, Open
  <2> QED
    BY <2>5, <2>7 DEF Store!Next
<1> QED
  BY <1>8, <1>9

LEMMA ReceiveKeeps ==
  ASSUME EepromInv, Receive
  PROVE  EepromInv' /\ [Store!Next]_Store!storeVars
<1>1. eepromMode = "READDATA" \/ eepromMode = "READDATA2"
  BY ReceiveFrame DEF Answering
<1> QED
  BY <1>1, IgnoredBit, WordBitRead

(* Another transfer between two requests, or before an answer is fetched,  *)
(* changes the count and nothing else; the next request sets it again.     *)
LEMMA OtherDmaKeeps ==
  ASSUME EepromInv, NEW c, OtherDma(c)
  PROVE  EepromInv' /\ [Store!Next]_Store!storeVars
<1>1. /\ stream = <<>>
      /\ UNCHANGED <<chipVars, width, request, stream, received, answer>>
  BY DEF OtherDma
<1>2. ExchangeTyped' /\ SavedPartCoversWrites'
  BY <1>1, SavedPartKept DEF EepromInv, ExchangeTyped, chipVars, Requests
<1>3. Between => Between'
  BY <1>1 DEF Between, chipVars
<1>4. Answering => Answering'
  BY <1>1 DEF Answering, chipVars
<1>5. EepromInv'
  BY <1>1, <1>2, <1>3, <1>4 DEF EepromInv
<1>6. Open' = Open
  BY <1>1 DEF Open
<1> QED
  BY <1>1, <1>5, <1>6, StoreStutters DEF chipVars

LEMMA IdleKeeps ==
  ASSUME EepromInv, UNCHANGED eepromVars
  PROVE  EepromInv' /\ [Store!Next]_Store!storeVars
<1>1. /\ UNCHANGED <<eepromMode, eepromBits, eepromBuffer, eepromAddress, eepromSize>>
      /\ UNCHANGED <<eepromData, cpuDmaCount, width, request, stream, received, answer>>
  BY DEF eepromVars, chipVars
<1>2. ExchangeTyped' /\ SavedPartCoversWrites'
  BY <1>1, SavedPartKept DEF EepromInv, ExchangeTyped, Requests
<1>3. Between' = Between /\ Answering' = Answering
  BY <1>1 DEF Between, Answering
<1>4. Sending' = Sending
  BY <1>1 DEF Sending, StillToSend, Taken, TakingAddress, TakingWord, BitsOf
<1>5. EepromInv'
  BY <1>1, <1>2, <1>3, <1>4 DEF EepromInv
<1>6. Open' = Open
  BY <1>1 DEF Open
<1> QED
  BY <1>1, <1>5, <1>6, StoreStutters

LEMMA EepromStarts ==
  ASSUME EepromInit
  PROVE  EepromInv /\ Store!Init
<1>1. Blank \in Word /\ <<>> \in Seq(Bit)
  BY DEF Blank, Word, Bit
<1>2. ExchangeTyped
  BY <1>1 DEF EepromInit, ExchangeTyped
<1>3. SavedPartCoversWrites
  BY DEF EepromInit, SavedPartCoversWrites
<1>4. request = None /\ Between /\ Open = None
  BY DEF EepromInit, Between, Open
<1>5. EepromInv
  BY <1>2, <1>3, <1>4 DEF EepromInv
<1>6. Store!Init
  BY <1>4 DEF EepromInit, Store!Init, Open
<1> QED
  BY <1>5, <1>6

LEMMA EepromSteps ==
  ASSUME EepromInv, [EepromNext]_eepromVars
  PROVE  EepromInv' /\ [Store!Next]_Store!storeVars
<1>1. CASE \E r \in Requests : Ask(r)
  BY <1>1, AskKeeps
<1>2. CASE Send
  BY <1>2, SendKeeps
<1>3. CASE Receive
  BY <1>3, ReceiveKeeps
<1>4. CASE \E c \in OtherCounts : OtherDma(c)
  BY <1>4, OtherDmaKeeps
<1>5. CASE UNCHANGED eepromVars
  BY <1>5, IdleKeeps
<1> QED
  BY <1>1, <1>2, <1>3, <1>4, <1>5 DEF EepromNext

(* Whatever the game has stored lies in the part of the chip the battery   *)
(* file is given (EEprom.cpp, eepromSize), for any widths of the address.  *)
THEOREM SavedPartIsEnough == EepromSpec => []SavedPartCoversWrites
<1>1. EepromInit => EepromInv
  BY EepromStarts
<1>2. EepromInv /\ [EepromNext]_eepromVars => EepromInv'
  BY EepromSteps
<1>3. EepromInv => SavedPartCoversWrites
  BY DEF EepromInv
<1> QED
  BY <1>1, <1>2, <1>3, PTL DEF EepromSpec

(* Bit by bit, with a chip that infers the size of its address from the    *)
(* length of the last slow transfer, the game has a store of words         *)
(* (EEprom.cpp, eepromRead and eepromWrite).                               *)
THEOREM EepromImplementsStore == EepromSpec => ImplementsStore
<1>1. EepromInit => EepromInv /\ Store!Init
  BY EepromStarts
<1>2. EepromInv /\ [EepromNext]_eepromVars => EepromInv' /\ [Store!Next]_Store!storeVars
  BY EepromSteps
<1> QED
  BY <1>1, <1>2, PTL DEF EepromSpec, ImplementsStore, Store!Spec

-----------------------------------------------------------------------------
(* The clock: where it and the game are in a request.  First the requests  *)
(* of a game that does not set the clock.                                  *)
Plain == Queries \cup {[command |-> \h62, out |-> <<s>>, in |-> 0] : s \in StatusWritten}

(* The chip when p accesses of request q are done, by what is going on.    *)
Top(x, k) == (x \div 2 ^ (8 - k)) * 2 ^ (8 - k)
Opening(c, p) ==
  /\ p \in 0 .. 3 /\ c.state = "IDLE"
  /\ p >= 1 => c.byte2 = 1
  /\ p >= 2 => c.byte0 = 1
  /\ p >= 3 => c.byte1 = 7
Commanding(c, q, p) ==
  LET k == (p - 4) \div 2 IN
  /\ p \in 4 .. 19 /\ c.state = "COMMAND" /\ c.byte2 = 1 /\ c.byte1 = 7
  /\ c.bits = k /\ c.command = Top(q.command, k) /\ c.byte0 % 2 = (p + 1) % 2
Fetching(c, q, p, f) ==
  /\ p = 20 /\ c.state = "COMMAND" /\ c.byte2 = 1 /\ c.byte0 % 2 = 1
  /\ c.bits = 0 /\ c.dataLen = q.in /\ q.in \in {3, 7}
  /\ Len(f) \in 1 .. q.in /\ f = [i \in 1 .. Len(f) |-> 7 - Len(f) + i]
Taking(c, q, p) ==
  /\ q.in = 0 /\ Len(q.out) = 1 /\ p \in 20 .. 35
  /\ c.state = "READDATA" /\ c.byte2 = 1 /\ c.byte1 = 7
  /\ c.dataLen = 1 /\ c.bits = (p - 20) \div 2 /\ c.byte0 % 2 = (p + 1) % 2
Replying(c, q, p) ==
  LET k == (p - 21) \div 3
      e == (p - 21) % 3
      taken == IF e = 2 THEN k + 1 ELSE k
  IN /\ q.in > 0 /\ p \in 20 .. Total(q) - 1 /\ c.byte2 = 1 /\ c.dataLen = q.in
     /\ p = 20 => c.state = "DATA" /\ c.bits = 0 /\ c.byte0 % 2 = 1
     /\ p > 20 =>
          /\ c.byte1 = 5
          /\ c.byte0 % 2 = (IF e = 1 THEN 0 ELSE 1)
          /\ IF taken < 8 * q.in THEN c.state = "DATA" /\ c.bits = taken ELSE c.state = "IDLE"
          /\ e = 2 => BitAt(c.byte0, 1) = BitAt(c.data[k \div 8], k % 8)
Resting(c, q, p) ==
  c.state = "IDLE" /\ (p = Total(q) \/ (q.in = 0 /\ p = SentBy(q)))

InStep(c, q, p, f) ==
  \/ Fetching(c, q, p, f)
  \/ /\ f = <<>>
     /\ \/ Opening(c, p) \/ Commanding(c, q, p) \/ Taking(c, q, p)
        \/ Replying(c, q, p) \/ Resting(c, q, p)

(* What the game has heard are the bits of the chip's data.                *)
HeardSoFar(q, p) == IF q.in = 0 \/ p <= 20 THEN 0 ELSE IF p = Total(q) THEN 8 * q.in ELSE (p - 21) \div 3
BitsHeard(c, q, p, h) ==
  h = [m \in 1 .. HeardSoFar(q, p) |-> BitAt(c.data[(m - 1) \div 8], (m - 1) % 8)]

(* The ARM7's copy.                                                        *)
Copying ==
  /\ shown \in 1 .. Len(Times) /\ copied \in 0 .. 7 /\ mailBusy \in {0, 1}
  /\ mailBusy = 0 => copied = 0
  /\ mailBusy = 1 => shown < Len(Times)
  /\ clockdata = [f \in 1 .. 7 |-> Times[IF f <= copied THEN shown + 1 ELSE shown][f]]

(* What the chip has of the time.                                          *)
FieldAt(q, place) == 8 - q.in + place
Shows(c, q, place, t) == c.data[place] = toBCD(Times[t][FieldAt(q, place)])
Fetched(c, q, p, f) ==
  /\ \A place \in 0 .. q.in - Len(f) - 1 :
       \E t \in since .. shown + 1 : t \in DOMAIN Times /\ Shows(c, q, place, t)
  /\ ~overlapped =>
       IF f # <<>>
         THEN /\ Len(f) < q.in => mailBusy = 0
              /\ \A place \in 0 .. q.in - Len(f) - 1 : Shows(c, q, place, shown)
         ELSE \E t \in since .. shown : \A place \in 0 .. q.in - 1 : Shows(c, q, place, t)

Chips ==
  [byte0 : Nat, byte1 : Nat, byte2 : Nat, command : Nat, dataLen : Nat, bits : Nat,
   state : {"IDLE", "COMMAND", "DATA", "READDATA"}, data : [0 .. 11 -> Nat]]

RtcInv ==
  /\ Copying /\ since \in 1 .. shown
  /\ ~setByGame =>
       /\ asked \in Plain \/ (asked = NoRequest /\ done = Total(asked))
       /\ done \in 0 .. Total(asked)
       /\ rtcClockData \in Chips
       /\ InStep(rtcClockData, asked, done, fetching)
       /\ BitsHeard(rtcClockData, asked, done, heard)
       /\ asked.in = 1 /\ done >= 20 => rtcClockData.data[0] = 64
       /\ asked.in > 1 /\ done >= 20 => Fetched(rtcClockData, asked, done, fetching)
       /\ done < 20 => ~overlapped

-----------------------------------------------------------------------------
(* Bits and bytes.                                                         *)
LEMMA BitIs == ASSUME NEW x \in Nat, NEW k \in 0 .. 7 PROVE BitAt(x, k) \in {0, 1}
<1>1. k = 0 \/ k = 1 \/ k = 2 \/ k = 3 \/ k = 4 \/ k = 5 \/ k = 6 \/ k = 7
  OBVIOUS
<1>2. QED
  BY <1>1 DEF BitAt

LEMMA LowBits ==
  ASSUME NEW x \in Nat
  PROVE  BitAt(x, 0) = x % 2 /\ BitAt(x, 1) = (x \div 2) % 2
BY DEF BitAt

LEMMA ClockedBits ==
  ASSUME NEW b \in {0, 1}
  PROVE  /\ BitAt(4 + 2 * b, 0) = 0 /\ BitAt(5 + 2 * b, 0) = 1 /\ BitAt(5 + 2 * b, 1) = b
         /\ BitAt(1, 0) = 1 /\ BitAt(5, 0) = 1 /\ BitAt(5, 1) = 0 /\ BitAt(7, 1) = 1 /\ BitAt(4, 0) = 0
BY DEF BitAt

LEMMA ByteIs ==
  ASSUME NEW x \in 0 .. 255
  PROVE  BitAt(x, 0) + 2 * BitAt(x, 1) + 4 * BitAt(x, 2) + 8 * BitAt(x, 3) + 16 * BitAt(x, 4)
           + 32 * BitAt(x, 5) + 64 * BitAt(x, 6) + 128 * BitAt(x, 7) = x
BY DEF BitAt

LEMMA TimeIs ==
  ASSUME NEW v \in 0 .. 99
  PROVE  /\ toBCD(v) \in 0 .. 255 /\ <<toBCD(v) \div 16, toBCD(v) % 16>> = Digits(v)
BY DEF toBCD, Digits

(* A command comes in from its top bit.                                    *)
LEMMA CommandEnds == ASSUME NEW x \in 0 .. 255 PROVE Top(x, 0) = 0 /\ Top(x, 8) = x
BY DEF Top
LEMMA CommandComesIn ==
  ASSUME NEW x \in 0 .. 255, NEW k \in 0 .. 7
  PROVE  /\ BitAt(Top(x, k), 7 - k) = 0
         /\ Top(x, k) + BitAt(x, 7 - k) * 2 ^ (7 - k) = Top(x, k + 1)
<1>1. k = 0 \/ k = 1 \/ k = 2 \/ k = 3 \/ k = 4 \/ k = 5 \/ k = 6 \/ k = 7
  OBVIOUS
<1>3. CASE k = 0
  BY <1>3 DEF Top, BitAt
<1>4. CASE k = 1
  BY <1>4 DEF Top, BitAt
<1>5. CASE k = 2
  BY <1>5 DEF Top, BitAt
<1>6. CASE k = 3
  BY <1>6 DEF Top, BitAt
<1>7. CASE k = 4
  BY <1>7 DEF Top, BitAt
<1>8. CASE k = 5
  BY <1>8 DEF Top, BitAt
<1>9. CASE k = 6
  BY <1>9 DEF Top, BitAt
<1>10. CASE k = 7
  BY <1>10 DEF Top, BitAt
<1>11. QED
  BY <1>1, <1>3, <1>4, <1>5, <1>6, <1>7, <1>8, <1>9, <1>10

(* The requests, by their commands.                                        *)
LEMMA PlainIs ==
  ASSUME NEW q \in Plain
  PROVE  /\ q.command \in 0 .. 255 /\ q.command # \h64
         /\ \/ q.command = \h60 /\ q.out = <<>> /\ q.in = 0 /\ SentBy(q) = 20 /\ Total(q) = 21
            \/ /\ q.command = \h62 /\ q.in = 0 /\ SentBy(q) = 36 /\ Total(q) = 37
               /\ Len(q.out) = 1 /\ q.out[1] \in Nat
            \/ q.command = \h63 /\ q.out = <<>> /\ q.in = 1 /\ SentBy(q) = 20 /\ Total(q) = 46
            \/ q.command = \h65 /\ q.out = <<>> /\ q.in = 7 /\ SentBy(q) = 20 /\ Total(q) = 190
            \/ q.command = \h67 /\ q.out = <<>> /\ q.in = 3 /\ SentBy(q) = 20 /\ Total(q) = 94
<1>1. CASE q \in Queries
  BY <1>1 DEF Queries, SentBy, Total
<1>2. ASSUME NEW s \in StatusWritten, q = [command |-> \h62, out |-> <<s>>, in |-> 0]
      PROVE  /\ q.command = \h62 /\ q.in = 0 /\ SentBy(q) = 36 /\ Total(q) = 37
             /\ Len(q.out) = 1 /\ q.out[1] \in Nat
  BY <1>2, RtcAssumption DEF SentBy, Total
<1>3. QED
  BY <1>1, <1>2 DEF Plain

-----------------------------------------------------------------------------
(* A write of an access, and what the handler then has to read of the time. *)
Touched(c, a) ==
  CASE a[1] = "c8" -> [c EXCEPT !.byte2 = a[2]]
    [] a[1] = "c6" -> [c EXCEPT !.byte1 = a[2]]
    [] a[1] = "c4" -> PortWritten(c, a[2])
TimePending(c, d) == IF c.state = "COMMAND" /\ c.bits = 7 /\ d.bits = 0 THEN Fetches(d.command) ELSE <<>>

LEMMA PlainWrite ==
  ASSUME NEW c \in Chips, c.byte2 = 1, NEW v \in Nat,
         v % 2 = 0 \/ (c.byte0 % 2 = 1 /\ ~(c.state = "IDLE" /\ v = 5))
  PROVE  PortWritten(c, v) = [c EXCEPT !.byte0 = v]
<1>1. BitAt(v, 0) = v % 2 /\ BitAt(c.byte0, 0) = c.byte0 % 2 /\ BitAt(c.byte2, 0) = 1
  BY LowBits DEF Chips
<1>2. ~(c.state = "IDLE" /\ c.byte0 = 1 /\ v = 5)
  OBVIOUS
<1>3. BitAt(c.byte0, 0) = 1 \/ BitAt(v, 0) = 0
  BY <1>1
<1>4. QED
  BY <1>1, <1>2, <1>3 DEF PortWritten

Risen(d, v) ==
  CASE d.state = "COMMAND"  -> CommandBit(d, v)
    [] d.state = "DATA"     -> DataBit(d)
    [] d.state = "READDATA" -> ReadDataBit(d, v)
    [] d.state = "IDLE"     -> d
LEMMA RisingWrite ==
  ASSUME NEW c \in Chips, c.byte2 = 1, c.byte0 % 2 = 0, NEW v \in Nat, v % 2 = 1
  PROVE  PortWritten(c, v) = Risen([c EXCEPT !.byte0 = v], v)
<1>1. BitAt(v, 0) # 0 /\ BitAt(c.byte0, 0) # 1 /\ BitAt(c.byte2, 0) # 0 /\ c.byte0 # 1
  BY LowBits DEF Chips
<1> DEFINE d == [c EXCEPT !.byte0 = v]
<1>2. d.state = c.state /\ c.state \in {"IDLE", "COMMAND", "DATA", "READDATA"}
  BY DEF Chips
<1>3. PortWritten(c, v) = CASE c.state = "COMMAND"  -> CommandBit(d, v)
                            [] c.state = "DATA"     -> DataBit(d)
                            [] c.state = "READDATA" -> ReadDataBit(d, v)
                            [] c.state = "IDLE"     -> d
  BY ONLY <1>1, Zenon DEF PortWritten
<1> HIDE DEF d
<1>4. CASE c.state = "COMMAND"
  BY <1>2, <1>3, <1>4 DEF Risen, d
<1>5. CASE c.state = "DATA"
  BY <1>2, <1>3, <1>5 DEF Risen, d
<1>6. CASE c.state = "READDATA"
  BY <1>2, <1>3, <1>6 DEF Risen, d
<1>7. CASE c.state = "IDLE"
  BY <1>2, <1>3, <1>7 DEF Risen, d
<1>8. QED
  BY <1>2, <1>4, <1>5, <1>6, <1>7

(* The accesses, by the phase of a request.                                *)
LEMMA AccessIs ==
  ASSUME NEW q \in Plain, NEW p \in 1 .. Total(q)
  PROVE  /\ p <= 4 => AccessOf(q, p) = Select[p]
         /\ p \in 5 .. 20 => AccessOf(q, p) = Clocked(BitAt(q.command, 7 - ((p - 5) \div 2)), p)
         /\ p \in 21 .. SentBy(q) => AccessOf(q, p) = Clocked(BitAt(q.out[1], ((p - 21) \div 2) % 8), p)
         /\ p = Total(q) => AccessOf(q, p) = <<"c4", 1>>
         /\ p = SentBy(q) + 1 /\ q.in > 0 => AccessOf(q, p) = <<"c6", 5>>
         /\ p \in SentBy(q) + 2 .. Total(q) - 1 =>
              LET k == p - SentBy(q) - 2
              IN AccessOf(q, p) = IF k % 3 = 2 THEN Read ELSE <<"c4", 4 + (k % 3)>>
<1>1. /\ SentBy(q) \in {20, 36} /\ Total(q) \in Nat /\ SentBy(q) < Total(q)
      /\ q.in > 0 => SentBy(q) + 1 < Total(q)
  BY PlainIs
<1>2. p <= 4 => AccessOf(q, p) = Select[p]
  BY <1>1 DEF AccessOf
<1>3. p \in 5 .. 20 => AccessOf(q, p) = Clocked(BitAt(q.command, 7 - ((p - 5) \div 2)), p)
  BY <1>1 DEF AccessOf
<1>4. p \in 21 .. SentBy(q) => AccessOf(q, p) = Clocked(BitAt(q.out[1], ((p - 21) \div 2) % 8), p)
  <2>1. p \in 21 .. SentBy(q) => p \in 21 .. 36 /\ ((p - 21) \div 2) \div 8 = 0
    BY <1>1
  <2>2. QED
    BY <1>1, <2>1 DEF AccessOf
<1>5. p = Total(q) => AccessOf(q, p) = <<"c4", 1>>
  BY <1>1 DEF AccessOf, Write
<1>6. p = SentBy(q) + 1 /\ q.in > 0 => AccessOf(q, p) = <<"c6", 5>>
  BY <1>1 DEF AccessOf, Write
<1>7. p \in SentBy(q) + 2 .. Total(q) - 1 =>
              LET k == p - SentBy(q) - 2
              IN AccessOf(q, p) = IF k % 3 = 2 THEN Read ELSE <<"c4", 4 + (k % 3)>>
  BY <1>1 DEF AccessOf, Write
<1>8. QED
  BY <1>2, <1>3, <1>4, <1>5, <1>6, <1>7

LEMMA CommandAccess ==
  ASSUME NEW q \in Plain, NEW p \in 5 .. 20
  PROVE  AccessOf(q, p) = Clocked(BitAt(q.command, 7 - ((p - 5) \div 2)), p)
<1>1. p \in 1 .. Total(q)
  BY PlainIs
<1>2. QED
  BY <1>1, AccessIs

-----------------------------------------------------------------------------
(* A step of each phase.                                                   *)
Goes(c, q, p, d) ==
  /\ d \in Chips /\ InStep(d, q, p + 1, TimePending(c, d))
  /\ (p # 19 \/ q.in # 1) /\ (q.in > 0) => d.data = c.data
  /\ p = 19 /\ q.in = 1 => d.data[0] = 64
  /\ p = 19 /\ q.in > 1 => Len(TimePending(c, d)) = q.in

LEMMA OpeningStep ==
  ASSUME NEW c \in Chips, NEW q \in Plain, NEW p, Opening(c, p)
  PROVE  Goes(c, q, p, Touched(c, AccessOf(q, p + 1)))
<1> DEFINE a == AccessOf(q, p + 1)
           d == Touched(c, a)
<1>1. p \in 0 .. 3 /\ c.state = "IDLE"
  BY DEF Opening
<1>2. a = Select[p + 1]
  BY <1>1, AccessIs, PlainIs
<1>3. CASE p = 0
  <2>1. d = [c EXCEPT !.byte2 = 1]
    BY <1>2, <1>3 DEF Touched, Select, Write
  <2>2. d \in Chips /\ Opening(d, 1) /\ d.data = c.data
    BY <1>1, <2>1 DEF Chips, Opening
  <2>3. QED
    BY <1>1, <1>3, <2>2 DEF Goes, InStep, TimePending
<1>4. CASE p = 1
  <2>1. c.byte2 = 1 /\ d = PortWritten(c, 1)
    BY <1>2, <1>4 DEF Touched, Select, Write, Opening
  <2>2. d = [c EXCEPT !.byte0 = 1]
    <3>1. CASE c.byte0 % 2 = 1
      BY <2>1, <3>1, PlainWrite
    <3>2. CASE c.byte0 % 2 = 0
      BY <1>1, <2>1, <3>2, RisingWrite DEF Risen, Chips
    <3>3. QED
      BY <3>1, <3>2 DEF Chips
  <2>3. d \in Chips /\ Opening(d, 2) /\ d.data = c.data
    BY <1>1, <2>1, <2>2 DEF Chips, Opening
  <2>4. QED
    BY <1>1, <1>4, <2>3 DEF Goes, InStep, TimePending
<1>5. CASE p = 2
  <2>1. d = [c EXCEPT !.byte1 = 7]
    BY <1>2, <1>5 DEF Touched, Select, Write
  <2>2. d \in Chips /\ Opening(d, 3) /\ d.data = c.data
    BY <1>1, <1>5, <2>1 DEF Chips, Opening
  <2>3. QED
    BY <1>1, <1>5, <2>2 DEF Goes, InStep, TimePending
<1>6. CASE p = 3
  <2>1. c.byte2 = 1 /\ c.byte0 = 1 /\ c.byte1 = 7 /\ d = PortWritten(c, 5)
    BY <1>2, <1>6 DEF Touched, Select, Write, Opening
  <2> HIDE DEF d
  <2>2. d = [c EXCEPT !.state = "COMMAND", !.bits = 0, !.command = 0]
    BY <1>1, <2>1, LowBits DEF PortWritten
  <2>3. d \in Chips /\ d.data = c.data
    BY <2>2 DEF Chips
  <2>4. /\ d.state = "COMMAND" /\ d.bits = 0 /\ d.command = 0
        /\ d.byte0 = 1 /\ d.byte1 = 7 /\ d.byte2 = 1
    BY <2>1, <2>2 DEF Chips
  <2>5. Top(q.command, 0) = 0
    BY PlainIs, CommandEnds
  <2>6. Commanding(d, q, 4)
    BY <2>4, <2>5 DEF Commanding
  <2>7. TimePending(c, d) = <<>>
    BY <1>1 DEF TimePending
  <2>8. Goes(c, q, p, d)
    BY <1>1, <1>6, <2>3, <2>6, <2>7 DEF Goes, InStep
  <2>9. QED
    BY <2>8 DEF d
<1>7. QED
  BY <1>1, <1>3, <1>4, <1>5, <1>6
LEMMA CommandStep ==
  ASSUME NEW c \in Chips, NEW q \in Plain, NEW p, Commanding(c, q, p)
  PROVE  Goes(c, q, p, Touched(c, AccessOf(q, p + 1)))
<1> DEFINE k == (p - 4) \div 2
           b == BitAt(q.command, 7 - k)
           a == AccessOf(q, p + 1)
           d == Touched(c, a)
<1>1. /\ p \in 4 .. 19 /\ c.state = "COMMAND" /\ c.byte2 = 1 /\ c.byte1 = 7
      /\ c.bits = k /\ c.command = Top(q.command, k) /\ c.byte0 % 2 = (p + 1) % 2
  BY DEF Commanding
<1>2. k \in 0 .. 7 /\ q.command \in 0 .. 255 /\ b \in {0, 1}
  <2>1. q.command \in 0 .. 255 /\ k \in 0 .. 7
    BY <1>1, PlainIs
  <2> HIDE DEF k
  <2>2. QED
    BY <2>1, BitIs
<1>3. a = <<"c4", 5 + 2 * b - ((p + 1) % 2)>>
  <2>1. p + 1 \in 5 .. 20
    BY <1>1
  <2>2. AccessOf(q, p + 1) = Clocked(BitAt(q.command, 7 - (((p + 1) - 5) \div 2)), p + 1)
    BY <2>1, CommandAccess
  <2>3. ((p + 1) - 5) \div 2 = k
    BY <1>1
  <2> HIDE DEF k
  <2>4. AccessOf(q, p + 1) = <<"c4", 5 + 2 * BitAt(q.command, 7 - k) - ((p + 1) % 2)>>
    BY ONLY <2>2, <2>3, Zenon DEF Clocked, Write
  <2>5. QED
    BY ONLY <2>4, Zenon
<1>4. CASE p % 2 = 0
  <2>1. d = PortWritten(c, 4 + 2 * b) /\ 4 + 2 * b \in Nat /\ (4 + 2 * b) % 2 = 0
    <3>1. 5 + 2 * b - ((p + 1) % 2) = 4 + 2 * b /\ (4 + 2 * b) % 2 = 0
      BY <1>1, <1>2, <1>4
    <3>2. QED
      BY <1>2, <1>3, <3>1 DEF Touched
  <2> HIDE DEF d, b
  <2>2. d = [c EXCEPT !.byte0 = 4 + 2 * b]
    BY <1>1, <2>1, PlainWrite
  <2>3. /\ d \in Chips /\ d.data = c.data /\ d.state = "COMMAND" /\ d.byte2 = 1 /\ d.byte1 = 7
        /\ d.bits = k /\ d.command = c.command /\ d.byte0 % 2 = 0
    BY <1>1, <2>1, <2>2 DEF Chips
  <2>4. p + 1 \in 4 .. 19 /\ (p + 1 - 4) \div 2 = k /\ (p + 1 + 1) % 2 = 0
    BY <1>1, <1>4
  <2>5. Commanding(d, q, p + 1)
    BY <1>1, <2>3, <2>4 DEF Commanding
  <2>6. TimePending(c, d) = <<>>
    <3>1. d.bits = c.bits
      BY <1>1, <2>3
    <3>2. QED
      BY <3>1 DEF TimePending
  <2>7. Goes(c, q, p, d)
    BY <1>1, <1>4, <2>3, <2>5, <2>6 DEF Goes, InStep
  <2>8. QED
    BY <2>7 DEF d
<1>5. CASE p % 2 = 1
  <2>1. d = PortWritten(c, 5 + 2 * b) /\ 5 + 2 * b \in Nat /\ (5 + 2 * b) % 2 = 1 /\ c.byte0 % 2 = 0
    <3>1. 5 + 2 * b - ((p + 1) % 2) = 5 + 2 * b /\ (5 + 2 * b) % 2 = 1 /\ c.byte0 % 2 = 0
      BY <1>1, <1>2, <1>5
    <3>2. QED
      BY <1>2, <1>3, <3>1 DEF Touched
  <2> DEFINE w == [c EXCEPT !.byte0 = 5 + 2 * b]
             x == [w EXCEPT !.command = Top(q.command, k + 1), !.bits = k + 1]
  <2>2. w \in Chips /\ w.state = "COMMAND" /\ w.bits = k /\ w.command = c.command
    BY <1>1, <2>1 DEF Chips
  <2>3. d = CommandBit(w, 5 + 2 * b)
    BY <1>1, <2>1, <2>2, RisingWrite DEF Risen
  <2>4. d = IF k + 1 = 8 THEN Commanded(x) ELSE x
    <3>1. /\ BitAt(c.command, 7 - k) = 0 /\ BitAt(5 + 2 * b, 1) = b
          /\ c.command + b * 2 ^ (7 - k) = Top(q.command, k + 1)
      <4> HIDE DEF k
      <4>1. BitAt(5 + 2 * b, 1) = b
        BY ONLY <1>2, ClockedBits, Zenon
      <4>2. /\ BitAt(Top(q.command, k), 7 - k) = 0
            /\ Top(q.command, k) + BitAt(q.command, 7 - k) * 2 ^ (7 - k) = Top(q.command, k + 1)
        BY ONLY <1>2, CommandComesIn, Zenon
      <4>3. QED
        BY ONLY <1>1, <4>1, <4>2, Zenon
    <3> HIDE DEF w, k, b
    <3>2. [w EXCEPT !.command = IF BitAt(@, 7 - w.bits) = 1 THEN @
                                ELSE @ + BitAt(5 + 2 * b, 1) * 2 ^ (7 - w.bits), !.bits = @ + 1] = x
      <4>1. BitAt(w.command, 7 - w.bits) # 1
        BY ONLY <2>2, <3>1
      <4>2. w.command + BitAt(5 + 2 * b, 1) * 2 ^ (7 - w.bits) = Top(q.command, k + 1)
        BY ONLY <2>2, <3>1, Zenon
      <4>3. w.bits + 1 = k + 1
        BY ONLY <2>2, Zenon
      <4>4. (IF BitAt(w.command, 7 - w.bits) = 1 THEN w.command
             ELSE w.command + BitAt(5 + 2 * b, 1) * 2 ^ (7 - w.bits)) = Top(q.command, k + 1)
        BY ONLY <4>1, <4>2, Zenon
      <4>5. QED
        BY ONLY <4>3, <4>4, Zenon
    <3>3. x.bits = k + 1
      BY <2>2 DEF Chips
    <3> HIDE DEF x
    <3>4. QED
      BY <2>3, <3>2, <3>3 DEF CommandBit
  <2>5. Top(q.command, k + 1) \in Nat
    BY <1>1, <1>2, CommandComesIn DEF Chips
  <2> HIDE DEF b, d
  <2>6. /\ x \in Chips /\ x.data = c.data /\ x.state = "COMMAND" /\ x.bits = k + 1
        /\ x.command = Top(q.command, k + 1) /\ x.byte0 = 5 + 2 * b /\ x.byte1 = 7 /\ x.byte2 = 1
    <3>1. k + 1 \in Nat /\ 5 + 2 * b \in Nat
      BY ONLY <1>2, <2>1
    <3>2. w.byte0 = 5 + 2 * b /\ w.byte1 = 7 /\ w.byte2 = 1 /\ w.data = c.data
      BY <1>1 DEF Chips
    <3> HIDE DEF k, w
    <3>3. QED
      BY <2>2, <2>5, <3>1, <3>2 DEF Chips
  <2>7. CASE p < 19
    <3>1. k + 1 < 8 /\ (p + 1 - 4) \div 2 = k + 1 /\ (p + 1 + 1) % 2 = 1 /\ p + 1 \in 4 .. 19
      BY <1>1, <1>5, <2>7
    <3> HIDE DEF x, k, w
    <3>2. d = x
      BY <1>2, <2>4, <3>1
    <3>3. Commanding(d, q, p + 1)
      BY <2>1, <2>6, <3>1, <3>2 DEF Commanding
    <3>4. TimePending(c, d) = <<>>
      BY <1>1, <1>2, <2>6, <3>1, <3>2 DEF TimePending
    <3>5. Goes(c, q, p, d)
      BY <1>1, <2>6, <2>7, <3>2, <3>3, <3>4 DEF Goes, InStep
    <3>6. QED
      BY <3>5 DEF d
  <2>8. CASE p = 19
    <3>1. k = 7
      BY <2>8
    <3> HIDE DEF x, k, w
    <3>2. d = Commanded(x) /\ x.command = q.command /\ x.bits = 8 /\ x.byte0 % 2 = 1
      BY <1>2, <2>1, <2>4, <2>6, <3>1, CommandEnds
    <3>3. Goes(c, q, p, d)
      <4> DEFINE y == [x EXCEPT !.bits = 0]
      <4>1. /\ y \in Chips /\ y.data = c.data /\ y.state = "COMMAND" /\ y.bits = 0
            /\ y.byte0 % 2 = 1 /\ y.byte1 = 7 /\ y.byte2 = 1 /\ y.command = q.command
        BY <2>6, <3>2 DEF Chips
      <4> HIDE DEF y
      <4>2. d = CASE q.command = \h62 -> [y EXCEPT !.state = "READDATA", !.dataLen = 1]
                  [] q.command = \h63 -> [y EXCEPT !.state = "DATA", !.dataLen = 1, !.data[0] = 64]
                  [] q.command = \h64 -> y
                  [] q.command = \h65 -> [y EXCEPT !.dataLen = 7]
                  [] q.command = \h67 -> [y EXCEPT !.dataLen = 3]
                  [] OTHER            -> [y EXCEPT !.state = "IDLE"]
        BY <3>2 DEF Commanded, y
      <4>3. TimePending(c, d) = IF d.bits = 0 THEN Fetches(d.command) ELSE <<>>
        BY <1>1, <3>1 DEF TimePending
      <4>4. CASE q.command = \h60
        <5>1. d = [y EXCEPT !.state = "IDLE"]
          BY <4>2, <4>4
        <5>2. d \in Chips /\ d.bits = 0 /\ d.command = \h60 /\ d.state = "IDLE"
          BY <4>1, <4>4, <5>1 DEF Chips
        <5>3. TimePending(c, d) = <<>> /\ q.in = 0 /\ p + 1 = SentBy(q)
          BY <2>8, <4>3, <4>4, <5>2, PlainIs DEF Fetches
        <5>4. QED
          BY <2>8, <5>2, <5>3 DEF Goes, InStep, Resting
      <4>5. CASE q.command = \h62
        <5>1. d = [y EXCEPT !.state = "READDATA", !.dataLen = 1]
          BY <4>2, <4>5
        <5>2. /\ d \in Chips /\ d.bits = 0 /\ d.command = \h62 /\ d.state = "READDATA" /\ d.dataLen = 1
              /\ d.byte0 % 2 = 1 /\ d.byte1 = 7 /\ d.byte2 = 1
          BY <4>1, <4>5, <5>1 DEF Chips
        <5>3. TimePending(c, d) = <<>> /\ q.in = 0 /\ Len(q.out) = 1
          BY <4>3, <4>5, <5>2, PlainIs DEF Fetches
        <5>4. QED
          BY <2>8, <5>2, <5>3 DEF Goes, InStep, Taking
      <4>6. CASE q.command = \h63
        <5>1. d = [y EXCEPT !.state = "DATA", !.dataLen = 1, !.data[0] = 64]
          BY <4>2, <4>6
        <5>2. /\ d \in Chips /\ d.bits = 0 /\ d.command = \h63 /\ d.state = "DATA" /\ d.dataLen = 1
              /\ d.byte0 % 2 = 1 /\ d.byte2 = 1 /\ d.data[0] = 64
          <6>1. y.data \in [0 .. 11 -> Nat] /\ y \in Chips
            BY <4>1 DEF Chips
          <6>2. [y.data EXCEPT ![0] = 64] \in [0 .. 11 -> Nat] /\ [y.data EXCEPT ![0] = 64][0] = 64
            BY ONLY <6>1
          <6> DEFINE e == [y.data EXCEPT ![0] = 64]
          <6>3. d = [y EXCEPT !.state = "DATA", !.dataLen = 1, !.data = e]
            BY <5>1, <4>1 DEF Chips
          <6> HIDE DEF e
          <6>4. e \in [0 .. 11 -> Nat] /\ e[0] = 64
            BY <6>2 DEF e
          <6>5. QED
            BY <4>1, <4>6, <6>3, <6>4 DEF Chips
        <5>3. TimePending(c, d) = <<>> /\ q.in = 1 /\ Total(q) = 46
          BY <4>3, <4>6, <5>2, PlainIs DEF Fetches
        <5>4. QED
          BY <2>8, <5>2, <5>3 DEF Goes, InStep, Replying
      <4>7. CASE q.command = \h65
        <5>1. d = [y EXCEPT !.dataLen = 7]
          BY <4>2, <4>7
        <5>2. /\ d \in Chips /\ d.bits = 0 /\ d.command = \h65 /\ d.state = "COMMAND" /\ d.dataLen = 7
              /\ d.byte0 % 2 = 1 /\ d.byte2 = 1 /\ d.data = c.data
          BY <4>1, <4>7, <5>1 DEF Chips
        <5>3. TimePending(c, d) = <<1, 2, 3, 4, 5, 6, 7>> /\ q.in = 7
          BY <4>3, <4>7, <5>2, PlainIs DEF Fetches
        <5>4. QED
          BY <2>8, <5>2, <5>3 DEF Goes, InStep, Fetching
      <4>8. CASE q.command = \h67
        <5>1. d = [y EXCEPT !.dataLen = 3]
          BY <4>2, <4>8
        <5>2. /\ d \in Chips /\ d.bits = 0 /\ d.command = \h67 /\ d.state = "COMMAND" /\ d.dataLen = 3
              /\ d.byte0 % 2 = 1 /\ d.byte2 = 1 /\ d.data = c.data
          BY <4>1, <4>8, <5>1 DEF Chips
        <5>3. TimePending(c, d) = <<5, 6, 7>> /\ q.in = 3
          BY <4>3, <4>8, <5>2, PlainIs DEF Fetches
        <5>4. QED
          BY <2>8, <5>2, <5>3 DEF Goes, InStep, Fetching
      <4>9. QED
        BY <4>4, <4>5, <4>6, <4>7, <4>8, PlainIs
    <3>4. QED
      BY <3>3 DEF d
  <2>9. QED
    BY <1>1, <2>7, <2>8
<1>6. QED
  BY <1>1, <1>4, <1>5

LEMMA TakingStep ==
  ASSUME NEW c \in Chips, NEW q \in Plain, NEW p, Taking(c, q, p)
  PROVE  Goes(c, q, p, Touched(c, AccessOf(q, p + 1)))
<1> DEFINE k == (p - 20) \div 2
           b == BitAt(q.out[1], k)
           a == AccessOf(q, p + 1)
           d == Touched(c, a)
<1>1. /\ q.in = 0 /\ p \in 20 .. 35 /\ c.state = "READDATA" /\ c.byte2 = 1 /\ c.byte1 = 7
      /\ c.dataLen = 1 /\ c.bits = k /\ c.byte0 % 2 = (p + 1) % 2
  BY DEF Taking
<1>2. Len(q.out) = 1 /\ q.out[1] \in Nat /\ SentBy(q) = 36 /\ Total(q) = 37
  <2>1. Len(q.out) = 1 /\ Len(<<>>) = 0
    BY DEF Taking
  <2>2. QED
    BY <1>1, <2>1, PlainIs
<1>3. k \in 0 .. 7 /\ b \in {0, 1}
  <2>1. k \in 0 .. 7
    BY <1>1
  <2> HIDE DEF k
  <2>2. QED
    BY <1>2, <2>1, BitIs
<1>4. a = <<"c4", 5 + 2 * b - ((p + 1) % 2)>>
  <2>1. AccessOf(q, p + 1) = Clocked(BitAt(q.out[1], (((p + 1) - 21) \div 2) % 8), p + 1)
    BY <1>1, <1>2, AccessIs
  <2>2. (((p + 1) - 21) \div 2) % 8 = k
    BY <1>1
  <2> HIDE DEF k
  <2>3. AccessOf(q, p + 1) = <<"c4", 5 + 2 * BitAt(q.out[1], k) - ((p + 1) % 2)>>
    BY ONLY <2>1, <2>2, Zenon DEF Clocked, Write
  <2>4. QED
    BY ONLY <2>3, Zenon
<1>5. CASE p % 2 = 0
  <2>1. d = PortWritten(c, 4 + 2 * b) /\ 4 + 2 * b \in Nat /\ (4 + 2 * b) % 2 = 0
    <3>1. 5 + 2 * b - ((p + 1) % 2) = 4 + 2 * b /\ (4 + 2 * b) % 2 = 0
      BY <1>1, <1>3, <1>5
    <3>2. QED
      BY <1>3, <1>4, <3>1 DEF Touched
  <2> HIDE DEF d, b
  <2>2. d = [c EXCEPT !.byte0 = 4 + 2 * b]
    BY <1>1, <2>1, PlainWrite
  <2>3. /\ d \in Chips /\ d.state = "READDATA" /\ d.byte2 = 1 /\ d.byte1 = 7
        /\ d.dataLen = 1 /\ d.bits = k /\ d.byte0 % 2 = 0
    BY <1>1, <2>1, <2>2 DEF Chips
  <2>4. p + 1 \in 20 .. 35 /\ ((p + 1) - 20) \div 2 = k /\ (p + 1 + 1) % 2 = 0
    BY <1>1, <1>5
  <2>5. Taking(d, q, p + 1)
    BY <1>1, <1>2, <2>3, <2>4 DEF Taking
  <2>6. Goes(c, q, p, d)
    BY <1>1, <2>3, <2>5 DEF Goes, InStep, TimePending
  <2>7. QED
    BY <2>6 DEF d
<1>6. CASE p % 2 = 1
  <2>1. d = PortWritten(c, 5 + 2 * b) /\ 5 + 2 * b \in Nat /\ (5 + 2 * b) % 2 = 1 /\ c.byte0 % 2 = 0
    <3>1. 5 + 2 * b - ((p + 1) % 2) = 5 + 2 * b /\ (5 + 2 * b) % 2 = 1 /\ c.byte0 % 2 = 0
      BY <1>1, <1>3, <1>6
    <3>2. QED
      BY <1>3, <1>4, <3>1 DEF Touched
  <2> DEFINE w == [c EXCEPT !.byte0 = 5 + 2 * b]
             e == [w.data EXCEPT ![0] = (@ \div 2) + 128 * b]
             x == [w EXCEPT !.data = e]
  <2>2. /\ w \in Chips /\ w.state = "READDATA" /\ w.bits = k /\ w.byte1 = 7 /\ w.byte2 = 1
        /\ w.dataLen = 1 /\ w.byte0 % 2 = 1
    BY <1>1, <2>1 DEF Chips
  <2>3. d = ReadDataBit(w, 5 + 2 * b)
    BY <1>1, <2>1, <2>2, RisingWrite DEF Risen
  <2>4. d = Advanced(x)
    <3>1. BitAt(5 + 2 * b, 1) = b /\ BitAt(7, 1) # 0 /\ w.bits \div 8 = 0
      <4>1. BitAt(5 + 2 * b, 1) = b /\ BitAt(7, 1) # 0
        BY <1>3, ClockedBits
      <4>2. w.bits \div 8 = 0
        BY <1>3, <2>2
      <4>3. QED
        BY <4>1, <4>2
    <3> HIDE DEF w, k, b, d
    <3>2. QED
      BY <2>2, <2>3, <3>1 DEF ReadDataBit, Chips
  <2> HIDE DEF d, b, w
  <2>5. e \in [0 .. 11 -> Nat]
    BY <1>3, <2>2 DEF Chips
  <2> HIDE DEF e
  <2>6. /\ x \in Chips /\ x.state = "READDATA" /\ x.bits = k /\ x.byte1 = 7 /\ x.byte2 = 1
        /\ x.dataLen = 1 /\ x.byte0 % 2 = 1
    BY <2>2, <2>5 DEF Chips
  <2> HIDE DEF x
  <2>7. CASE p < 35
    <3>1. k + 1 < 8 /\ ((p + 1) - 20) \div 2 = k + 1 /\ (p + 1 + 1) % 2 = 1 /\ p + 1 \in 20 .. 35
      BY <1>1, <1>6, <2>7
    <3> HIDE DEF k
    <3>2. d = [x EXCEPT !.bits = k + 1]
      BY <1>3, <2>4, <2>6, <3>1 DEF Advanced
    <3>3. /\ d \in Chips /\ d.state = "READDATA" /\ d.byte2 = 1 /\ d.byte1 = 7
          /\ d.dataLen = 1 /\ d.bits = k + 1 /\ d.byte0 % 2 = 1
      BY <1>3, <2>6, <3>2 DEF Chips
    <3>4. Taking(d, q, p + 1)
      BY <1>1, <1>2, <3>1, <3>3 DEF Taking
    <3>5. Goes(c, q, p, d)
      BY <1>1, <3>3, <3>4 DEF Goes, InStep, TimePending
    <3>6. QED
      BY <3>5 DEF d
  <2>8. CASE p = 35
    <3>1. k + 1 = 8
      BY <2>8
    <3>2. d = [x EXCEPT !.bits = 0, !.state = "IDLE"]
      BY <2>4, <2>6, <3>1 DEF Advanced
    <3>3. d \in Chips /\ d.state = "IDLE"
      BY <2>6, <3>2 DEF Chips
    <3>4. Goes(c, q, p, d)
      BY <1>1, <1>2, <2>8, <3>3 DEF Goes, InStep, TimePending, Resting
    <3>5. QED
      BY <3>4 DEF d
  <2>9. QED
    BY <1>1, <2>7, <2>8
<1>7. QED
  BY <1>1, <1>5, <1>6

LEMMA RestingStep ==
  ASSUME NEW c \in Chips, NEW q \in Plain, NEW p, p # Total(q), Resting(c, q, p)
  PROVE  Goes(c, q, p, Touched(c, AccessOf(q, p + 1)))
<1> DEFINE a == AccessOf(q, p + 1)
           d == Touched(c, a)
<1>1. q.in = 0 /\ p = SentBy(q) /\ p \in Nat /\ p + 1 = Total(q) /\ c.state = "IDLE"
  BY PlainIs DEF Resting
<1>2. a = <<"c4", 1>>
  BY <1>1, AccessIs
<1>3. d = PortWritten(c, 1)
  BY <1>2 DEF Touched
<1> HIDE DEF d
<1>4. d = c \/ d = [c EXCEPT !.byte0 = 1]
  <2>1. c.byte0 \in Nat
    BY DEF Chips
  <2>2. CASE BitAt(c.byte2, 0) = 0
    BY <1>3, <2>2 DEF PortWritten
  <2>3. CASE BitAt(c.byte2, 0) # 0 /\ BitAt(c.byte0, 0) = 1
    BY <1>3, <2>3 DEF PortWritten
  <2>4. CASE BitAt(c.byte2, 0) # 0 /\ BitAt(c.byte0, 0) # 1
    BY <1>1, <1>3, <2>4 DEF PortWritten
  <2>5. QED
    BY <2>2, <2>3, <2>4
<1>5. d \in Chips /\ d.state = "IDLE"
  BY <1>1, <1>4 DEF Chips
<1>6. Goes(c, q, p, d)
  BY <1>1, <1>5 DEF Goes, InStep, TimePending, Resting
<1>7. QED
  BY <1>6 DEF d

(* An answer: the lines turned round, then a low clock, a high clock and a *)
(* read for each bit.                                                      *)
LEMMA AnswerAccess ==
  ASSUME NEW q \in Plain, q.in > 0, NEW p \in 20 .. Total(q) - 1
  PROVE  /\ q.in \in {1, 3, 7} /\ SentBy(q) = 20 /\ Total(q) = 22 + 24 * q.in
         /\ p = 20 => AccessOf(q, p + 1) = <<"c6", 5>>
         /\ p = 21 + 24 * q.in => AccessOf(q, p + 1) = <<"c4", 1>>
         /\ p \in 21 .. 20 + 24 * q.in =>
              /\ (p - 21) % 3 = 0 => AccessOf(q, p + 1) = <<"c4", 4>>
              /\ (p - 21) % 3 = 1 => AccessOf(q, p + 1) = <<"c4", 5>>
              /\ (p - 21) % 3 = 2 => AccessOf(q, p + 1) = Read
<1>1. q.in \in {1, 3, 7} /\ SentBy(q) = 20 /\ Total(q) = 22 + 24 * q.in
  BY PlainIs
<1>2. p + 1 \in 1 .. Total(q)
  BY <1>1
<1>3. p = 20 => AccessOf(q, p + 1) = <<"c6", 5>>
  BY <1>1, <1>2, AccessIs
<1>4. p = 21 + 24 * q.in => AccessOf(q, p + 1) = <<"c4", 1>>
  BY <1>1, <1>2, AccessIs
<1>5. ASSUME p \in 21 .. 20 + 24 * q.in
      PROVE  /\ (p - 21) % 3 = 0 => AccessOf(q, p + 1) = <<"c4", 4>>
             /\ (p - 21) % 3 = 1 => AccessOf(q, p + 1) = <<"c4", 5>>
             /\ (p - 21) % 3 = 2 => AccessOf(q, p + 1) = Read
  <2>1. p + 1 \in SentBy(q) + 2 .. Total(q) - 1 /\ (p + 1) - SentBy(q) - 2 = p - 21
    BY <1>1, <1>5
  <2>2. AccessOf(q, p + 1) = IF (p - 21) % 3 = 2 THEN Read ELSE <<"c4", 4 + ((p - 21) % 3)>>
    BY <1>2, <2>1, AccessIs
  <2>3. QED
    BY <2>2
<1>6. QED
  BY <1>1, <1>3, <1>4, <1>5

LEMMA ReplyingStep ==
  ASSUME NEW c \in Chips, NEW q \in Plain, NEW p, Replying(c, q, p),
         p = 20 \/ p = 21 + 24 * q.in \/ (p - 21) % 3 # 2
  PROVE  Goes(c, q, p, Touched(c, AccessOf(q, p + 1)))
<1> DEFINE k == (p - 21) \div 3
           a == AccessOf(q, p + 1)
           d == Touched(c, a)
<1>1. /\ q.in > 0 /\ p \in 20 .. Total(q) - 1 /\ c.byte2 = 1 /\ c.dataLen = q.in
      /\ q.in \in {1, 3, 7} /\ SentBy(q) = 20 /\ Total(q) = 22 + 24 * q.in
  BY AnswerAccess DEF Replying
<1>2. CASE p = 20
  <2>1. a = <<"c6", 5>>
    BY <1>1, <1>2, AnswerAccess
  <2>2. d = [c EXCEPT !.byte1 = 5]
    BY <2>1 DEF Touched
  <2>3. c.state = "DATA" /\ c.bits = 0 /\ c.byte0 % 2 = 1
    BY <1>2 DEF Replying
  <2> HIDE DEF d, a
  <2>4. /\ d \in Chips /\ d.data = c.data /\ d.state = "DATA" /\ d.bits = 0 /\ d.byte0 % 2 = 1
        /\ d.byte1 = 5 /\ d.byte2 = 1 /\ d.dataLen = q.in
    BY <1>1, <2>2, <2>3 DEF Chips
  <2>5. Replying(d, q, p + 1)
    BY <1>1, <1>2, <2>4 DEF Replying
  <2>6. Goes(c, q, p, d)
    BY <1>1, <1>2, <2>3, <2>4, <2>5 DEF Goes, InStep, TimePending
  <2>7. QED
    BY <2>6 DEF d, a
<1>3. CASE p # 20 /\ p # 21 + 24 * q.in /\ (p - 21) % 3 = 0
  <2>1. p \in 21 .. 20 + 24 * q.in /\ k < 8 * q.in /\ k \in Nat
    BY <1>1, <1>3
  <2>2. a = <<"c4", 4>>
    BY <1>1, <1>3, <2>1, AnswerAccess
  <2>3. c.state = "DATA" /\ c.bits = k /\ c.byte1 = 5
    BY <1>1, <1>3, <2>1 DEF Replying
  <2>4. d = PortWritten(c, 4)
    BY <2>2 DEF Touched
  <2> HIDE DEF d, a
  <2>5. d = [c EXCEPT !.byte0 = 4]
    BY <1>1, <2>4, PlainWrite
  <2>6. /\ d \in Chips /\ d.data = c.data /\ d.state = "DATA" /\ d.bits = k /\ d.byte0 % 2 = 0
        /\ d.byte1 = 5 /\ d.byte2 = 1 /\ d.dataLen = q.in
    BY <1>1, <2>3, <2>5 DEF Chips
  <2>7. ((p + 1) - 21) \div 3 = k /\ ((p + 1) - 21) % 3 = 1 /\ p + 1 \in 21 .. Total(q) - 1
    BY <1>1, <1>3, <2>1
  <2> HIDE DEF k
  <2>8. Replying(d, q, p + 1)
    BY <1>1, <2>1, <2>6, <2>7 DEF Replying
  <2>9. Goes(c, q, p, d)
    BY <1>1, <2>1, <2>3, <2>6, <2>8 DEF Goes, InStep, TimePending
  <2>10. QED
    BY <2>9 DEF d, a
<1>4. CASE p # 20 /\ p # 21 + 24 * q.in /\ (p - 21) % 3 = 1
  <2>1. p \in 21 .. 20 + 24 * q.in /\ k < 8 * q.in /\ k \in 0 .. 55
    BY <1>1, <1>4
  <2>2. a = <<"c4", 5>>
    BY <1>1, <1>4, <2>1, AnswerAccess
  <2>3. c.state = "DATA" /\ c.bits = k /\ c.byte1 = 5 /\ c.byte0 % 2 = 0
    BY <1>1, <1>4, <2>1 DEF Replying
  <2>4. d = PortWritten(c, 5)
    BY <2>2 DEF Touched
  <2> DEFINE w == [c EXCEPT !.byte0 = 5]
             b == BitAt(c.data[k \div 8], k % 8)
             x == [w EXCEPT !.byte0 = 5 + 2 * b]
  <2> HIDE DEF d, a
  <2>5. /\ w \in Chips /\ w.data = c.data /\ w.state = "DATA" /\ w.bits = k /\ w.byte0 = 5
        /\ w.byte1 = 5 /\ w.byte2 = 1 /\ w.dataLen = q.in
    BY <1>1, <2>3 DEF Chips
  <2>6. d = DataBit(w)
    <3>1. 5 \in Nat /\ 5 % 2 = 1
      OBVIOUS
    <3>2. PortWritten(c, 5) = Risen(w, 5)
      BY <1>1, <2>3, <3>1, RisingWrite, Zenon
    <3> HIDE DEF w
    <3>3. Risen(w, 5) = DataBit(w)
      BY <2>5 DEF Risen
    <3>4. QED
      BY ONLY <2>4, <3>2, <3>3, Zenon
  <2>7. b \in {0, 1}
    <3>1. k \div 8 \in 0 .. 11 /\ k % 8 \in 0 .. 7
      BY <2>1
    <3> HIDE DEF k
    <3>2. c.data[k \div 8] \in Nat
      BY <3>1 DEF Chips
    <3>3. QED
      BY <3>1, <3>2, BitIs
  <2> HIDE DEF k, b
  <2>8. d = Advanced(x)
    <3>1. BitAt(w.byte1, 1) # 1 /\ 5 - 2 * BitAt(w.byte0, 1) + 2 * b = 5 + 2 * b
      <4>1. BitAt(5, 1) = 0
        BY DEF BitAt
      <4>2. BitAt(w.byte1, 1) = 0 /\ BitAt(w.byte0, 1) = 0
        BY ONLY <2>5, <4>1, Zenon
      <4> HIDE DEF w
      <4>3. QED
        BY <2>7, <4>2
    <3>2. BitAt(w.data[w.bits \div 8], w.bits % 8) = b
      BY ONLY <2>5, Zenon DEF b
    <3> HIDE DEF w
    <3>3. w.byte0 - 2 * BitAt(w.byte0, 1) + 2 * BitAt(w.data[w.bits \div 8], w.bits % 8) = 5 + 2 * b
      BY ONLY <2>5, <3>1, <3>2, Zenon
    <3>4. QED
      BY ONLY <2>6, <3>1, <3>3, Zenon DEF DataBit
  <2> HIDE DEF w
  <2>9. /\ x \in Chips /\ x.data = c.data /\ x.state = "DATA" /\ x.bits = k /\ x.byte0 = 5 + 2 * b
        /\ x.byte1 = 5 /\ x.byte2 = 1 /\ x.dataLen = q.in
    BY <2>5, <2>7 DEF Chips
  <2> HIDE DEF x
  <2>10. BitAt(5 + 2 * b, 1) = b /\ (5 + 2 * b) % 2 = 1
    BY <2>7, ClockedBits
  <2>11. ((p + 1) - 21) \div 3 = k /\ ((p + 1) - 21) % 3 = 2 /\ p + 1 \in 21 .. Total(q) - 1
    BY <1>1, <1>4, <2>1 DEF k
  <2>12. d.byte0 = 5 + 2 * b /\ d.byte1 = 5 /\ d.byte2 = 1 /\ d.dataLen = q.in /\ d.data = c.data
         /\ d \in Chips
         /\ IF k + 1 < 8 * q.in THEN d.state = "DATA" /\ d.bits = k + 1 ELSE d.state = "IDLE"
    <3>1. CASE k + 1 = 8 * q.in
      <4>1. d = [x EXCEPT !.bits = 0, !.state = "IDLE"]
        BY <2>8, <2>9, <3>1 DEF Advanced
      <4>2. ~(k + 1 < 8 * q.in)
        BY <1>1, <3>1
      <4>3. QED
        BY <2>9, <4>1, <4>2 DEF Chips
    <3>2. CASE k + 1 # 8 * q.in
      <4>1. d = [x EXCEPT !.bits = k + 1]
        BY <2>8, <2>9, <3>2 DEF Advanced
      <4>2. k + 1 < 8 * q.in /\ k + 1 \in Nat
        BY <1>1, <2>1, <3>2
      <4>3. QED
        BY <2>9, <4>1, <4>2 DEF Chips
    <3>3. QED
      BY <3>1, <3>2
  <2>13. Replying(d, q, p + 1)
    BY <1>1, <2>10, <2>11, <2>12 DEF Replying, b
  <2>14. Goes(c, q, p, d)
    BY <1>1, <2>1, <2>3, <2>12, <2>13 DEF Goes, InStep, TimePending
  <2>15. QED
    BY <2>14 DEF d, a
<1>5. CASE p = 21 + 24 * q.in
  <2>1. k = 8 * q.in /\ (p - 21) % 3 = 0 /\ p + 1 = Total(q)
    BY <1>1, <1>5
  <2>2. a = <<"c4", 1>>
    BY <1>1, <1>5, AnswerAccess
  <2>3. c.state = "IDLE" /\ c.byte0 % 2 = 1
    BY <1>1, <1>5, <2>1 DEF Replying
  <2>4. d = PortWritten(c, 1)
    BY <2>2 DEF Touched
  <2> HIDE DEF d, a, k
  <2>5. d = [c EXCEPT !.byte0 = 1]
    BY <1>1, <2>3, <2>4, PlainWrite
  <2>6. d \in Chips /\ d.data = c.data /\ d.state = "IDLE"
    BY <2>3, <2>5 DEF Chips
  <2>7. Goes(c, q, p, d)
    BY <1>1, <1>5, <2>1, <2>3, <2>6 DEF Goes, InStep, TimePending, Resting
  <2>8. QED
    BY <2>7 DEF d, a
<1>6. QED
  <2>1. (p - 21) % 3 \in {0, 1, 2}
    BY <1>1
  <2>2. QED
    BY <1>2, <1>3, <1>4, <1>5, <2>1

(* The read of a bit leaves the chip and hears the next of its data.       *)
Reads(c, q, p) == Replying(c, q, p) /\ p # 20 /\ p # 21 + 24 * q.in /\ (p - 21) % 3 = 2
Hears(c, q, p, n) ==
  /\ n \in Nat /\ HeardSoFar(q, p) = n /\ HeardSoFar(q, p + 1) = n + 1
  /\ BitAt(c.byte0, 1) = BitAt(c.data[n \div 8], n % 8)
LEMMA ReadStep ==
  ASSUME NEW c, NEW q \in Plain, NEW p, Reads(c, q, p)
  PROVE  /\ AccessOf(q, p + 1) = Read /\ Replying(c, q, p + 1)
         /\ Hears(c, q, p, HeardSoFar(q, p))
<1> DEFINE k == (p - 21) \div 3
<1>1. /\ q.in > 0 /\ p \in 20 .. Total(q) - 1 /\ c.byte2 = 1 /\ c.dataLen = q.in
      /\ q.in \in {1, 3, 7} /\ SentBy(q) = 20 /\ Total(q) = 22 + 24 * q.in
  BY AnswerAccess DEF Replying, Reads
<1>2. /\ p \in 21 .. 20 + 24 * q.in /\ k \in Nat /\ ((p + 1) - 21) \div 3 = k + 1
      /\ ((p + 1) - 21) % 3 = 0 /\ p + 1 \in 21 .. Total(q) - 1
  BY <1>1 DEF Reads
<1>3. AccessOf(q, p + 1) = Read
  BY <1>1, <1>2, AnswerAccess DEF Reads
<1>4. /\ c.byte1 = 5 /\ c.byte0 % 2 = 1
      /\ IF k + 1 < 8 * q.in THEN c.state = "DATA" /\ c.bits = k + 1 ELSE c.state = "IDLE"
      /\ BitAt(c.byte0, 1) = BitAt(c.data[k \div 8], k % 8)
  BY <1>1, <1>2 DEF Replying, Reads
<1>5. Replying(c, q, p + 1)
  BY <1>1, <1>2, <1>4 DEF Replying
<1>6. HeardSoFar(q, p) = k /\ HeardSoFar(q, p + 1) = k + 1
  BY <1>1, <1>2 DEF HeardSoFar
<1> HIDE DEF k
<1>7. Hears(c, q, p, k)
  BY <1>2, <1>4, <1>6 DEF Hears
<1>8. QED
  BY <1>3, <1>5, <1>6, <1>7

LEMMA WriteStep ==
  ASSUME NEW c \in Chips, NEW q \in Plain, NEW p \in 0 .. Total(q) - 1,
         InStep(c, q, p, <<>>), AccessOf(q, p + 1) # Read
  PROVE  Goes(c, q, p, Touched(c, AccessOf(q, p + 1)))
<1>1. ~Fetching(c, q, p, <<>>)
  BY DEF Fetching
<1>2. Total(q) \in Nat
  BY PlainIs
<1>3. CASE Opening(c, p)
  BY <1>3, OpeningStep
<1>4. CASE Commanding(c, q, p)
  BY <1>4, CommandStep
<1>5. CASE Taking(c, q, p)
  BY <1>5, TakingStep
<1>6. CASE Replying(c, q, p)
  <2>1. p = 20 \/ p = 21 + 24 * q.in \/ (p - 21) % 3 # 2
    BY <1>6, ReadStep DEF Reads
  <2>2. QED
    BY <1>6, <2>1, ReplyingStep
<1>7. CASE Resting(c, q, p)
  BY <1>2, <1>7, RestingStep
<1>8. QED
  BY <1>1, <1>3, <1>4, <1>5, <1>6, <1>7 DEF InStep

(* What has been heard stands as long as the data does.                    *)
LEMMA HeardStays ==
  ASSUME NEW c, NEW d, NEW q \in Plain, NEW p \in 0 .. Total(q) - 1,
         AccessOf(q, p + 1) # Read, Goes(c, q, p, d)
  PROVE  /\ HeardSoFar(q, p) \in Nat /\ HeardSoFar(q, p + 1) = HeardSoFar(q, p)
         /\ HeardSoFar(q, p) > 0 => d.data = c.data
<1>1. CASE q.in = 0 \/ p < 20
  BY <1>1, PlainIs DEF HeardSoFar
<1>2. CASE q.in > 0 /\ p \in 20 .. Total(q) - 1
  <2>1. /\ q.in \in {1, 3, 7} /\ Total(q) = 22 + 24 * q.in
        /\ p = 20 \/ p = 21 + 24 * q.in \/ (p - 21) % 3 \in {0, 1}
    <3>1. q.in \in {1, 3, 7} /\ Total(q) = 22 + 24 * q.in
      BY <1>2, AnswerAccess
    <3>2. CASE p \in 21 .. 20 + 24 * q.in
      <4>1. (p - 21) % 3 # 2
        BY <1>2, <3>2, AnswerAccess
      <4>2. QED
        BY <3>1, <3>2, <4>1
    <3>3. QED
      BY <1>2, <3>1, <3>2
  <2>2. HeardSoFar(q, p) \in Nat /\ HeardSoFar(q, p + 1) = HeardSoFar(q, p)
    <3>1. CASE p = 20
      BY <2>1, <3>1 DEF HeardSoFar
    <3>2. CASE p = 21 + 24 * q.in
      BY <2>1, <3>2 DEF HeardSoFar
    <3>3. CASE p # 20 /\ p # 21 + 24 * q.in /\ (p - 21) % 3 \in {0, 1}
      <4>1. p \in 21 .. 20 + 24 * q.in /\ ((p + 1) - 21) \div 3 = (p - 21) \div 3 /\ (p - 21) \div 3 \in Nat
        BY <1>2, <2>1, <3>3
      <4>2. QED
        BY <2>1, <4>1 DEF HeardSoFar
    <3>4. QED
      BY <2>1, <3>1, <3>2, <3>3
  <2>3. d.data = c.data
    BY <1>2 DEF Goes
  <2>4. QED
    BY <2>2, <2>3
<1>3. q.in \in Nat
  BY PlainIs
<1>4. QED
  BY <1>1, <1>2, <1>3

LEMMA StillHeard ==
  ASSUME NEW c, NEW d, NEW q, NEW p, NEW r, NEW h, BitsHeard(c, q, p, h),
         HeardSoFar(q, p) \in Nat, HeardSoFar(q, r) = HeardSoFar(q, p),
         HeardSoFar(q, p) > 0 => d.data = c.data
  PROVE  BitsHeard(d, q, r, h)
<1>1. CASE HeardSoFar(q, p) > 0
  BY <1>1 DEF BitsHeard
<1>2. CASE HeardSoFar(q, p) = 0
  BY <1>2 DEF BitsHeard
<1>3. QED
  BY <1>1, <1>2

-----------------------------------------------------------------------------
LEMMA OneMore ==
  ASSUME NEW n \in Nat, NEW h, h = [m \in 1 .. n |-> h[m]], NEW e
  PROVE  Append(h, e) = [m \in 1 .. n + 1 |-> IF m = n + 1 THEN e ELSE h[m]]
<1> DEFINE S == {h[m] : m \in 1 .. n} \cup {e}
<1>1. h \in [1 .. n -> S]
  OBVIOUS
<1> HIDE DEF S
<1>2. h \in Seq(S) /\ Len(h) = n
  BY <1>1
<1>3. QED
  BY <1>1, <1>2

(* An access of the game.                                                  *)
LEMMA AccessStep ==
  ASSUME RtcInv, Access
  PROVE  RtcInv'
<1> DEFINE c == rtcClockData
           d == rtcClockData'
           q == asked
           p == done
           a == AccessOf(q, p + 1)
<1>1. /\ p < Total(q) /\ fetching = <<>> /\ done' = p + 1 /\ asked' = q
      /\ UNCHANGED <<clockdata, mailBusy, copied, shown, since, overlapped, setByGame>>
      /\ IF a = Read
           THEN heard' = Append(heard, BitAt(rtcRead, 1)) /\ UNCHANGED <<rtcClockData, fetching>>
           ELSE rtcWrite(a[1], a[2]) /\ UNCHANGED heard
  BY DEF Access
<1>2. Copying' /\ since' \in 1 .. shown'
  BY <1>1 DEF RtcInv, Copying
<1>3. ASSUME ~setByGame
      PROVE  /\ asked' \in Plain /\ done' \in 0 .. Total(asked)'
             /\ rtcClockData' \in Chips
             /\ InStep(rtcClockData', asked', done', fetching')
             /\ BitsHeard(rtcClockData', asked', done', heard')
             /\ asked'.in = 1 /\ done' >= 20 => rtcClockData'.data[0] = 64
             /\ asked'.in > 1 /\ done' >= 20 => Fetched(rtcClockData, asked, done, fetching)'
             /\ done' < 20 => ~overlapped'
  <2>1. /\ q \in Plain /\ p \in 0 .. Total(q) - 1 /\ Total(q) \in Nat
        /\ c \in Chips /\ InStep(c, q, p, <<>>) /\ BitsHeard(c, q, p, heard)
        /\ q.in = 1 /\ p >= 20 => c.data[0] = 64
        /\ q.in > 1 /\ p >= 20 => Fetched(c, q, p, <<>>)
        /\ p < 20 => ~overlapped
    <3>1. p # Total(q)
      <4>1. Total(NoRequest) = 21
        BY DEF Total, SentBy, NoRequest
      <4>2. QED
        BY <1>1, <1>3, <4>1, PlainIs DEF RtcInv
    <3>2. q \in Plain
      BY <1>3, <3>1 DEF RtcInv
    <3>3. Total(q) \in Nat
      BY <3>2, PlainIs
    <3>4. QED
      BY <1>1, <1>3, <3>1, <3>2, <3>3 DEF RtcInv
  <2>2. done' \in 0 .. Total(asked)' /\ asked' \in Plain /\ (done' < 20 => ~overlapped')
    BY <1>1, <2>1
  <2>3. CASE a = Read
    <3>1. /\ d = c /\ fetching' = <<>> /\ heard' = Append(heard, BitAt(c.byte0, 1))
      BY <1>1, <2>3 DEF rtcRead
    <3>2. Reads(c, q, p)
      <4>1. \A x : a # <<"c4", x>> /\ a # <<"c6", x>> /\ a # <<"c8", x>>
        BY <2>3 DEF Read
      <4>2. p \notin 0 .. 3
        <5>1. p \in 0 .. 3 => a = Select[p + 1]
          BY <2>1, AccessIs
        <5>2. QED
          BY <4>1, <5>1 DEF Select, Write
      <4>3. p \notin 4 .. 19
        <5>1. p \in 4 .. 19 => p + 1 \in 5 .. 20
          OBVIOUS
        <5>2. p \in 4 .. 19 => a = Clocked(BitAt(q.command, 7 - (((p + 1) - 5) \div 2)), p + 1)
          BY <2>1, <5>1, CommandAccess
        <5>3. QED
          BY <4>1, <5>2 DEF Clocked, Write
      <4>4. q.in # 0
        <5>1. CASE q.in = 0 /\ p \in 20 .. SentBy(q) - 1
          <6>1. p + 1 \in 21 .. SentBy(q) /\ p + 1 \in 1 .. Total(q)
            BY <2>1, <5>1, PlainIs
          <6>2. a = Clocked(BitAt(q.out[1], (((p + 1) - 21) \div 2) % 8), p + 1)
            BY <2>1, <6>1, AccessIs
          <6>3. QED
            BY <4>1, <6>2 DEF Clocked, Write
        <5>2. CASE q.in = 0 /\ p = SentBy(q)
          <6>1. p + 1 = Total(q) /\ p + 1 \in 1 .. Total(q)
            BY <2>1, <5>2, PlainIs
          <6>2. a = <<"c4", 1>>
            BY <2>1, <6>1, AccessIs
          <6>3. QED
            BY <4>1, <6>2
        <5>3. q.in = 0 => p \in 20 .. SentBy(q)
          <6>1. q.in = 0 => SentBy(q) \in Nat /\ Total(q) = SentBy(q) + 1
            BY <2>1, PlainIs
          <6>2. p \in 0 .. Total(q) - 1
            BY <2>1
          <6> HIDE DEF p, q
          <6>3. QED
            BY ONLY <4>2, <4>3, <6>1, <6>2
        <5>4. q.in = 0 => SentBy(q) \in Nat
          BY <2>1, PlainIs
        <5>5. QED
          BY <5>1, <5>2, <5>3, <5>4
      <4>5. q.in > 0 /\ p \in 20 .. Total(q) - 1
        BY <2>1, <4>2, <4>3, <4>4, PlainIs
      <4>6. p # 20 /\ p # 21 + 24 * q.in /\ (p - 21) % 3 = 2
        <5>1. p # 20 /\ p # 21 + 24 * q.in
          BY <2>1, <4>1, <4>5, AnswerAccess
        <5>2. p \in 21 .. 20 + 24 * q.in /\ Total(q) = 22 + 24 * q.in /\ q.in \in {1, 3, 7}
          BY <2>1, <4>5, <5>1, AnswerAccess
        <5>3. (p - 21) % 3 # 0 /\ (p - 21) % 3 # 1
          BY <2>1, <4>1, <4>5, <5>2, AnswerAccess
        <5>4. QED
          BY <5>1, <5>2, <5>3
      <4>7. ~Opening(c, p) /\ ~Commanding(c, q, p) /\ ~Taking(c, q, p) /\ ~Resting(c, q, p)
        BY <2>1, <4>2, <4>3, <4>4 DEF Opening, Commanding, Taking, Resting
      <4>8. QED
        BY <2>1, <4>6, <4>7 DEF InStep, Fetching, Reads
    <3> DEFINE n == HeardSoFar(q, p)
    <3>3. /\ Replying(c, q, p + 1) /\ n \in Nat /\ HeardSoFar(q, p + 1) = n + 1
          /\ BitAt(c.byte0, 1) = BitAt(c.data[n \div 8], n % 8)
      <4>1. Replying(c, q, p + 1) /\ Hears(c, q, p, n)
        BY <2>1, <3>2, ReadStep, Zenon
      <4> HIDE DEF n
      <4>2. QED
        BY <4>1 DEF Hears
    <3> HIDE DEF n
    <3>4. BitsHeard(c, q, p + 1, heard')
      <4>1. heard = [m \in 1 .. n |-> BitAt(c.data[(m - 1) \div 8], (m - 1) % 8)]
        BY <2>1 DEF BitsHeard, n
      <4>2. heard = [m \in 1 .. n |-> heard[m]]
        BY <4>1
      <4>3. heard' = [m \in 1 .. n + 1 |-> IF m = n + 1 THEN BitAt(c.byte0, 1) ELSE heard[m]]
        BY <3>1, <3>3, <4>2, OneMore
      <4>4. heard' = [m \in 1 .. n + 1 |-> BitAt(c.data[(m - 1) \div 8], (m - 1) % 8)]
        <5>1. \A m \in 1 .. n : heard[m] = BitAt(c.data[(m - 1) \div 8], (m - 1) % 8)
          BY <4>1
        <5>2. BitAt(c.byte0, 1) = BitAt(c.data[((n + 1) - 1) \div 8], ((n + 1) - 1) % 8)
          BY <3>3
        <5>3. \A m \in 1 .. n + 1 : m = n + 1 \/ m \in 1 .. n
          BY <3>3
        <5>4. \A m \in 1 .. n + 1 : (IF m = n + 1 THEN BitAt(c.byte0, 1) ELSE heard[m])
                                       = BitAt(c.data[(m - 1) \div 8], (m - 1) % 8)
          BY ONLY <5>1, <5>2, <5>3, Zenon
        <5>5. QED
          BY ONLY <4>3, <5>4, Zenon
      <4>5. QED
        BY <3>3, <4>4 DEF BitsHeard
    <3>5. p >= 20 /\ (q.in > 1 => Fetched(c, q, p + 1, <<>>))
      <4>1. p >= 20
        BY <3>2 DEF Replying, Reads
      <4>2. QED
        BY <2>1, <4>1 DEF Fetched
    <3>6. Fetched(c, q, p + 1, <<>>) => Fetched(rtcClockData, asked, done, fetching)'
      BY <1>1, <3>1 DEF Fetched, Shows, FieldAt
    <3>7. QED
      BY <1>1, <2>1, <2>2, <3>1, <3>3, <3>4, <3>5, <3>6 DEF InStep
  <2>4. CASE a # Read
    <3>1. d = Touched(c, a) /\ fetching' = TimePending(c, d) /\ heard' = heard
      BY <1>1, <2>4 DEF rtcWrite, Touched, TimePending
    <3>2. Goes(c, q, p, d)
      BY <2>1, <2>4, <3>1, WriteStep
    <3>3. d \in Chips /\ InStep(d, q, p + 1, fetching')
      BY <3>1, <3>2 DEF Goes
    <3>4. /\ HeardSoFar(q, p) \in Nat /\ HeardSoFar(q, p + 1) = HeardSoFar(q, p)
          /\ HeardSoFar(q, p) > 0 => d.data = c.data
      BY <2>1, <2>4, <3>2, HeardStays
    <3>5. BitsHeard(d, q, p + 1, heard)
      BY <2>1, <3>4, StillHeard
    <3>6. q.in = 1 /\ p + 1 >= 20 => d.data[0] = 64
      BY <2>1, <3>2 DEF Goes
    <3>7. q.in > 1 /\ p + 1 >= 20 => Fetched(rtcClockData, asked, done, fetching)'
      <4>1. CASE q.in > 1 /\ p = 19
        <5>1. Len(fetching') = q.in /\ q.in \in {3, 7}
          BY <2>1, <3>1, <3>2, <4>1, PlainIs DEF Goes
        <5>2. fetching' # <<>>
          BY <5>1
        <5>3. 0 .. asked'.in - Len(fetching') - 1 = {}
          BY <1>1, <5>1
        <5>4. QED
          BY <1>1, <5>1, <5>2, <5>3 DEF Fetched
      <4>2. CASE q.in > 1 /\ p >= 20
        <5>1. d.data = c.data /\ Fetched(c, q, p, <<>>)
          <6>1. p \in Int /\ q.in \in Nat
            BY <2>1, PlainIs
          <6>2. q.in > 0 /\ p # 19
            BY <4>2, <6>1
          <6>3. d.data = c.data
            BY ONLY <3>2, <6>2 DEF Goes
          <6>4. QED
            BY <2>1, <4>2, <6>3
        <5>2. fetching' = <<>>
          <6>1. p + 1 # 20
            BY <2>1, <4>2
          <6>2. QED
            BY <3>3, <6>1 DEF InStep, Fetching
        <5>3. QED
          BY <1>1, <5>1, <5>2 DEF Fetched, Shows, FieldAt
      <4>3. QED
        BY <2>1, <4>1, <4>2
    <3>8. QED
      BY <1>1, <2>2, <3>1, <3>3, <3>5, <3>6, <3>7
  <2>5. QED
    BY <2>3, <2>4
<1>4. QED
  BY <1>1, <1>2, <1>3 DEF RtcInv

LEMMA RunTail ==
  ASSUME NEW n \in 1 .. 7, NEW f, f = [i \in 1 .. n |-> 7 - n + i]
  PROVE  /\ Head(f) = 8 - n /\ Len(Tail(f)) = n - 1 /\ Tail(f) \in Seq(Int)
         /\ Tail(f) = [i \in 1 .. n - 1 |-> 7 - (n - 1) + i]
<1>1. f \in [1 .. n -> Int]
  OBVIOUS
<1>2. f \in Seq(Int) /\ Len(f) = n /\ f # <<>>
  BY <1>1
<1>3. Head(f) = 8 - n
  BY <1>2
<1>4. Tail(f) = [i \in 1 .. n - 1 |-> f[i + 1]] /\ Len(Tail(f)) = n - 1 /\ Tail(f) \in Seq(Int)
  <2>1. Tail(f) \in Seq(Int) /\ Len(Tail(f)) = n - 1 /\ \A i \in 1 .. n - 1 : Tail(f)[i] = f[i + 1]
    BY <1>2, HeadTailProperties
  <2>2. Tail(f) = [i \in 1 .. n - 1 |-> Tail(f)[i]]
    BY <2>1
  <2>3. QED
    BY ONLY <2>1, <2>2, Zenon
<1>5. \A i \in 1 .. n - 1 : f[i + 1] = 7 - (n - 1) + i
  OBVIOUS
<1>6. QED
  BY ONLY <1>3, <1>4, <1>5, Zenon

(* The handler reads one byte of the time.                                 *)
LEMMA FetchStep ==
  ASSUME RtcInv, FetchByte
  PROVE  RtcInv'
<1> DEFINE c == rtcClockData
           d == rtcClockData'
           q == asked
           n == Len(fetching)
           place == q.in - n
           field == 8 - n
           v == toBCD(clockdata[field])
<1>1. /\ fetching # <<>> /\ fetching' = Tail(fetching) /\ overlapped' = (overlapped \/ mailBusy = 1)
      /\ d = [c EXCEPT !.data[c.dataLen - n] = toBCD(clockdata[Head(fetching)]),
                       !.state = IF n = 1 THEN "DATA" ELSE @]
      /\ UNCHANGED <<clockdata, mailBusy, copied, shown, asked, done, heard, since, setByGame>>
  BY DEF FetchByte
<1>5. /\ shown \in 1 .. Len(Times) /\ Len(Times) \in Nat /\ DOMAIN Times = 1 .. Len(Times)
      /\ since \in 1 .. shown /\ copied \in 0 .. 7 /\ mailBusy \in {0, 1}
      /\ mailBusy = 0 => copied = 0
      /\ mailBusy = 1 => shown < Len(Times)
      /\ clockdata = [f \in 1 .. 7 |-> Times[IF f <= copied THEN shown + 1 ELSE shown][f]]
  BY RtcAssumption DEF RtcInv, Copying
<1>2. Copying' /\ since' \in 1 .. shown'
  BY <1>1 DEF RtcInv, Copying
<1>3. ASSUME ~setByGame
      PROVE  /\ asked' \in Plain /\ done' \in 0 .. Total(asked)'
             /\ rtcClockData' \in Chips
             /\ InStep(rtcClockData', asked', done', fetching')
             /\ BitsHeard(rtcClockData', asked', done', heard')
             /\ asked'.in = 1 /\ done' >= 20 => rtcClockData'.data[0] = 64
             /\ asked'.in > 1 /\ done' >= 20 => Fetched(rtcClockData, asked, done, fetching)'
             /\ done' < 20 => ~overlapped'
  <2>1. /\ Fetching(c, q, done, fetching) /\ c \in Chips /\ done \in 0 .. Total(q)
        /\ BitsHeard(c, q, done, heard)
        /\ q.in > 1 /\ done >= 20 => Fetched(c, q, done, fetching)
    BY <1>1, <1>3 DEF RtcInv, InStep
  <2>2. /\ done = 20 /\ c.state = "COMMAND" /\ c.byte2 = 1 /\ c.byte0 % 2 = 1
        /\ c.bits = 0 /\ c.dataLen = q.in /\ q.in \in {3, 7}
        /\ n \in 1 .. q.in /\ fetching = [i \in 1 .. n |-> 7 - n + i]
    BY <2>1 DEF Fetching
  <2>3. q \in Plain
    BY <1>3, <2>2 DEF RtcInv, NoRequest
  <2>4. /\ Head(fetching) = field /\ Len(Tail(fetching)) = n - 1
        /\ Tail(fetching) = [i \in 1 .. n - 1 |-> 7 - (n - 1) + i]
    <3> HIDE DEF n, c, d, q
    <3>1. n \in 1 .. 7
      BY ONLY <2>2
    <3>2. QED
      BY <2>2, <3>1, RunTail
  <2> HIDE DEF n
  <2>5. clockdata[field] = Times[IF field <= copied THEN shown + 1 ELSE shown][field]
    <3>1. field \in 1 .. 7
      BY <2>2
    <3> HIDE DEF field
    <3>2. QED
      BY <1>5, <3>1
  <2>6. v \in Nat
    <3>1. clockdata[field] \in 0 .. 99
      <4>1. field \in 1 .. 7
        BY <2>2
      <4>2. (IF field <= copied THEN shown + 1 ELSE shown) \in 1 .. Len(Times)
        BY <1>5, <4>1
      <4> HIDE DEF field
      <4>3. Times[IF field <= copied THEN shown + 1 ELSE shown] \in [1 .. 7 -> 0 .. 99]
        BY <4>2, RtcAssumption
      <4>4. QED
        BY <2>5, <4>1, <4>3
    <3> HIDE DEF field
    <3>2. toBCD(clockdata[field]) \in 0 .. 255
      BY ONLY <3>1, TimeIs
    <3>3. QED
      BY ONLY <3>2
  <2> HIDE DEF v
  <2> DEFINE e == [c.data EXCEPT ![place] = v]
             s == IF n = 1 THEN "DATA" ELSE "COMMAND"
  <2>7. d = [c EXCEPT !.data = e, !.state = s]
    <3>1. c.dataLen - n = place /\ toBCD(clockdata[Head(fetching)]) = v
      BY <2>2, <2>4 DEF v
    <3>2. c.state = "COMMAND"
      BY <2>2
    <3> HIDE DEF place
    <3>3. QED
      BY <1>1, <2>1, <3>1, <3>2 DEF Chips
  <2>8. e \in [0 .. 11 -> Nat] /\ e[place] = v /\ \A i \in 0 .. 11 : i # place => e[i] = c.data[i]
    <3>1. c.data \in [0 .. 11 -> Nat]
      BY <2>1 DEF Chips
    <3>2. place \in 0 .. 11
      <4>1. n \in 1 .. q.in /\ (q.in = 3 \/ q.in = 7)
        BY ONLY <2>2, Zenon
      <4>2. QED
        BY ONLY <4>1
    <3> HIDE DEF place, c
    <3>3. QED
      BY ONLY <2>6, <3>1, <3>2
  <2> HIDE DEF e
  <2>9. /\ d \in Chips /\ d.data = e /\ d.state = s /\ d.byte2 = 1 /\ d.byte0 % 2 = 1
        /\ d.bits = 0 /\ d.dataLen = q.in
    BY <2>1, <2>2, <2>7, <2>8 DEF Chips
  <2>10. InStep(d, q, 20, fetching')
    <3>1. CASE n = 1
      <4>1. fetching' = <<>>
        BY <1>1, <2>4, <3>1
      <4>2. Replying(d, q, 20)
        <5>1. Total(q) - 1 >= 20 /\ Total(q) \in Nat
          BY <2>3, PlainIs
        <5>2. QED
          BY <2>2, <2>9, <3>1, <5>1 DEF Replying
      <4>3. QED
        BY <4>1, <4>2 DEF InStep
    <3>2. CASE n # 1
      <4>1. Len(fetching') = n - 1 /\ n - 1 \in 1 .. q.in
        <5>1. n - 1 \in 1 .. q.in
          BY <2>2, <3>2
        <5>2. QED
          BY <1>1, <2>4, <5>1
      <4>2. fetching' = [i \in 1 .. Len(fetching') |-> 7 - Len(fetching') + i]
        BY <1>1, <2>4, <4>1
      <4>3. Fetching(d, q, 20, fetching')
        BY <2>2, <2>9, <3>2, <4>1, <4>2 DEF Fetching
      <4>4. QED
        BY <4>3 DEF InStep
    <3>3. QED
      BY <3>1, <3>2
  <2>11. BitsHeard(d, q, 20, heard)
    <3>1. HeardSoFar(q, 20) = 0
      BY <2>2 DEF HeardSoFar
    <3>2. BitsHeard(c, q, 20, heard)
      BY <2>1, <2>2
    <3>3. QED
      BY <3>1, <3>2, StillHeard
  <2>12. Fetched(rtcClockData, asked, done, fetching)'
    <3>1. Fetched(c, q, 20, fetching)
      BY <2>1, <2>2
    <3>2. FieldAt(q, place) = field /\ place \in 0 .. 11 /\ field \in 1 .. 7
      <4>1. n \in Int /\ q.in \in {3, 7} /\ n >= 1 /\ n <= q.in
        BY <2>2
      <4>2. QED
        BY ONLY <4>1 DEF FieldAt
    <3>3. Len(fetching') = n - 1
      BY <1>1, <2>4
    <3>4. \A i \in 0 .. q.in - (n - 1) - 1 : i = place \/ (i # place /\ i \in 0 .. 11 /\ i \in 0 .. q.in - n - 1)
      BY <2>2
    <3>5. \A t \in Int : Shows(d, q, place, t) <=> v = toBCD(Times[t][field])
      BY <2>8, <2>9, <3>2 DEF Shows
    <3>6. \A i \in 0 .. q.in - n - 1, t \in Int : Shows(d, q, i, t) <=> Shows(c, q, i, t)
      <4>1. \A i \in 0 .. q.in - n - 1 : i # place /\ i \in 0 .. 11
        BY <2>2
      <4>2. QED
        BY <2>8, <2>9, <4>1 DEF Shows
    <3>7. \E t \in since .. shown + 1 : t \in DOMAIN Times /\ Shows(d, q, place, t)
      <4> DEFINE t == IF field <= copied THEN shown + 1 ELSE shown
      <4>1. t \in since .. shown + 1 /\ t \in 1 .. Len(Times)
        BY <1>5, <3>2
      <4>2. v = toBCD(Times[t][field])
        BY <2>5 DEF v
      <4>3. DOMAIN Times = 1 .. Len(Times)
        BY <1>5
      <4> HIDE DEF t
      <4>4. t \in Int
        BY <4>1
      <4>5. Shows(d, q, place, t)
        BY <3>5, <4>2, <4>4
      <4>6. QED
        BY <4>1, <4>3, <4>5
    <3>8. \A i \in 0 .. q.in - (n - 1) - 1 :
             \E t \in since .. shown + 1 : t \in DOMAIN Times /\ Shows(d, q, i, t)
      <4>1. \A i \in 0 .. q.in - n - 1 :
               \E t \in since .. shown + 1 : t \in DOMAIN Times /\ Shows(c, q, i, t)
        BY <3>1 DEF Fetched, n
      <4>2. \A t \in since .. shown + 1 : t \in Int
        OBVIOUS
      <4>3. \A i \in 0 .. q.in - n - 1 :
               \E t \in since .. shown + 1 : t \in DOMAIN Times /\ Shows(d, q, i, t)
        BY ONLY <3>6, <4>1, <4>2, Zenon
      <4>4. QED
        BY ONLY <3>4, <3>7, <4>3, Zenon
    <3>9. ASSUME ~overlapped'
          PROVE  mailBusy = 0 /\ shown \in Int /\ \A i \in 0 .. q.in - (n - 1) - 1 : Shows(d, q, i, shown)
      <4>1. mailBusy = 0 /\ copied = 0 /\ ~overlapped /\ shown \in Int
        <5>1. ~(overlapped \/ mailBusy = 1)
          BY ONLY <1>1, <3>9, Zenon
        <5>2. QED
          BY <1>5, <5>1
      <4>2. Shows(d, q, place, shown)
        <5>1. v = toBCD(Times[shown][field])
          BY <2>5, <3>2, <4>1 DEF v
        <5>2. QED
          BY <3>5, <4>1, <5>1
      <4>3. \A i \in 0 .. q.in - n - 1 : Shows(c, q, i, shown)
        BY <1>1, <3>1, <4>1 DEF Fetched, n
      <4>4. \A i \in 0 .. q.in - n - 1 : Shows(d, q, i, shown)
        BY ONLY <3>6, <4>1, <4>3, Zenon
      <4>5. QED
        BY ONLY <3>4, <4>1, <4>2, <4>4, Zenon
    <3>10. n - 1 = 0 <=> fetching' = <<>>
      <4>1. fetching' \in Seq(Int)
        <5>1. n \in 1 .. 7
          BY <2>2
        <5>2. QED
          BY <1>1, <2>2, <5>1, RunTail
      <4>2. n \in Nat
        BY <2>2
      <4>3. QED
        BY <3>3, <4>1, <4>2
    <3>11. shown \in since .. shown
      BY <1>5
    <3>12. q.in - (n - 1) - 1 = IF fetching' = <<>> THEN q.in - 1 ELSE q.in - Len(fetching') - 1
      BY <2>2, <3>3, <3>10
    <3>13. q.in - (n - 1) - 1 = q.in - Len(fetching') - 1
      BY <2>2, <3>3
    <3> HIDE DEF d
    <3>14. \A i \in 0 .. q.in - Len(fetching') - 1 :
             \E t \in since .. shown + 1 : t \in DOMAIN Times /\ Shows(d, q, i, t)
      BY ONLY <3>8, <3>13, Zenon
    <3>15. ASSUME ~overlapped'
           PROVE  IF fetching' # <<>>
                    THEN /\ Len(fetching') < q.in => mailBusy = 0
                         /\ \A i \in 0 .. q.in - Len(fetching') - 1 : Shows(d, q, i, shown)
                    ELSE \E t \in since .. shown : \A i \in 0 .. q.in - 1 : Shows(d, q, i, t)
      <4>1. CASE fetching' # <<>>
        BY ONLY <3>9, <3>13, <3>15, <4>1, Zenon
      <4>2. CASE fetching' = <<>>
        <5>1. \A i \in 0 .. q.in - 1 : Shows(d, q, i, shown)
          BY ONLY <3>9, <3>12, <3>15, <4>2
        <5>2. QED
          BY ONLY <3>11, <4>2, <5>1, Zenon
      <4>3. QED
        BY <4>1, <4>2
    <3>16. QED
      BY <1>1, <3>14, <3>15 DEF Fetched, d, Shows, FieldAt
  <2>13. QED
    BY <1>1, <2>1, <2>2, <2>3, <2>9, <2>10, <2>11, <2>12
<1>4. QED
  BY <1>1, <1>2, <1>3 DEF RtcInv

(* The ARM7 copies while the handler reads, or at any other time.          *)
LEMMA CopyStep ==
  ASSUME RtcInv, Arm7Copies
  PROVE  RtcInv'
<1>1. /\ BeginCopy \/ CopyByte \/ EndCopy
      /\ overlapped' = (overlapped \/ fetching # <<>>)
      /\ UNCHANGED <<rtcClockData, fetching, asked, done, heard, since, setByGame>>
  BY DEF Arm7Copies
<1>2. /\ shown \in 1 .. Len(Times) /\ Len(Times) \in Nat
      /\ since \in 1 .. shown /\ copied \in 0 .. 7 /\ mailBusy \in {0, 1}
      /\ mailBusy = 0 => copied = 0
      /\ mailBusy = 1 => shown < Len(Times)
      /\ clockdata = [f \in 1 .. 7 |-> Times[IF f <= copied THEN shown + 1 ELSE shown][f]]
  BY RtcAssumption DEF RtcInv, Copying
<1>3. Copying' /\ shown' \in {shown, shown + 1} /\ (mailBusy' = 0 \/ mailBusy' = 1)
  <2>1. CASE BeginCopy
    <3>1. mailBusy' = 1 /\ copied' = 0 /\ clockdata' = clockdata /\ shown' = shown /\ shown < Len(Times)
      BY <2>1 DEF BeginCopy
    <3>2. \A f \in 1 .. 7 : ~(f <= 0)
      OBVIOUS
    <3>3. copied = 0
      BY <1>2, <2>1 DEF BeginCopy
    <3>4. QED
      BY <1>2, <3>1, <3>3 DEF Copying
  <2>2. CASE CopyByte
    <3>1. /\ mailBusy = 1 /\ copied \in 0 .. 6 /\ copied' = copied + 1 /\ mailBusy' = mailBusy /\ shown' = shown
          /\ clockdata' = [clockdata EXCEPT ![copied + 1] = Times[shown + 1][copied + 1]]
      BY <1>2, <2>2 DEF CopyByte
    <3>2. clockdata' = [f \in 1 .. 7 |-> IF f = copied + 1 THEN Times[shown + 1][copied + 1] ELSE clockdata[f]]
      BY <1>2, <3>1
    <3>3. \A f \in 1 .. 7 : clockdata[f] = Times[IF f <= copied THEN shown + 1 ELSE shown][f]
      BY <1>2
    <3>4. \A f \in 1 .. 7 : IF f = copied + 1 THEN f <= copied + 1
                            ELSE f <= copied + 1 <=> f <= copied
      BY <1>2
    <3>5. \A f \in 1 .. 7 : (IF f = copied + 1 THEN Times[shown + 1][copied + 1] ELSE clockdata[f])
                               = Times[IF f <= copied + 1 THEN shown + 1 ELSE shown][f]
      <4> SUFFICES ASSUME NEW f \in 1 .. 7
                   PROVE  (IF f = copied + 1 THEN Times[shown + 1][copied + 1] ELSE clockdata[f])
                            = Times[IF f <= copied + 1 THEN shown + 1 ELSE shown][f]
        OBVIOUS
      <4>1. CASE f = copied + 1
        BY <3>4, <4>1
      <4>2. CASE f # copied + 1
        <5>1. f <= copied + 1 <=> f <= copied
          BY <3>4, <4>2
        <5>2. QED
          BY ONLY <3>3, <4>2, <5>1, f \in 1 .. 7
      <4>3. QED
        BY <4>1, <4>2
    <3>6. clockdata' = [f \in 1 .. 7 |-> Times[IF f <= copied' THEN shown' + 1 ELSE shown'][f]]
      BY ONLY <3>1, <3>2, <3>5
    <3>7. /\ shown' \in 1 .. Len(Times) /\ copied' \in 0 .. 7 /\ mailBusy' = 1 /\ shown' < Len(Times)
      BY <1>2, <3>1
    <3>8. QED
      <4>1. mailBusy' # 0 /\ mailBusy' \in {0, 1}
        BY <3>7
      <4>2. Copying'
        BY ONLY <3>6, <3>7, <4>1, Zenon DEF Copying
      <4>3. QED
        BY <3>1, <4>1, <4>2
  <2>3. CASE EndCopy
    <3>1. /\ mailBusy = 1 /\ copied = 7 /\ mailBusy' = 0 /\ copied' = 0 /\ shown' = shown + 1
          /\ clockdata' = clockdata
      BY <2>3 DEF EndCopy
    <3>2. \A f \in 1 .. 7 : f <= 7 /\ ~(f <= 0)
      OBVIOUS
    <3>3. clockdata' = [f \in 1 .. 7 |-> Times[IF f <= copied' THEN shown' + 1 ELSE shown'][f]]
      BY <1>2, <3>1, <3>2
    <3>4. QED
      BY <1>2, <3>1, <3>3 DEF Copying
  <2>4. QED
    BY <1>1, <2>1, <2>2, <2>3
<1>4. since' \in 1 .. shown'
  BY <1>1, <1>2, <1>3
<1>5. ASSUME ~setByGame
      PROVE  /\ asked.in > 1 /\ done >= 20 => Fetched(rtcClockData, asked, done, fetching)'
             /\ done < 20 => ~overlapped'
  <2>1. done < 20 => ~overlapped'
    <3>1. done < 20 => fetching = <<>> /\ ~overlapped
      BY <1>5 DEF RtcInv, InStep, Fetching
    <3>2. QED
      BY ONLY <1>1, <3>1, Zenon
  <2>2. ASSUME asked.in > 1, done >= 20
        PROVE  Fetched(rtcClockData, asked, done, fetching)'
    <3>1. Fetched(rtcClockData, asked, done, fetching)
      BY <1>5, <2>2 DEF RtcInv
    <3>2. since .. shown + 1 \subseteq since .. shown' + 1 /\ since .. shown \subseteq since .. shown'
      <4>1. shown' = shown \/ shown' = shown + 1
        BY <1>3
      <4>2. shown \in Int /\ since \in Int
        BY <1>2
      <4>3. QED
        BY ONLY <4>1, <4>2
    <3>3. ASSUME NEW i, NEW t
          PROVE  Shows(rtcClockData, asked, i, t)' <=> Shows(rtcClockData, asked, i, t)
      BY <1>1 DEF Shows, FieldAt
    <3>4. \A i \in 0 .. asked.in - Len(fetching) - 1 :
            \E t \in since .. shown' + 1 : t \in DOMAIN Times /\ Shows(rtcClockData, asked, i, t)
      BY ONLY <3>1, <3>2, Zenon DEF Fetched
    <3>5. ASSUME ~overlapped'
          PROVE  /\ fetching = <<>>
                 /\ \E t \in since .. shown' : \A i \in 0 .. asked.in - 1 : Shows(rtcClockData, asked, i, t)
      <4>1. ~overlapped /\ fetching = <<>>
        BY ONLY <1>1, <3>5, Zenon
      <4>2. QED
        BY ONLY <3>1, <3>2, <4>1, Zenon DEF Fetched
    <3>6. QED
      BY <1>1, <3>4, <3>5 DEF Fetched, Shows, FieldAt
  <2>3. QED
    BY <2>1, <2>2
<1>6. QED
  BY <1>1, <1>3, <1>4, <1>5 DEF RtcInv, InStep, Opening, Commanding, Fetching, Taking, Replying,
    Resting, BitsHeard

(* A request that is done has left the chip idle; the game asks the next.  *)
LEMMA DoneIsIdle ==
  ASSUME NEW c, NEW q, q \in Plain \/ q = NoRequest, NEW f, InStep(c, q, Total(q), f)
  PROVE  c.state = "IDLE"
<1>1. \/ Total(q) = 21 /\ q.in = 0 /\ q.out = <<>>
      \/ Total(q) = 37 /\ q.in = 0
      \/ Total(q) \in {46, 190, 94}
  <2>1. CASE q = NoRequest
    BY <2>1 DEF NoRequest, Total, SentBy
  <2>2. CASE q \in Plain
    BY ONLY <2>2, PlainIs
  <2>3. QED
    BY <2>1, <2>2
<1>2. ~Opening(c, Total(q)) /\ ~Commanding(c, q, Total(q)) /\ ~Fetching(c, q, Total(q), f)
  <2>1. Total(q) \notin 0 .. 3 /\ Total(q) \notin 4 .. 19 /\ Total(q) # 20
    BY ONLY <1>1
  <2>2. QED
    BY ONLY <2>1, Zenon DEF Opening, Commanding, Fetching
<1>3. ~Taking(c, q, Total(q))
  <2>1. Len(<<>>) # 1
    OBVIOUS
  <2>2. Total(q) \notin 20 .. 35 \/ Len(q.out) # 1
    <3>1. q.out = <<>> => Len(q.out) # 1
      BY ONLY <2>1, Zenon
    <3>2. Total(q) \notin {37, 46, 190, 94} \/ Total(q) \notin 20 .. 35
      OBVIOUS
    <3>3. q.out = <<>> \/ Total(q) \in {37, 46, 190, 94}
      BY ONLY <1>1
    <3>4. QED
      BY ONLY <3>1, <3>2, <3>3, Zenon
  <2>3. QED
    BY ONLY <2>2, Zenon DEF Taking
<1>4. ~Replying(c, q, Total(q))
  BY <1>1 DEF Replying
<1>5. QED
  BY <1>2, <1>3, <1>4 DEF InStep, Resting

LEMMA AskStep ==
  ASSUME RtcInv, AskClock
  PROVE  RtcInv'
<1>1. /\ done = Total(asked) /\ fetching = <<>> /\ done' = 0 /\ heard' = <<>> /\ since' = shown
      /\ overlapped' = FALSE
      /\ UNCHANGED <<rtcClockData, fetching, clockdata, mailBusy, copied, shown>>
  BY DEF AskClock
<1>2. PICK q \in Queries \cup Settings : asked' = q /\ setByGame' = (setByGame \/ q.command = \h64)
  BY DEF AskClock
<1>3. Copying' /\ since' \in 1 .. shown'
  <2>1. shown \in 1 .. shown
    BY RtcAssumption DEF RtcInv, Copying
  <2>2. QED
    BY <1>1, <2>1 DEF RtcInv, Copying
<1>4. ASSUME ~setByGame'
      PROVE  /\ asked' \in Plain /\ done' \in 0 .. Total(asked)'
             /\ rtcClockData' \in Chips
             /\ InStep(rtcClockData', asked', done', fetching')
             /\ BitsHeard(rtcClockData', asked', done', heard')
  <2>1. ~setByGame /\ q.command # \h64
    BY ONLY <1>2, <1>4, Zenon
  <2>2. q \in Plain
    BY <1>2, <2>1 DEF Plain, Settings
  <2>3. rtcClockData \in Chips /\ rtcClockData.state = "IDLE"
    BY <1>1, <2>1, DoneIsIdle DEF RtcInv
  <2>4. Opening(rtcClockData, 0)
    BY <2>3 DEF Opening
  <2>5. HeardSoFar(q, 0) = 0
    BY DEF HeardSoFar
  <2>6. BitsHeard(rtcClockData, q, 0, <<>>)
    BY <2>5 DEF BitsHeard
  <2>7. 0 \in 0 .. Total(q)
    BY <2>2, PlainIs
  <2>8. QED
    BY <1>1, <1>2, <2>2, <2>3, <2>4, <2>6, <2>7 DEF InStep, Total, SentBy
<1>5. QED
  BY <1>1, <1>3, <1>4 DEF RtcInv

(* Where the chip of rtcWrite is in a request and how much of the request  *)
(* the game has done never come apart, whatever was asked before, as long  *)
(* as the game does not try to set the clock.                              *)
THEOREM RtcInvariant == RtcSpec => []RtcInv
<1>1. RtcInit => RtcInv
  <2> SUFFICES ASSUME RtcInit PROVE RtcInv
    OBVIOUS
  <2>1. Total(NoRequest) = 21 /\ SentBy(NoRequest) = 20 /\ NoRequest.in = 0
    BY DEF Total, SentBy, NoRequest
  <2>2. Copying /\ since \in 1 .. shown
    <3>1. Times[1] \in [1 .. 7 -> 0 .. 99] /\ 1 \in 1 .. Len(Times)
      BY RtcAssumption
    <3>2. \A f \in 1 .. 7 : ~(f <= 0)
      OBVIOUS
    <3>3. Times[1] = [f \in 1 .. 7 |-> Times[IF f <= 0 THEN 1 + 1 ELSE 1][f]]
      BY <3>1, <3>2
    <3>4. QED
      BY <3>1, <3>3 DEF RtcInit, Copying
  <2>3. rtcClockData \in Chips /\ rtcClockData.state = "IDLE"
    BY DEF RtcInit, rtcReset, Chips
  <2>4. InStep(rtcClockData, asked, done, fetching)
    BY <2>1, <2>3 DEF RtcInit, InStep, Resting
  <2>5. BitsHeard(rtcClockData, asked, done, heard)
    BY <2>1 DEF RtcInit, BitsHeard, HeardSoFar
  <2>6. QED
    BY <2>1, <2>2, <2>3, <2>4, <2>5 DEF RtcInit, RtcInv
<1>2. RtcInv /\ [RtcNext]_rtcVars => RtcInv'
  <2> SUFFICES ASSUME RtcInv, [RtcNext]_rtcVars PROVE RtcInv'
    OBVIOUS
  <2>1. CASE FetchByte
    BY <2>1, FetchStep
  <2>2. CASE Arm7Copies
    BY <2>2, CopyStep
  <2>3. CASE AskClock
    BY <2>3, AskStep
  <2>4. CASE Access
    BY <2>4, AccessStep
  <2>5. CASE UNCHANGED rtcVars
    BY <2>5 DEF rtcVars, RtcInv, Copying, InStep, Opening, Commanding, Fetching, Taking, Replying,
      Resting, BitsHeard, Fetched, Shows, FieldAt
  <2>6. QED
    BY <2>1, <2>2, <2>3, <2>4, <2>5 DEF RtcNext
<1>3. QED
  BY <1>1, <1>2, PTL DEF RtcSpec

-----------------------------------------------------------------------------
(* A byte that was heard bit by bit is the byte of the chip's data.        *)
LEMMA HeardByteIs ==
  ASSUME NEW data, NEW n \in Nat, NEW j \in 1 .. n, data[j - 1] \in 0 .. 255,
         heard = [m \in 1 .. 8 * n |-> BitAt(data[(m - 1) \div 8], (m - 1) % 8)]
  PROVE  HeardByte(j) = data[j - 1]
<1>1. ASSUME NEW i \in 0 .. 7
      PROVE  heard[8 * j - 7 + i] = BitAt(data[j - 1], i)
  <2> DEFINE m == 8 * j - 7 + i
  <2>1. m \in 1 .. 8 * n /\ (m - 1) \div 8 = j - 1 /\ (m - 1) % 8 = i
    <3> DEFINE u == j - 1
    <3>1. u \in Nat /\ m - 1 = 8 * u + i /\ m \in 1 .. 8 * n
      OBVIOUS
    <3> HIDE DEF u, m
    <3>2. (8 * u + i) \div 8 = u /\ (8 * u + i) % 8 = i
      BY ONLY <3>1, i \in 0 .. 7
    <3>3. QED
      BY ONLY <3>1, <3>2, Zenon DEF u
  <2> HIDE DEF m
  <2>2. heard[m] = BitAt(data[(m - 1) \div 8], (m - 1) % 8)
    BY <2>1
  <2>3. QED
    BY ONLY <2>1, <2>2, Zenon DEF m
<1>2. /\ heard[8 * j - 7 + 0] = BitAt(data[j - 1], 0) /\ heard[8 * j - 7 + 1] = BitAt(data[j - 1], 1)
      /\ heard[8 * j - 7 + 2] = BitAt(data[j - 1], 2) /\ heard[8 * j - 7 + 3] = BitAt(data[j - 1], 3)
      /\ heard[8 * j - 7 + 4] = BitAt(data[j - 1], 4) /\ heard[8 * j - 7 + 5] = BitAt(data[j - 1], 5)
      /\ heard[8 * j - 7 + 6] = BitAt(data[j - 1], 6) /\ heard[8 * j - 7 + 7] = BitAt(data[j - 1], 7)
  <2>1. 0 \in 0 .. 7 /\ 1 \in 0 .. 7 /\ 2 \in 0 .. 7 /\ 3 \in 0 .. 7 /\ 4 \in 0 .. 7 /\ 5 \in 0 .. 7
        /\ 6 \in 0 .. 7 /\ 7 \in 0 .. 7
    OBVIOUS
  <2>2. QED
    BY ONLY <1>1, <2>1, Zenon
<1>3. QED
  <2> DEFINE x == data[j - 1]
  <2>1. HeardByte(j) = BitAt(x, 0) + 2 * BitAt(x, 1) + 4 * BitAt(x, 2) + 8 * BitAt(x, 3)
          + 16 * BitAt(x, 4) + 32 * BitAt(x, 5) + 64 * BitAt(x, 6) + 128 * BitAt(x, 7)
    BY ONLY <1>2, Zenon DEF HeardByte
  <2>2. QED
    BY ONLY <2>1, data[j - 1] \in 0 .. 255, ByteIs, Zenon

LEMMA RtcInvAnswers == RtcInv => AnsweredAsAsked
<1> SUFFICES ASSUME RtcInv, done = Total(asked), fetching = <<>>, asked # NoRequest, ~setByGame
             PROVE  /\ rtcClockData.state = "IDLE" /\ Len(heard) = 8 * asked.in
                    /\ asked.command = \h63 => HeardByte(1) = 64
                    /\ asked.in > 1 =>
                         IF overlapped
                           THEN \A f \in Fields : \E t \in since .. shown + 1 : t \in DOMAIN Times /\ Says(f, t)
                           ELSE \E t \in since .. shown : \A f \in Fields : Says(f, t)
  BY DEF AnsweredAsAsked
<1> DEFINE q == asked
           c == rtcClockData
<1>1. /\ q \in Plain /\ InStep(c, q, Total(q), <<>>) /\ BitsHeard(c, q, Total(q), heard)
      /\ q.in = 1 /\ Total(q) >= 20 => c.data[0] = 64
      /\ q.in > 1 /\ Total(q) >= 20 => Fetched(c, q, Total(q), <<>>)
  BY DEF RtcInv
<1>2. Total(q) \in Nat /\ Total(q) >= 21 /\ q.in \in {0, 1, 3, 7} /\ (q.command = \h63 => q.in = 1)
  BY <1>1, PlainIs
<1>3. c.state = "IDLE"
  BY <1>1, DoneIsIdle
<1>4. heard = [m \in 1 .. 8 * q.in |-> BitAt(c.data[(m - 1) \div 8], (m - 1) % 8)]
  <2>1. HeardSoFar(q, Total(q)) = 8 * q.in
    BY <1>2 DEF HeardSoFar
  <2>2. QED
    BY ONLY <1>1, <2>1, Zenon DEF BitsHeard
<1>5. Len(heard) = 8 * q.in
  BY <1>2, <1>4
<1>6. q.command = \h63 => HeardByte(1) = 64
  <2> SUFFICES ASSUME q.command = \h63 PROVE HeardByte(1) = 64
    OBVIOUS
  <2>1. q.in = 1 /\ c.data[1 - 1] = 64
    BY <1>1, <1>2
  <2>2. HeardByte(1) = c.data[1 - 1]
    <3>1. heard = [m \in 1 .. 8 * 1 |-> BitAt(c.data[(m - 1) \div 8], (m - 1) % 8)]
      BY ONLY <1>4, <2>1, Zenon
    <3>2. 1 \in Nat /\ 1 \in 1 .. 1 /\ c.data[1 - 1] \in 0 .. 255
      BY <2>1
    <3>3. QED
      BY ONLY <3>1, <3>2, HeardByteIs, Zenon
  <2>3. QED
    BY <2>1, <2>2
<1>7. ASSUME NEW t \in 1 .. Len(Times), NEW f \in Fields, q.in > 1, Shows(c, q, f - 8 + q.in, t)
      PROVE  Says(f, t)
  <2>1. f \in 1 .. 7 /\ f - 7 + q.in \in 1 .. q.in /\ (f - 7 + q.in) - 1 = f - 8 + q.in
        /\ FieldAt(q, f - 8 + q.in) = f
    <3>1. q.in = 3 \/ q.in = 7
      BY <1>2, <1>7
    <3>2. CASE q.in = 3
      <4>1. f \in 5 .. 7
        BY <3>2 DEF Fields
      <4>2. QED
        BY ONLY <3>2, <4>1 DEF FieldAt
    <3>3. CASE q.in = 7
      <4>1. f \in 1 .. 7
        BY <3>3 DEF Fields
      <4>2. QED
        BY ONLY <3>3, <4>1 DEF FieldAt
    <3>4. QED
      BY <3>1, <3>2, <3>3
  <2>2. Times[t][f] \in 0 .. 99
    <3>1. f \in 1 .. 7 /\ Times[t] \in [1 .. 7 -> 0 .. 99]
      BY <2>1, RtcAssumption
    <3>2. QED
      BY ONLY <3>1
  <2>3. c.data[(f - 7 + q.in) - 1] = toBCD(Times[t][f])
    BY ONLY <1>7, <2>1, Zenon DEF Shows
  <2>4. /\ toBCD(Times[t][f]) \in 0 .. 255
        /\ <<toBCD(Times[t][f]) \div 16, toBCD(Times[t][f]) % 16>> = Digits(Times[t][f])
    BY ONLY <2>2, TimeIs, Zenon
  <2>5. HeardByte(f - 7 + q.in) = c.data[(f - 7 + q.in) - 1]
    <3>1. c.data[(f - 7 + q.in) - 1] \in 0 .. 255 /\ q.in \in Nat
      BY <1>2, <2>3, <2>4
    <3>2. QED
      BY ONLY <1>4, <2>1, <3>1, HeardByteIs, Zenon
  <2>6. QED
    BY ONLY <2>3, <2>4, <2>5, Zenon DEF Says, HeardField
<1>8. ASSUME q.in > 1
      PROVE  IF overlapped
               THEN \A f \in Fields : \E t \in since .. shown + 1 : t \in DOMAIN Times /\ Says(f, t)
               ELSE \E t \in since .. shown : \A f \in Fields : Says(f, t)
  <2>1. Fetched(c, q, Total(q), <<>>)
    BY <1>1, <1>2, <1>8
  <2>2. \A f \in Fields : f - 8 + q.in \in 0 .. q.in - 1 /\ q.in - Len(<<>>) - 1 = q.in - 1
    BY <1>2, <1>8 DEF Fields
  <2>3. DOMAIN Times = 1 .. Len(Times) /\ since .. shown \subseteq 1 .. Len(Times)
    BY RtcAssumption DEF RtcInv, Copying
  <2>4. CASE overlapped
    <3>1. \A f \in Fields : \E t \in since .. shown + 1 : t \in DOMAIN Times /\ Shows(c, q, f - 8 + q.in, t)
      BY ONLY <2>1, <2>2 DEF Fetched
    <3>2. QED
      BY ONLY <1>7, <1>8, <2>3, <2>4, <3>1, Zenon
  <2>5. CASE ~overlapped
    <3>1. \E t \in since .. shown : \A place \in 0 .. q.in - 1 : Shows(c, q, place, t)
      BY ONLY <2>1, <2>5, Zenon DEF Fetched
    <3>2. QED
      BY ONLY <1>7, <1>8, <2>2, <2>3, <2>5, <3>1, Zenon
  <2>6. QED
    BY <2>4, <2>5
<1>9. QED
  BY <1>3, <1>5, <1>6, <1>8

(* Whatever requests came before, the clock answers each with its status   *)
(* or with one time that it showed while the request ran, in rtcWrite's    *)
(* and rtcRead's bits; bytes of two times are only mixed when the ARM7     *)
(* copies while the handler reads.                                         *)
THEOREM ClockAnswers == RtcSpec => []AnsweredAsAsked
BY RtcInvariant, RtcInvAnswers, PTL
=============================================================================
