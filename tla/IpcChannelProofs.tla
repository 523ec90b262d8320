-------------------------- MODULE IpcChannelProofs ---------------------------
(***************************************************************************)
(* For any commands, any FIFO and any number of sends, an interrupted send *)
(* never shifts the pairing of the words: only a word dropped by a full    *)
(* FIFO, or one read before it came, does.                                 *)
(***************************************************************************)
EXTENDS IpcChannel, TLAPS, SequenceTheorems, FiniteSetTheorems

(* Words of the right kind are under way, and a send is interrupted after  *)
(* its first word, so that one is left.                                    *)
WordsTyped ==
  /\ fifo \in Seq(Word)
  /\ program \in Seq(Word) /\ Len(program) <= 1
  /\ handler \in Seq(Word) /\ Len(handler) <= 1
  /\ src \in Word \cup {None}

(* The words on their way, the one in the reader's hand included.          *)
InHand == IF src = None THEN 0 ELSE 1
Total == Len(fifo) + InHand + Len(program) + Len(handler)

PInv == WordsTyped /\ InterleavingKeepsPairing

-----------------------------------------------------------------------------
(* The word in the reader's hand counts as one of the stream.              *)
LEMMA StreamLength ==
  ASSUME NEW f \in Seq(Word), NEW w \in Word \cup {None}
  PROVE  Len((IF w = None THEN <<>> ELSE <<w>>) \o f)
           = Len(f) + (IF w = None THEN 0 ELSE 1)
<1>1. CASE w = None
  BY <1>1, ConcatEmptySeq, LenProperties
<1>2. CASE w # None
  <2>1. <<w>> \in Seq(Word) /\ Len(<<w>>) = 1
    BY <1>2
  <2>2. Len(<<w>> \o f) = Len(<<w>>) + Len(f)
    BY <2>1, ConcatProperties
  <2> QED
    BY <1>2, <2>1, <2>2, LenProperties
<1> QED
  BY <1>1, <1>2

(* Commands and their arguments are words.                                 *)
LEMMA CommandWords ==
  ASSUME NEW c \in Command
  PROVE  c \in Word /\ Argument[c] \in Word
BY DEF Word, ArgumentWord

(* A store lengthens the FIFO by its word, or is an overflow.              *)
LEMMA StoreLength ==
  ASSUME fifo \in Seq(Word), NEW w \in Word, Store(w)
  PROVE  /\ fifo' \in Seq(Word)
         /\ \/ Len(fifo') = Len(fifo) + 1 /\ UNCHANGED overflow
            \/ overflow' = TRUE
<1>1. CASE Len(fifo) < FifoWords
  BY <1>1, AppendProperties DEF Store
<1>2. CASE ~ (Len(fifo) < FifoWords)
  BY <1>2 DEF Store
<1> QED
  BY <1>1, <1>2

(* Taking a send's word off its sender leaves one word fewer.              *)
LEMMA TailShorter ==
  ASSUME NEW s \in Seq(Word), s # <<>>
  PROVE  /\ Tail(s) \in Seq(Word) /\ Len(Tail(s)) = Len(s) - 1
         /\ Head(s) \in Word /\ Len(s) >= 1
BY HeadTailProperties, EmptySeq, LenProperties

(* The pairing depends on the number of words only.                        *)
LEMMA PairingByLength ==
  ASSUME WordsTyped
  PROVE  InterleavingKeepsPairing <=>
           (reader = "pairs" /\ ~ halfRead /\ ~ overflow => Total % 2 = 0)
BY StreamLength
   DEF InterleavingKeepsPairing, WordsTyped, Stream, Total, InHand

(* The same of the next state.                                             *)
LEMMA PairingByLengthNext ==
  ASSUME WordsTyped'
  PROVE  InterleavingKeepsPairing' <=>
           (reader' = "pairs" /\ ~ halfRead' /\ ~ overflow' =>
              Total' % 2 = 0)
BY StreamLength
   DEF InterleavingKeepsPairing, WordsTyped, Stream, Total, InHand

(* What the total is made of, now and next.                                *)
LEMMA TotalIsSum ==
  /\ Total = Len(fifo) + InHand + Len(program) + Len(handler)
  /\ Total' = Len(fifo') + InHand' + Len(program') + Len(handler')
BY DEF Total

(* Two words more or less make no difference.                              *)
LEMMA EvenPlusTwo == \A n \in Nat : n % 2 = 0 <=> (n + 2) % 2 = 0
OBVIOUS

(* Lengths are numbers.                                                    *)
LEMMA LengthsAreNumbers ==
  ASSUME WordsTyped
  PROVE  /\ Len(fifo) \in Nat /\ Len(program) \in Nat /\ Len(handler) \in Nat
         /\ InHand \in Nat /\ Total \in Nat
<1>1. Len(fifo) \in Nat /\ Len(program) \in Nat /\ Len(handler) \in Nat
  BY LenProperties DEF WordsTyped
<1>2. InHand \in Nat
  BY DEF InHand
<1> QED
  BY <1>1, <1>2 DEF Total

-----------------------------------------------------------------------------
(* Between two commands, nothing sent, the pairing is even.                *)
LEMMA InitPaired == Init => PInv
<1> SUFFICES ASSUME Init PROVE PInv
  OBVIOUS
<1>1. WordsTyped
  BY EmptySeq DEF Init, WordsTyped
<1>2. Len(fifo) = 0 /\ Len(program) = 0 /\ Len(handler) = 0 /\ src = None
  BY DEF Init
<1> QED
  BY <1>1, <1>2, PairingByLength DEF PInv, Total, InHand

(* A send by either of the sender's contexts: one word more in the FIFO,   *)
(* one more to come.                                                       *)
LEMMA SendKeepsPairing ==
  ASSUME PInv, NEW c \in Command, ProgramSends(c) \/ HandlerSends(c)
  PROVE  PInv'
<1> USE CommandWords DEF PInv
<1>1. <<Argument[c]>> \in Seq(Word) /\ Len(<<Argument[c]>>) = 1
  OBVIOUS
<1>2. Store(c) /\ UNCHANGED <<src, reader, halfRead>>
  BY DEF ProgramSends, HandlerSends, readerVars
<1>3. /\ fifo' \in Seq(Word)
      /\ \/ Len(fifo') = Len(fifo) + 1 /\ UNCHANGED overflow
         \/ overflow' = TRUE
  BY <1>2, StoreLength DEF WordsTyped
<1>4. \/ /\ Len(program) = 0 /\ program' = <<Argument[c]>>
         /\ UNCHANGED handler
      \/ /\ Len(handler) = 0 /\ handler' = <<Argument[c]>>
         /\ UNCHANGED program
  BY DEF ProgramSends, HandlerSends
<1>5. /\ program' \in Seq(Word) /\ Len(program') <= 1
      /\ handler' \in Seq(Word) /\ Len(handler') <= 1
      /\ Len(program') + Len(handler') = Len(program) + Len(handler) + 1
  <2>1. CASE /\ Len(program) = 0 /\ program' = <<Argument[c]>>
             /\ UNCHANGED handler
    BY <1>1, <2>1, LengthsAreNumbers DEF WordsTyped
  <2>2. CASE /\ Len(handler) = 0 /\ handler' = <<Argument[c]>>
             /\ UNCHANGED program
    BY <1>1, <2>2, LengthsAreNumbers DEF WordsTyped
  <2> QED
    BY <1>4, <2>1, <2>2
<1>6. WordsTyped'
  BY <1>2, <1>3, <1>5 DEF WordsTyped
<1>7. InHand' = InHand
  BY <1>2 DEF InHand
<1>8. overflow' = TRUE \/ (UNCHANGED overflow /\ Total' = Total + 2)
  <2>1. /\ Len(fifo) \in Nat /\ Len(program) \in Nat /\ Len(handler) \in Nat
        /\ InHand \in Nat
    BY LengthsAreNumbers
  <2>2. Len(program') \in Nat /\ Len(handler') \in Nat
    BY <1>5, LenProperties
  <2>3. CASE Len(fifo') = Len(fifo) + 1
    <3>1. Total' = Total + 2
      BY <1>5, <1>7, <2>1, <2>2, <2>3, TotalIsSum
    <3> QED
      BY <1>3, <3>1
  <2> QED
    BY <1>3, <2>3
<1>9. InterleavingKeepsPairing'
  BY <1>2, <1>6, <1>8, EvenPlusTwo, LengthsAreNumbers, PairingByLength,
     PairingByLengthNext
<1> QED
  BY <1>6, <1>9

(* The second word of a send moves from its sender to the FIFO.            *)
LEMMA ArgumentKeepsPairing ==
  ASSUME PInv, ProgramStoresArgument \/ HandlerStoresArgument
  PROVE  PInv'
<1> USE DEF PInv
<1>1. UNCHANGED <<src, reader, halfRead>>
  BY DEF ProgramStoresArgument, HandlerStoresArgument, readerVars
<1>2. \/ /\ program # <<>> /\ Store(Head(program))
         /\ program' = Tail(program) /\ UNCHANGED handler
      \/ /\ handler # <<>> /\ Store(Head(handler))
         /\ handler' = Tail(handler) /\ UNCHANGED program
  BY DEF ProgramStoresArgument, HandlerStoresArgument
<1>3. /\ fifo' \in Seq(Word)
      /\ \/ Len(fifo') = Len(fifo) + 1 /\ UNCHANGED overflow
         \/ overflow' = TRUE
  BY <1>2, StoreLength, TailShorter DEF WordsTyped
<1>4. /\ program' \in Seq(Word) /\ handler' \in Seq(Word)
      /\ Len(program') <= 1 /\ Len(handler') <= 1
      /\ Len(program') + Len(handler') = Len(program) + Len(handler) - 1
  BY <1>2, TailShorter, LenProperties DEF WordsTyped
<1>5. WordsTyped'
  BY <1>1, <1>3, <1>4 DEF WordsTyped
<1>6. overflow' = TRUE \/ (UNCHANGED overflow /\ Total' = Total)
  <2>1. InHand' = InHand
    BY <1>1 DEF InHand
  <2>2. Len(program') \in Nat /\ Len(handler') \in Nat
    BY <1>4, LenProperties
  <2>3. /\ Len(fifo) \in Nat /\ Len(program) \in Nat /\ Len(handler) \in Nat
        /\ InHand \in Nat
    BY LengthsAreNumbers
  <2>4. CASE Len(fifo') = Len(fifo) + 1
    <3>1. Total' = Total
      BY <1>4, <2>1, <2>2, <2>3, <2>4, TotalIsSum
    <3> QED
      BY <1>3, <3>1
  <2> QED
    BY <1>3, <2>4
<1>7. InterleavingKeepsPairing'
  BY <1>1, <1>5, <1>6, PairingByLength, PairingByLengthNext
<1> QED
  BY <1>5, <1>7

(* The first read moves a word into the reader's hand, the second takes it *)
(* and another; a second word that had not arrived is the case excepted.   *)
LEMMA ReadKeepsPairing ==
  ASSUME PInv, ReadFirst \/ ReadSecond
  PROVE  PInv'
<1> USE DEF PInv
<1>1. UNCHANGED <<program, handler, reader, overflow>>
  BY DEF ReadFirst, ReadSecond, senderVars
<1>2. Len(fifo) \in Nat /\ Len(program) \in Nat /\ Len(handler) \in Nat
  BY LengthsAreNumbers
<1>3. CASE ReadFirst
  <2>1. /\ src = None /\ src' = Head(fifo) /\ fifo # <<>>
        /\ fifo' = Tail(fifo) /\ UNCHANGED halfRead
    BY <1>3 DEF ReadFirst
  <2>2. /\ src' \in Word /\ fifo' \in Seq(Word) /\ Len(fifo') = Len(fifo) - 1
    BY <2>1, TailShorter DEF WordsTyped
  <2>3. src' # None
    BY <2>2, ConstantsAssumption
  <2>4. WordsTyped'
    BY <1>1, <2>2 DEF WordsTyped
  <2>5. Total' = Total
    BY <1>1, <1>2, <2>1, <2>2, <2>3 DEF Total, InHand
  <2>6. InterleavingKeepsPairing'
    BY <1>1, <2>1, <2>4, <2>5, PairingByLength, PairingByLengthNext
  <2> QED
    BY <2>4, <2>6
<1>4. CASE ReadSecond
  <2>1. /\ src # None /\ src' = None
        /\ fifo' = IF fifo = <<>> THEN fifo ELSE Tail(fifo)
        /\ halfRead' = (halfRead \/ fifo = <<>>)
    BY <1>4 DEF ReadSecond
  <2>2. fifo' \in Seq(Word)
    BY <2>1, TailShorter DEF WordsTyped
  <2>3. fifo # <<>> => Len(fifo') = Len(fifo) - 1 /\ Len(fifo) >= 1
    BY <2>1, TailShorter DEF WordsTyped
  <2>4. WordsTyped'
    BY <1>1, <2>1, <2>2 DEF WordsTyped
  <2>5. InterleavingKeepsPairing'
    <3>1. CASE fifo = <<>>
      BY <2>1, <2>4, <3>1, PairingByLengthNext
    <3>2. CASE fifo # <<>>
      <4>1. Total = Total' + 2
        <5>1. InHand = 1 /\ InHand' = 0
          BY <2>1 DEF InHand
        <5>2. Len(fifo') = Len(fifo) - 1
          BY <2>3, <3>2
        <5>3. Len(program') = Len(program) /\ Len(handler') = Len(handler)
          BY <1>1
        <5> QED
          BY <1>2, <5>1, <5>2, <5>3, TotalIsSum
      <4>2. Total' \in Nat
        BY <1>1, <1>2, <2>1, <2>2, LenProperties DEF Total, InHand
      <4> QED
        BY <1>1, <2>1, <2>4, <3>2, <4>1, <4>2, EvenPlusTwo,
           PairingByLength, PairingByLengthNext
    <3> QED
      BY <3>1, <3>2
  <2> QED
    BY <2>4, <2>5
<1> QED
  BY <1>3, <1>4

(* With the cheat handler there are no pairs to shift.                     *)
LEMMA CheatHandlerHasNoPairs ==
  ASSUME PInv, ReadOne
  PROVE  PInv'
<1> USE DEF PInv
<1>1. reader' = "single" /\ UNCHANGED <<program, handler, src>>
  BY DEF ReadOne, senderVars
<1>2. fifo' \in Seq(Word)
  BY TailShorter DEF ReadOne, WordsTyped
<1>3. WordsTyped'
  BY <1>1, <1>2 DEF WordsTyped
<1>4. InterleavingKeepsPairing'
  BY <1>1 DEF InterleavingKeepsPairing
<1> QED
  BY <1>3, <1>4

(* The invariant is inductive.                                             *)
LEMMA NextKeepsPairing == PInv /\ [Next]_vars => PInv'
<1> SUFFICES ASSUME PInv, [Next]_vars PROVE PInv'
  OBVIOUS
<1>1. CASE UNCHANGED vars
  BY <1>1 DEF PInv, WordsTyped, InterleavingKeepsPairing, Stream, vars,
              senderVars, readerVars
<1>2. CASE Next
  BY <1>2, ConstantsAssumption, SendKeepsPairing, ArgumentKeepsPairing,
     ReadKeepsPairing, CheatHandlerHasNoPairs DEF Next
<1> QED
  BY <1>1, <1>2

(* However sends interrupt each other, the reader is at a pair's beginning *)
(* when it expects one, as long as no word was dropped or read too early.  *)
THEOREM PairingHolds == Spec => []InterleavingKeepsPairing
<1>1. Spec => []PInv
  BY InitPaired, NextKeepsPairing, PTL DEF Spec
<1>2. PInv => InterleavingKeepsPairing
  BY DEF PInv
<1> QED
  BY <1>1, <1>2, PTL

-----------------------------------------------------------------------------
(* How often a command is waiting.                                         *)

Places(s, c) == {i \in 1 .. Len(s) : s[i] = c}
Count(s, c) == Cardinality(Places(s, c))

LEMMA CountIsNumber ==
  ASSUME NEW s \in Seq(Word), NEW c
  PROVE  IsFiniteSet(Places(s, c)) /\ Count(s, c) \in Nat
<1>1. Len(s) \in Nat
  BY LenProperties
<1>2. IsFiniteSet(1 .. Len(s))
  BY <1>1, FS_Interval
<1>3. Places(s, c) \in SUBSET (1 .. Len(s))
  BY DEF Places
<1>4. IsFiniteSet(Places(s, c))
  BY <1>2, <1>3, FS_Subset
<1> QED
  BY <1>4, FS_CardinalityType DEF Count

(* A word appended is one more of its kind.                                *)
LEMMA CountAppend ==
  ASSUME NEW s \in Seq(Word), NEW w \in Word, NEW c
  PROVE  Count(Append(s, w), c) = Count(s, c) + (IF w = c THEN 1 ELSE 0)
<1> DEFINE a == Append(s, w)
<1>1. /\ Len(s) \in Nat /\ Len(a) = Len(s) + 1
      /\ \A i \in 1 .. Len(s) : a[i] = s[i]
      /\ a[Len(s) + 1] = w
  BY AppendProperties, LenProperties
<1>2. IsFiniteSet(Places(s, c)) /\ Count(s, c) \in Nat
  BY CountIsNumber
<1> HIDE DEF a
<1>3. CASE w = c
  <2>1. Places(a, c) = Places(s, c) \cup {Len(s) + 1}
    BY <1>1, <1>3 DEF Places
  <2>2. Len(s) + 1 \notin Places(s, c)
    BY <1>1 DEF Places
  <2>3. Count(a, c) = Count(s, c) + 1
    BY <2>1, <2>2, <1>2, FS_AddElement DEF Count
  <2> QED
    BY <2>3, <1>3 DEF a
<1>4. CASE w # c
  <2>1. Places(a, c) = Places(s, c)
    BY <1>1, <1>4 DEF Places
  <2>2. Count(a, c) = Count(s, c) + 0
    BY <2>1, <1>2 DEF Count
  <2> QED
    BY <2>2, <1>4 DEF a
<1> QED
  BY <1>3, <1>4

(* A word taken from the front is one less.                                *)
LEMMA CountTail ==
  ASSUME NEW s \in Seq(Word), s # <<>>, NEW c
  PROVE  Count(Tail(s), c) = Count(s, c) - (IF Head(s) = c THEN 1 ELSE 0)
<1> DEFINE t == Tail(s)
           P == Places(t, c)
           Q == Places(s, c) \ {1}
<1>1. /\ t \in Seq(Word) /\ Len(t) = Len(s) - 1 /\ Len(s) \in Nat \ {0}
      /\ \A i \in 1 .. Len(t) : t[i] = s[i + 1]
  BY HeadTailProperties, EmptySeq
<1>2. Head(s) = s[1]
  OBVIOUS
<1> HIDE DEF t
<1>3. IsFiniteSet(P) /\ IsFiniteSet(Places(s, c)) /\ Count(s, c) \in Nat
  BY <1>1, CountIsNumber
<1> DEFINE f == [i \in P |-> i + 1]
<1>4. f \in Bijection(P, Q)
  <2>1. \A i \in P : f[i] \in Q
    BY <1>1 DEF Places
  <2>2. \A i, j \in P : f[i] = f[j] => i = j
    BY <1>1 DEF Places
  <2>3. \A k \in Q : \E i \in P : f[i] = k
    <3> SUFFICES ASSUME NEW k \in Q PROVE \E i \in P : f[i] = k
      OBVIOUS
    <3>1. k \in 2 .. Len(s) /\ s[k] = c
      BY <1>1 DEF Places
    <3>2. k - 1 \in 1 .. Len(t) /\ t[k - 1] = s[k]
      BY <1>1, <3>1
    <3>3. k - 1 \in P
      BY <3>1, <3>2 DEF Places
    <3> QED
      BY <3>1, <3>3
  <2> QED
    BY <2>1, <2>2, <2>3 DEF Bijection, Injection, Surjection, IsInjective
<1>5. Cardinality(Q) = Cardinality(P)
  BY <1>3, <1>4, FS_Bijection DEF ExistsBijection
<1>6. Cardinality(Q) = IF 1 \in Places(s, c) THEN Count(s, c) - 1 ELSE Count(s, c)
  BY <1>3, FS_RemoveElement DEF Count
<1>7. 1 \in Places(s, c) <=> Head(s) = c
  BY <1>1, <1>2 DEF Places
<1> QED
  BY <1>3, <1>5, <1>6, <1>7 DEF Count, t

(* A word put in front is one more of its kind.                            *)
LEMMA CountInFront ==
  ASSUME NEW f \in Seq(Word), NEW w \in Word, NEW c
  PROVE  Count(<<w>> \o f, c) = (IF w = c THEN 1 ELSE 0) + Count(f, c)
<1> DEFINE s == <<w>> \o f
<1>1. <<w>> \in Seq(Word) /\ Len(<<w>>) = 1
  OBVIOUS
<1>2. /\ s \in Seq(Word) /\ Len(s) = 1 + Len(f) /\ Len(f) \in Nat
      /\ \A i \in 1 .. 1 + Len(f) : s[i] = IF i <= 1 THEN <<w>>[i] ELSE f[i - 1]
  BY <1>1, ConcatProperties, LenProperties
<1> HIDE DEF s
<1>3. s # <<>> /\ Head(s) = w
  BY <1>2, EmptySeq
<1>4. Tail(s) = f
  <2>1. /\ Tail(s) \in Seq(Word) /\ Len(Tail(s)) = Len(s) - 1
        /\ \A i \in 1 .. Len(Tail(s)) : Tail(s)[i] = s[i + 1]
    BY <1>2, <1>3, HeadTailProperties
  <2>2. \A i \in 1 .. Len(f) : Tail(s)[i] = f[i]
    BY <1>2, <2>1
  <2> QED
    BY <1>2, <2>1, <2>2, SeqEqual
<1>5. Count(s, c) \in Nat /\ Count(f, c) \in Nat
  BY <1>2, CountIsNumber
<1>6. Count(f, c) = Count(s, c) - (IF w = c THEN 1 ELSE 0)
  BY <1>2, <1>3, <1>4, CountTail
<1> QED
  BY <1>5, <1>6 DEF s

(* The word in the reader's hand waits as well.                            *)
LEMMA StreamCount ==
  ASSUME NEW f \in Seq(Word), NEW w \in Word \cup {None}, NEW c \in Command
  PROVE  Count((IF w = None THEN <<>> ELSE <<w>>) \o f, c)
           = (IF w = c THEN 1 ELSE 0) + Count(f, c)
<1>1. c # None /\ Count(f, c) \in Nat
  BY ConstantsAssumption, CommandWords, CountIsNumber
<1>2. CASE w = None
  <2>1. <<>> \o f = f
    BY ConcatEmptySeq
  <2> QED
    BY <1>1, <1>2, <2>1
<1>3. CASE w # None
  BY <1>3, CountInFront
<1> QED
  BY <1>2, <1>3

LEMMA WaitingIsCount ==
  ASSUME NEW c
  PROVE  /\ Waiting(c) = Count((IF src = None THEN <<>> ELSE <<src>>) \o fifo, c)
         /\ Waiting(c)' = Count((IF src' = None THEN <<>> ELSE <<src'>>) \o fifo', c)
BY DEF Waiting, Stream, Count, Places

-----------------------------------------------------------------------------
(* What is sent, run, waiting and lost.                                    *)

(* Words to come are arguments, and only a reader of pairs has one in its  *)
(* hand.                                                                   *)
CountsTyped ==
  /\ fifo \in Seq(Word) /\ src \in Word \cup {None}
  /\ program \in Seq(ArgumentWord) /\ handler \in Seq(ArgumentWord)
  /\ sent \in [Command -> Nat] /\ runs \in [Command -> Nat]
  /\ lost \in [Command -> Nat]
  /\ src # None => reader = "pairs"

CInv == CountsTyped /\ NoCommandInvented /\ CheatHandlerRunsItsOwn

LEMMA WaitingIsSum ==
  ASSUME CountsTyped, NEW c \in Command
  PROVE  /\ Waiting(c) = (IF src = c THEN 1 ELSE 0) + Count(fifo, c)
         /\ Waiting(c) \in Nat /\ Count(fifo, c) \in Nat
<1>1. Waiting(c) = (IF src = c THEN 1 ELSE 0) + Count(fifo, c)
  BY WaitingIsCount, StreamCount DEF CountsTyped
<1>2. Count(fifo, c) \in Nat
  BY CountIsNumber DEF CountsTyped
<1> QED
  BY <1>1, <1>2

LEMMA WaitingIsSumNext ==
  ASSUME CountsTyped', NEW c \in Command
  PROVE  /\ Waiting(c)' = (IF src' = c THEN 1 ELSE 0) + Count(fifo', c)
         /\ Waiting(c)' \in Nat /\ Count(fifo', c) \in Nat
<1>1. fifo' \in Seq(Word) /\ src' \in Word \cup {None}
  BY DEF CountsTyped
<1>2. Waiting(c)' = (IF src' = c THEN 1 ELSE 0) + Count(fifo', c)
  BY <1>1, WaitingIsCount, StreamCount
<1>3. Count(fifo', c) \in Nat
  BY <1>1, CountIsNumber
<1> QED
  BY <1>2, <1>3

(* A command that is stored waits or is lost; an argument does neither.    *)
LEMMA StoreCounts ==
  ASSUME CountsTyped, NEW w \in Word, Store(w), NEW c \in Command
  PROVE  /\ fifo' \in Seq(Word) /\ lost' \in [Command -> Nat]
         /\ Count(fifo', c) + lost'[c]
              = Count(fifo, c) + lost[c] + (IF w = c THEN 1 ELSE 0)
<1>1. fifo \in Seq(Word) /\ lost \in [Command -> Nat] /\ lost[c] \in Nat
  BY DEF CountsTyped
<1>2. Count(fifo, c) \in Nat
  BY <1>1, CountIsNumber
<1>3. CASE Len(fifo) < FifoWords
  <2>1. fifo' = Append(fifo, w) /\ lost' = lost
    BY <1>3 DEF Store
  <2>2. Append(fifo, w) \in Seq(Word)
    BY <1>1, AppendProperties
  <2>3. Count(Append(fifo, w), c) = Count(fifo, c) + (IF w = c THEN 1 ELSE 0)
    BY <1>1, CountAppend
  <2> QED
    BY <1>1, <1>2, <2>1, <2>2, <2>3
<1>4. CASE ~(Len(fifo) < FifoWords)
  <2>1. /\ fifo' = fifo
        /\ lost' = IF w \in Command THEN [lost EXCEPT ![w] = lost[w] + 1] ELSE lost
    BY <1>4 DEF Store
  <2>2. lost' \in [Command -> Nat]
    BY <1>1, <2>1
  <2>3. lost'[c] = lost[c] + (IF w = c THEN 1 ELSE 0)
    BY <1>1, <2>1
  <2> QED
    BY <1>1, <1>2, <2>1, <2>2, <2>3
<1> QED
  BY <1>3, <1>4

(* What the two properties say, of one step: the sum of run, waiting and   *)
(* lost grows by what is sent; of a reader of pairs, and of a command the  *)
(* cheat handler does not know, it may fall behind.                        *)
LEMMA SumsKept ==
  ASSUME CInv, CountsTyped', reader' = reader,
         \A c \in Command :
           LET before == runs[c] + Waiting(c) + lost[c]
               after == runs'[c] + Waiting(c)' + lost'[c]
               new == sent'[c] - sent[c]
           IN \/ after = before + new
              \/ /\ after <= before + new
                 /\ reader # "single" \/ c \notin CheatCommand,
         reader = "single" =>
           \A c \in Command \ CheatCommand : runs'[c] = runs[c]
  PROVE  CInv'
<1>1. ASSUME NEW c \in Command
      PROVE  /\ runs'[c] + Waiting(c)' + lost'[c] <= sent'[c]
             /\ reader' = "single" /\ c \in CheatCommand
                  => runs'[c] + Waiting(c)' + lost'[c] = sent'[c]
  <2>1. Waiting(c) \in Nat /\ Waiting(c)' \in Nat
    BY WaitingIsSum, WaitingIsSumNext DEF CInv
  <2>2. /\ runs[c] \in Nat /\ lost[c] \in Nat /\ sent[c] \in Nat
        /\ runs'[c] \in Nat /\ lost'[c] \in Nat /\ sent'[c] \in Nat
    BY DEF CInv, CountsTyped
  <2> DEFINE before == runs[c] + Waiting(c) + lost[c]
             after == runs'[c] + Waiting(c)' + lost'[c]
             new == sent'[c] - sent[c]
             exact == reader = "single" /\ c \in CheatCommand
  <2>3. before \in Nat /\ after \in Nat /\ new \in Int
    BY <2>1, <2>2
  <2>4. before <= sent[c] /\ (exact => before = sent[c])
    BY DEF CInv, NoCommandInvented, CheatHandlerRunsItsOwn
  <2>5. \/ after = before + new
        \/ after <= before + new /\ ~ exact
    OBVIOUS
  <2>6. sent'[c] = sent[c] + new
    BY <2>2
  <2> HIDE DEF before, after, new, exact
  <2>7. after <= sent'[c] /\ (exact => after = sent'[c])
    BY <2>2, <2>3, <2>4, <2>5, <2>6
  <2> QED
    BY <2>7 DEF after, exact
<1>2. NoCommandInvented'
  BY <1>1 DEF NoCommandInvented
<1>3. CheatHandlerRunsItsOwn'
  <2> SUFFICES ASSUME reader' = "single"
               PROVE  /\ \A c \in CheatCommand :
                           runs'[c] + Waiting(c)' + lost'[c] = sent'[c]
                      /\ \A c \in Command \ CheatCommand : runs'[c] = 0
    BY DEF CheatHandlerRunsItsOwn
  <2>1. CheatCommand \subseteq Command
    BY ConstantsAssumption
  <2>2. \A c \in CheatCommand : runs'[c] + Waiting(c)' + lost'[c] = sent'[c]
    BY <1>1, <2>1
  <2>3. \A c \in Command \ CheatCommand : runs'[c] = 0
    BY DEF CInv, CheatHandlerRunsItsOwn
  <2> QED
    BY <2>2, <2>3
<1> QED
  BY <1>2, <1>3 DEF CInv

LEMMA SendKeepsCounts ==
  ASSUME CInv, NEW d \in Command, ProgramSends(d) \/ HandlerSends(d)
  PROVE  CInv'
<1> USE DEF CInv
<1>1. /\ Store(d) /\ UNCHANGED <<src, runs, reader>>
      /\ sent' = [sent EXCEPT ![d] = sent[d] + 1]
  BY DEF ProgramSends, HandlerSends, CountSent, readerVars
<1>2. program' \in Seq(ArgumentWord) /\ handler' \in Seq(ArgumentWord)
  <2>1. <<Argument[d]>> \in Seq(ArgumentWord)
    BY DEF ArgumentWord
  <2> QED
    BY <2>1 DEF ProgramSends, HandlerSends, CountsTyped
<1>3. /\ sent' \in [Command -> Nat]
      /\ \A c \in Command : sent'[c] = sent[c] + (IF d = c THEN 1 ELSE 0)
  BY <1>1 DEF CountsTyped
<1>4. fifo' \in Seq(Word) /\ lost' \in [Command -> Nat]
  BY <1>1, CommandWords, StoreCounts
<1>5. CountsTyped'
  BY <1>1, <1>2, <1>3, <1>4 DEF CountsTyped
<1>6. ASSUME NEW c \in Command
      PROVE  runs'[c] + Waiting(c)' + lost'[c]
               = runs[c] + Waiting(c) + lost[c] + (sent'[c] - sent[c])
  <2>1. Count(fifo', c) + lost'[c]
          = Count(fifo, c) + lost[c] + (IF d = c THEN 1 ELSE 0)
    BY <1>1, CommandWords, StoreCounts
  <2>2. /\ runs'[c] = runs[c] /\ runs[c] \in Nat /\ sent[c] \in Nat
        /\ lost[c] \in Nat /\ lost'[c] \in Nat
    BY <1>1, <1>4 DEF CountsTyped
  <2>3. sent'[c] = sent[c] + (IF d = c THEN 1 ELSE 0)
    BY <1>3
  <2> DEFINE h == IF src = c THEN 1 ELSE 0
             n == IF d = c THEN 1 ELSE 0
  <2>4. /\ Waiting(c) = h + Count(fifo, c) /\ Count(fifo, c) \in Nat
        /\ Waiting(c)' = h + Count(fifo', c) /\ Count(fifo', c) \in Nat
    BY <1>1, <1>5, WaitingIsSum, WaitingIsSumNext
  <2>5. h \in Nat /\ n \in Nat
    OBVIOUS
  <2>6. Count(fifo', c) + lost'[c] = Count(fifo, c) + lost[c] + n
        /\ sent'[c] = sent[c] + n
    BY <2>1, <2>3
  <2> HIDE DEF h, n
  <2> QED
    BY <2>2, <2>4, <2>5, <2>6
<1>7. CountsTyped /\ reader' = reader /\ runs' = runs
  BY <1>1
<1> QED
  BY <1>5, <1>6, <1>7, SumsKept

LEMMA ArgumentKeepsCounts ==
  ASSUME CInv, ProgramStoresArgument \/ HandlerStoresArgument
  PROVE  CInv'
<1> USE DEF CInv
<1>1. UNCHANGED <<src, runs, reader, sent>>
  BY DEF ProgramStoresArgument, HandlerStoresArgument, readerVars
<1>2. \/ /\ program # <<>> /\ Store(Head(program))
         /\ program' = Tail(program) /\ UNCHANGED handler
      \/ /\ handler # <<>> /\ Store(Head(handler))
         /\ handler' = Tail(handler) /\ UNCHANGED program
  BY DEF ProgramStoresArgument, HandlerStoresArgument
<1>3. \A s \in Seq(ArgumentWord) :
        s # <<>> => Head(s) \in ArgumentWord /\ Tail(s) \in Seq(ArgumentWord)
  BY HeadTailProperties
<1>4. program \in Seq(ArgumentWord) /\ handler \in Seq(ArgumentWord)
  BY DEF CountsTyped
<1>5. \E w \in ArgumentWord : Store(w)
  BY <1>2, <1>3, <1>4
<1>6. PICK w \in ArgumentWord : Store(w)
  BY <1>5
<1>7. program' \in Seq(ArgumentWord) /\ handler' \in Seq(ArgumentWord)
  BY <1>2, <1>3, <1>4
<1>8. w \in Word /\ w \notin Command
  BY ConstantsAssumption DEF Word
<1>9. fifo' \in Seq(Word) /\ lost' = lost
  <2>1. fifo \in Seq(Word)
    BY DEF CountsTyped
  <2>2. Append(fifo, w) \in Seq(Word)
    BY <1>8, <2>1, AppendProperties
  <2> QED
    BY <1>6, <1>8, <2>1, <2>2 DEF Store
<1>10. CountsTyped'
  BY <1>1, <1>7, <1>9 DEF CountsTyped
<1>11. ASSUME NEW c \in Command
       PROVE  runs'[c] + Waiting(c)' + lost'[c]
                = runs[c] + Waiting(c) + lost[c] + (sent'[c] - sent[c])
  <2>1. Count(fifo', c) + lost'[c] = Count(fifo, c) + lost[c] + 0
    <3>1. w # c
      BY <1>8
    <3> QED
      BY <1>6, <1>8, <3>1, StoreCounts
  <2>2. /\ runs'[c] = runs[c] /\ runs[c] \in Nat /\ lost[c] \in Nat
        /\ lost'[c] = lost[c] /\ sent'[c] = sent[c] /\ sent[c] \in Nat
    BY <1>1, <1>9 DEF CountsTyped
  <2> DEFINE h == IF src = c THEN 1 ELSE 0
  <2>3. /\ Waiting(c) = h + Count(fifo, c) /\ Count(fifo, c) \in Nat
        /\ Waiting(c)' = h + Count(fifo', c) /\ Count(fifo', c) \in Nat
    BY <1>1, <1>10, WaitingIsSum, WaitingIsSumNext
  <2>4. h \in Nat
    OBVIOUS
  <2> HIDE DEF h
  <2> QED
    BY <2>1, <2>2, <2>3, <2>4
<1>12. CountsTyped /\ reader' = reader /\ runs' = runs
  BY <1>1
<1> QED
  BY <1>10, <1>11, <1>12, SumsKept

(* What running a word adds to the count of runs.                          *)
LEMMA DispatchCounts ==
  ASSUME CountsTyped, NEW w \in Word, NEW second, Dispatch(w, second)
  PROVE  /\ runs' \in [Command -> Nat]
         /\ \A c \in Command :
              runs'[c] = runs[c] + (IF w = c /\ c \in Known THEN 1 ELSE 0)
<1>1. runs \in [Command -> Nat] /\ Known \subseteq Command
  BY ConstantsAssumption DEF CountsTyped, Known
<1>2. CASE w \in Known
  BY <1>1, <1>2 DEF Dispatch
<1>3. CASE w \notin Known
  BY <1>1, <1>3 DEF Dispatch
<1> QED
  BY <1>2, <1>3

(* The first read moves a word from the FIFO to the reader's hand.         *)
LEMMA ReadFirstKeepsCounts ==
  ASSUME CInv, ReadFirst
  PROVE  CInv'
<1> USE DEF CInv
<1>1. /\ src = None /\ src' = Head(fifo) /\ fifo # <<>> /\ fifo' = Tail(fifo)
      /\ reader = "pairs"
      /\ UNCHANGED <<program, handler, sent, runs, lost, reader>>
  BY DEF ReadFirst, senderVars
<1>2. /\ fifo \in Seq(Word) /\ fifo' \in Seq(Word) /\ src' \in Word
      /\ Head(fifo) \in Word
  BY <1>1, TailShorter DEF CountsTyped
<1>3. CountsTyped'
  BY <1>1, <1>2 DEF CountsTyped
<1>4. ASSUME NEW c \in Command
      PROVE  runs'[c] + Waiting(c)' + lost'[c]
               = runs[c] + Waiting(c) + lost[c] + (sent'[c] - sent[c])
  <2>1. c # None
    BY ConstantsAssumption, CommandWords
  <2>2. Count(fifo', c) = Count(fifo, c) - (IF src' = c THEN 1 ELSE 0)
    BY <1>1, <1>2, CountTail
  <2>3. /\ Waiting(c) = (IF src = c THEN 1 ELSE 0) + Count(fifo, c)
        /\ Waiting(c)' = (IF src' = c THEN 1 ELSE 0) + Count(fifo', c)
        /\ Waiting(c) \in Nat /\ Count(fifo, c) \in Nat
        /\ Count(fifo', c) \in Nat
    BY <1>3, WaitingIsSum, WaitingIsSumNext
  <2>4. Waiting(c)' = Waiting(c)
    BY <1>1, <2>1, <2>2, <2>3
  <2>5. /\ runs'[c] = runs[c] /\ runs[c] \in Nat /\ lost[c] \in Nat
        /\ lost'[c] = lost[c] /\ sent'[c] = sent[c] /\ sent[c] \in Nat
    BY <1>1 DEF CountsTyped
  <2> QED
    BY <2>3, <2>4, <2>5
<1>5. CountsTyped /\ reader' = reader /\ runs' = runs
  BY <1>1
<1> QED
  BY <1>3, <1>4, <1>5, SumsKept

(* The pair in hand is acted on by its first word; a second word that is a *)
(* command itself is lost to the count, as an argument.                    *)
LEMMA ReadSecondKeepsCounts ==
  ASSUME CInv, ReadSecond
  PROVE  CInv'
<1> USE DEF CInv
<1>1. /\ src # None /\ src' = None
      /\ \E second : Dispatch(src, second)
      /\ fifo' = IF fifo = <<>> THEN fifo ELSE Tail(fifo)
      /\ UNCHANGED <<program, handler, sent, lost, reader>>
  BY DEF ReadSecond, senderVars
<1>2. fifo \in Seq(Word) /\ fifo' \in Seq(Word) /\ src \in Word
      /\ reader = "pairs"
  BY <1>1, TailShorter DEF CountsTyped
<1>3. /\ runs' \in [Command -> Nat]
      /\ \A c \in Command : runs'[c] = runs[c] + (IF src = c THEN 1 ELSE 0)
  BY <1>1, <1>2, DispatchCounts DEF Known
<1>4. CountsTyped'
  BY <1>1, <1>2, <1>3 DEF CountsTyped
<1>5. ASSUME NEW c \in Command
      PROVE  runs'[c] + Waiting(c)' + lost'[c]
               <= runs[c] + Waiting(c) + lost[c] + (sent'[c] - sent[c])
  <2>1. c # None
    BY ConstantsAssumption, CommandWords
  <2>2. /\ Waiting(c) = (IF src = c THEN 1 ELSE 0) + Count(fifo, c)
        /\ Waiting(c)' = (IF src' = c THEN 1 ELSE 0) + Count(fifo', c)
        /\ Waiting(c) \in Nat /\ Count(fifo, c) \in Nat
        /\ Count(fifo', c) \in Nat
    BY <1>4, WaitingIsSum, WaitingIsSumNext
  <2>3. Count(fifo', c) <= Count(fifo, c)
    <3>1. CASE fifo = <<>>
      BY <1>1, <2>2, <3>1
    <3>2. CASE fifo # <<>>
      <4>1. Count(fifo', c) = Count(fifo, c) - (IF Head(fifo) = c THEN 1 ELSE 0)
        BY <1>1, <1>2, <3>2, CountTail
      <4> QED
        BY <2>2, <4>1
    <3> QED
      BY <3>1, <3>2
  <2>4. /\ runs[c] \in Nat /\ lost[c] \in Nat /\ runs'[c] \in Nat
        /\ lost'[c] = lost[c] /\ sent'[c] = sent[c] /\ sent[c] \in Nat
        /\ runs'[c] = runs[c] + (IF src = c THEN 1 ELSE 0)
    BY <1>1, <1>3 DEF CountsTyped
  <2>5. Waiting(c)' = Count(fifo', c)
    BY <1>1, <2>1, <2>2
  <2> DEFINE h == IF src = c THEN 1 ELSE 0
  <2>6. /\ Waiting(c) = h + Count(fifo, c) /\ runs'[c] = runs[c] + h
        /\ h \in Nat
    BY <2>2, <2>4
  <2> HIDE DEF h
  <2> QED
    BY <2>2, <2>3, <2>4, <2>5, <2>6
<1>6. CountsTyped /\ reader' = reader /\ reader # "single"
  BY <1>1, <1>2
<1> QED
  BY <1>4, <1>5, <1>6, SumsKept

(* The cheat handler runs the word it takes, if it is a command it knows,  *)
(* and drops every other.                                                  *)
LEMMA ReadOneKeepsCounts ==
  ASSUME CInv, ReadOne
  PROVE  CInv'
<1> USE DEF CInv
<1>1. /\ reader = "single"
      /\ fifo # <<>> /\ fifo' = Tail(fifo) /\ Dispatch(Head(fifo), None)
      /\ UNCHANGED <<src, program, handler, sent, lost, reader>>
  BY DEF ReadOne, senderVars
<1>2. fifo \in Seq(Word) /\ fifo' \in Seq(Word) /\ Head(fifo) \in Word
  BY <1>1, TailShorter DEF CountsTyped
<1>3. /\ runs' \in [Command -> Nat]
      /\ \A c \in Command :
           runs'[c] = runs[c] + (IF Head(fifo) = c /\ c \in Known THEN 1 ELSE 0)
  BY <1>1, <1>2, DispatchCounts
<1>4. CountsTyped'
  BY <1>1, <1>2, <1>3 DEF CountsTyped
<1>5. Known = CheatCommand
  BY <1>1 DEF Known
<1>6. ASSUME NEW c \in Command
      PROVE  LET before == runs[c] + Waiting(c) + lost[c]
                 after == runs'[c] + Waiting(c)' + lost'[c]
                 new == sent'[c] - sent[c]
             IN \/ after = before + new
                \/ after <= before + new /\ c \notin CheatCommand
  <2> DEFINE h == IF src = c THEN 1 ELSE 0
             n == IF Head(fifo) = c THEN 1 ELSE 0
             k == IF Head(fifo) = c /\ c \in Known THEN 1 ELSE 0
  <2>1. /\ h \in Nat /\ n \in Nat /\ k \in Nat
        /\ k = n \/ (k <= n /\ c \notin CheatCommand)
    BY <1>5
  <2>2. Count(fifo', c) = Count(fifo, c) - n
    BY <1>1, <1>2, CountTail
  <2>3. /\ Waiting(c) = h + Count(fifo, c) /\ Count(fifo, c) \in Nat
        /\ Waiting(c)' = h + Count(fifo', c) /\ Count(fifo', c) \in Nat
    BY <1>1, <1>4, WaitingIsSum, WaitingIsSumNext
  <2>4. /\ runs[c] \in Nat /\ lost[c] \in Nat /\ runs'[c] = runs[c] + k
        /\ lost'[c] = lost[c] /\ sent'[c] = sent[c] /\ sent[c] \in Nat
    BY <1>1, <1>3 DEF CountsTyped
  <2> HIDE DEF h, n, k
  <2> QED
    BY <2>1, <2>2, <2>3, <2>4
<1>7. \A c \in Command \ CheatCommand : runs'[c] = runs[c]
  BY <1>3, <1>5 DEF CountsTyped
<1>8. CountsTyped /\ reader' = reader
  BY <1>1
<1> QED
  BY <1>4, <1>6, <1>7, <1>8, SumsKept

LEMMA InitCounts == Init => CInv
<1> SUFFICES ASSUME Init PROVE CInv
  OBVIOUS
<1>1. CountsTyped
  BY EmptySeq DEF Init, CountsTyped
<1>2. ASSUME NEW c \in Command
      PROVE  runs[c] + Waiting(c) + lost[c] = sent[c] /\ sent[c] \in Nat
  <2>1. Waiting(c) = (IF src = c THEN 1 ELSE 0) + Count(<<>>, c)
    BY <1>1, WaitingIsSum DEF Init
  <2>2. c # None
    BY ConstantsAssumption, CommandWords
  <2>3. Count(<<>>, c) = 0
    <3>1. Places(<<>>, c) = {}
      BY DEF Places
    <3> QED
      BY <3>1, FS_EmptySet DEF Count
  <2> QED
    BY <2>1, <2>2, <2>3 DEF Init
<1>3. NoCommandInvented /\ CheatHandlerRunsItsOwn
  <2>1. ASSUME NEW c \in Command
        PROVE  runs[c] + Waiting(c) + lost[c] <= sent[c]
    BY <1>2
  <2>2. CheatCommand \subseteq Command /\ \A c \in Command : runs[c] = 0
    BY ConstantsAssumption DEF Init
  <2> QED
    BY <1>2, <2>1, <2>2 DEF NoCommandInvented, CheatHandlerRunsItsOwn
<1> QED
  BY <1>1, <1>3 DEF CInv

LEMMA NextKeepsCounts == CInv /\ [Next]_vars => CInv'
<1> SUFFICES ASSUME CInv, [Next]_vars PROVE CInv'
  OBVIOUS
<1>1. CASE UNCHANGED vars
  BY <1>1 DEF CInv, CountsTyped, NoCommandInvented, CheatHandlerRunsItsOwn,
              Waiting, Stream, vars, senderVars, readerVars
<1>2. CASE Next
  BY <1>2, ConstantsAssumption, SendKeepsCounts, ArgumentKeepsCounts,
     ReadFirstKeepsCounts, ReadSecondKeepsCounts, ReadOneKeepsCounts DEF Next
<1> QED
  BY <1>1, <1>2

LEMMA CountsHold == Spec => []CInv
BY InitCounts, NextKeepsCounts, PTL DEF Spec

(* Whatever stale or shifted words are read, no command is run more often  *)
(* than it was sent and not lost.                                          *)
THEOREM NothingIsInvented == Spec => []NoCommandInvented
<1>1. CInv => NoCommandInvented
  BY DEF CInv
<1> QED
  BY <1>1, CountsHold, PTL

(* The cheat handler runs every command it knows that found room in the    *)
(* FIFO, and never one that it does not know.                              *)
THEOREM CheatHandlerRunsWhatItKnows == Spec => []CheatHandlerRunsItsOwn
<1>1. CInv => CheatHandlerRunsItsOwn
  BY DEF CInv
<1> QED
  BY <1>1, CountsHold, PTL

-----------------------------------------------------------------------------
(* The pairs under way as a queue of commands.                             *)

Pairs(s) == [i \in 1 .. Len(s) \div 2 |-> s[2 * i - 1]]

(* Every command in the stream s is followed by its argument; that of the  *)
(* last one may still be with its sender, in p or in h.                    *)
Commands(s) == \A k \in 1 .. (Len(s) + 1) \div 2 : s[2 * k - 1] \in Command
Arguments(s) ==
  \A k \in 1 .. Len(s) \div 2 : s[2 * k] = Argument[s[2 * k - 1]]
ToCome(s, p, h) ==
  /\ Len(s) % 2 = 0 => p = <<>> /\ h = <<>>
  /\ Len(s) % 2 = 1 =>
       \/ p = <<Argument[s[Len(s)]]>> /\ h = <<>>
       \/ p = <<>> /\ h = <<Argument[s[Len(s)]]>>
WellPaired(s, p, h) == Commands(s) /\ Arguments(s) /\ ToCome(s, p, h)

LEMMA PairsAreWords ==
  ASSUME NEW s \in Seq(Word)
  PROVE  /\ Pairs(s) \in Seq(Word) /\ Len(Pairs(s)) = Len(s) \div 2
         /\ \A i \in 1 .. Len(s) \div 2 : Pairs(s)[i] = s[2 * i - 1]
<1>1. Len(s) \in Nat /\ Len(s) \div 2 \in Nat
  BY LenProperties
<1>2. \A i \in 1 .. Len(s) \div 2 : 2 * i - 1 \in 1 .. Len(s)
  BY <1>1
<1>3. \A i \in 1 .. Len(s) \div 2 : s[2 * i - 1] \in Word
  BY <1>1, <1>2, ElementOfSeq
<1>4. Pairs(s) \in [1 .. Len(s) \div 2 -> Word]
  BY <1>3 DEF Pairs
<1> QED
  BY <1>1, <1>4 DEF Pairs

(* The first word of a send completes no pair.                             *)
LEMMA CommandAppended ==
  ASSUME NEW s \in Seq(Word), NEW c \in Command, WellPaired(s, <<>>, <<>>),
         Len(s) % 2 = 0
  PROVE  /\ Pairs(Append(s, c)) = Pairs(s)
         /\ WellPaired(Append(s, c), <<Argument[c]>>, <<>>)
         /\ WellPaired(Append(s, c), <<>>, <<Argument[c]>>)
<1> DEFINE a == Append(s, c)
<1>1. /\ a \in Seq(Word) /\ Len(s) \in Nat /\ Len(a) = Len(s) + 1
      /\ \A i \in 1 .. Len(s) : a[i] = s[i]
      /\ a[Len(s) + 1] = c
  BY CommandWords, AppendProperties, LenProperties
<1> HIDE DEF a
<1>2. PICK n \in Nat : Len(s) = 2 * n
  <2>1. Len(s) = 2 * (Len(s) \div 2) /\ Len(s) \div 2 \in Nat
    BY <1>1
  <2> QED
    BY <2>1
<1>3. /\ Len(s) \div 2 = n /\ (Len(s) + 1) \div 2 = n
      /\ Len(a) \div 2 = n /\ (Len(a) + 1) \div 2 = n + 1 /\ Len(a) % 2 = 1
  BY <1>1, <1>2
<1>4. Pairs(a) = Pairs(s)
  <2>1. \A i \in 1 .. n : a[2 * i - 1] = s[2 * i - 1]
    BY <1>1, <1>2
  <2> QED
    BY <1>3, <2>1 DEF Pairs
<1>5. Commands(a)
  <2>1. ASSUME NEW k \in 1 .. n + 1 PROVE a[2 * k - 1] \in Command
    <3>1. CASE k = n + 1
      BY <1>1, <1>2, <3>1
    <3>2. CASE k \in 1 .. n
      <4>1. s[2 * k - 1] \in Command
        BY <1>3, <3>2 DEF WellPaired, Commands
      <4> QED
        BY <1>1, <1>2, <3>2, <4>1
    <3> QED
      BY <1>2, <3>1, <3>2
  <2> QED
    BY <1>3, <2>1 DEF Commands
<1>6. Arguments(a)
  <2>1. ASSUME NEW k \in 1 .. n PROVE a[2 * k] = Argument[a[2 * k - 1]]
    <3>1. s[2 * k] = Argument[s[2 * k - 1]]
      BY <1>3 DEF WellPaired, Arguments
    <3>2. 2 * k \in 1 .. Len(s) /\ 2 * k - 1 \in 1 .. Len(s)
      BY <1>2
    <3> QED
      BY <1>1, <3>1, <3>2
  <2> QED
    BY <1>3, <2>1 DEF Arguments
<1>7. ToCome(a, <<Argument[c]>>, <<>>) /\ ToCome(a, <<>>, <<Argument[c]>>)
  BY <1>1, <1>3 DEF ToCome
<1> QED
  BY <1>4, <1>5, <1>6, <1>7 DEF WellPaired, a

(* The second word completes one.                                          *)
LEMMA ArgumentAppended ==
  ASSUME NEW s \in Seq(Word), NEW p, NEW h, WellPaired(s, p, h),
         Len(s) % 2 = 1
  PROVE  LET c == s[Len(s)]
             a == Append(s, Argument[c])
         IN /\ c \in Command
            /\ Pairs(a) = Append(Pairs(s), c)
            /\ WellPaired(a, <<>>, <<>>)
<1> DEFINE c == s[Len(s)]
           a == Append(s, Argument[c])
<1>1. PICK n \in Nat : Len(s) = 2 * n + 1
  <2>1. Len(s) \in Nat
    BY LenProperties
  <2>2. Len(s) = 2 * (Len(s) \div 2) + 1 /\ Len(s) \div 2 \in Nat
    BY <2>1
  <2> QED
    BY <2>2
<1>2. /\ Len(s) \div 2 = n /\ (Len(s) + 1) \div 2 = n + 1
      /\ (Len(s) + 1) + 1 = 2 * n + 3 /\ (2 * n + 2) \div 2 = n + 1
      /\ (2 * n + 3) \div 2 = n + 1 /\ (2 * n + 2) % 2 = 0
  BY <1>1
<1>3. c \in Command
  <2>1. s[2 * (n + 1) - 1] \in Command
    BY <1>2 DEF WellPaired, Commands
  <2> QED
    BY <1>1, <2>1
<1>4. /\ a \in Seq(Word) /\ Len(a) = Len(s) + 1
      /\ \A i \in 1 .. Len(s) : a[i] = s[i]
      /\ a[Len(s) + 1] = Argument[c]
  BY <1>3, CommandWords, AppendProperties
<1> HIDE DEF a
<1>5. /\ Len(a) = 2 * n + 2 /\ Len(a) \div 2 = n + 1
      /\ (Len(a) + 1) \div 2 = n + 1 /\ Len(a) % 2 = 0
  BY <1>1, <1>2, <1>4
<1>6. Pairs(a) = Append(Pairs(s), c)
  <2> DEFINE q == Append(Pairs(s), c)
  <2>1. /\ Pairs(s) \in Seq(Word) /\ Len(Pairs(s)) = n
        /\ \A i \in 1 .. n : Pairs(s)[i] = s[2 * i - 1]
    BY <1>2, PairsAreWords
  <2>2. /\ Pairs(a) \in Seq(Word) /\ Len(Pairs(a)) = n + 1
        /\ \A i \in 1 .. n + 1 : Pairs(a)[i] = a[2 * i - 1]
    BY <1>4, <1>5, PairsAreWords
  <2>3. /\ q \in Seq(Word) /\ Len(q) = n + 1
        /\ \A i \in 1 .. n : q[i] = Pairs(s)[i]
        /\ q[n + 1] = c
    BY <1>3, <2>1, CommandWords, AppendProperties
  <2> HIDE DEF q
  <2>4. ASSUME NEW i \in 1 .. n + 1 PROVE Pairs(a)[i] = q[i]
    <3>1. CASE i = n + 1
      BY <1>1, <1>4, <2>2, <2>3, <3>1
    <3>2. CASE i \in 1 .. n
      <4>1. 2 * i - 1 \in 1 .. Len(s)
        BY <1>1, <3>2
      <4> QED
        BY <1>4, <2>1, <2>2, <2>3, <3>2, <4>1
    <3> QED
      BY <3>1, <3>2
  <2>5. Pairs(a) = q
    BY <2>2, <2>3, <2>4, SeqEqual
  <2> QED
    BY <2>5 DEF q
<1>7. Commands(a)
  <2>1. ASSUME NEW k \in 1 .. n + 1 PROVE a[2 * k - 1] \in Command
    <3>1. s[2 * k - 1] \in Command
      BY <1>2 DEF WellPaired, Commands
    <3>2. 2 * k - 1 \in 1 .. Len(s)
      BY <1>1
    <3> QED
      BY <1>4, <3>1, <3>2
  <2> QED
    BY <1>5, <2>1 DEF Commands
<1>8. Arguments(a)
  <2>1. ASSUME NEW k \in 1 .. n + 1 PROVE a[2 * k] = Argument[a[2 * k - 1]]
    <3>1. 2 * k - 1 \in 1 .. Len(s) /\ a[2 * k - 1] = s[2 * k - 1]
      BY <1>1, <1>4
    <3>2. CASE k = n + 1
      BY <1>1, <1>4, <3>1, <3>2
    <3>3. CASE k \in 1 .. n
      <4>1. s[2 * k] = Argument[s[2 * k - 1]]
        BY <1>2, <3>3 DEF WellPaired, Arguments
      <4>2. 2 * k \in 1 .. Len(s)
        BY <1>1, <3>3
      <4> QED
        BY <1>4, <3>1, <4>1, <4>2
    <3> QED
      BY <3>2, <3>3
  <2> QED
    BY <1>5, <2>1 DEF Arguments
<1>9. ToCome(a, <<>>, <<>>)
  BY <1>5 DEF ToCome
<1> QED
  BY <1>3, <1>6, <1>7, <1>8, <1>9 DEF WellPaired, a

(* A pair taken from the front is the oldest command with its argument.    *)
LEMMA PairTaken ==
  ASSUME NEW s \in Seq(Word), NEW t \in Seq(Word), NEW p, NEW h,
         WellPaired(s, p, h), Len(s) >= 2, Len(t) = Len(s) - 2,
         \A i \in 1 .. Len(t) : t[i] = s[i + 2]
  PROVE  /\ Pairs(s) # <<>> /\ Head(Pairs(s)) = s[1]
         /\ Pairs(t) = Tail(Pairs(s))
         /\ s[1] \in Command /\ s[2] = Argument[s[1]]
         /\ WellPaired(t, p, h)
<1> DEFINE n == Len(t) \div 2
           m == (Len(t) + 1) \div 2
<1>1. Len(s) \in Nat /\ Len(t) \in Nat
  BY LenProperties
<1>2. /\ n \in Nat /\ m \in Nat /\ Len(s) \div 2 = n + 1
      /\ (Len(s) + 1) \div 2 = m + 1 /\ Len(s) % 2 = Len(t) % 2
      /\ 2 * n <= Len(t) /\ 2 * m <= Len(t) + 1
  <2>1. \A l \in Nat : /\ (l + 2) \div 2 = (l \div 2) + 1 /\ l \div 2 \in Nat
                       /\ ((l + 2) + 1) \div 2 = ((l + 1) \div 2) + 1
                       /\ (l + 1) \div 2 \in Nat /\ (l + 2) % 2 = l % 2
    OBVIOUS
  <2>2. \A l \in Nat : 2 * (l \div 2) <= l /\ 2 * ((l + 1) \div 2) <= l + 1
    OBVIOUS
  <2>3. Len(s) = Len(t) + 2
    BY <1>1
  <2> QED
    BY <1>1, <2>1, <2>2, <2>3
<1> HIDE DEF n, m
<1>3. /\ Pairs(s) \in Seq(Word) /\ Len(Pairs(s)) = n + 1
      /\ \A i \in 1 .. n + 1 : Pairs(s)[i] = s[2 * i - 1]
  BY <1>2, PairsAreWords
<1>4. /\ Pairs(t) \in Seq(Word) /\ Len(Pairs(t)) = n
      /\ \A i \in 1 .. n : Pairs(t)[i] = t[2 * i - 1]
  BY PairsAreWords DEF n
<1>5. Pairs(s) # <<>> /\ Head(Pairs(s)) = s[1]
  <2>1. Pairs(s) # <<>>
    BY <1>2, <1>3, EmptySeq
  <2>2. Pairs(s)[1] = s[1]
    BY <1>2, <1>3
  <2> QED
    BY <1>3, <2>1, <2>2
<1>6. Pairs(t) = Tail(Pairs(s))
  <2> DEFINE q == Tail(Pairs(s))
  <2>1. /\ q \in Seq(Word) /\ Len(q) = n
        /\ \A i \in 1 .. n : q[i] = Pairs(s)[i + 1]
    BY <1>2, <1>3, <1>5, HeadTailProperties
  <2> HIDE DEF q
  <2>2. ASSUME NEW i \in 1 .. n PROVE Pairs(t)[i] = q[i]
    <3>1. 2 * i - 1 \in 1 .. Len(t) /\ (2 * i - 1) + 2 = 2 * (i + 1) - 1
          /\ i + 1 \in 1 .. n + 1
      BY <1>1, <1>2
    <3>2. t[2 * i - 1] = s[(2 * i - 1) + 2]
      BY <3>1
    <3>3. Pairs(s)[i + 1] = s[2 * (i + 1) - 1]
      BY <1>3, <3>1
    <3> QED
      BY <1>4, <2>1, <3>1, <3>2, <3>3
  <2>3. Pairs(t) = q
    BY <1>4, <2>1, <2>2, SeqEqual
  <2> QED
    BY <2>3 DEF q
<1>7. s[1] \in Command /\ s[2] = Argument[s[1]]
  <2>1. 1 \in 1 .. m + 1 /\ 1 \in 1 .. n + 1
    BY <1>2
  <2>2. s[2 * 1 - 1] \in Command /\ s[2 * 1] = Argument[s[2 * 1 - 1]]
    BY <1>2, <2>1 DEF WellPaired, Commands, Arguments
  <2> QED
    BY <2>2
<1>8. Commands(t)
  <2>1. ASSUME NEW k \in 1 .. m PROVE t[2 * k - 1] \in Command
    <3>1. 2 * k - 1 \in 1 .. Len(t) /\ (2 * k - 1) + 2 = 2 * (k + 1) - 1
          /\ k + 1 \in 1 .. m + 1
      BY <1>1, <1>2
    <3>2. s[2 * (k + 1) - 1] \in Command
      BY <1>2, <3>1 DEF WellPaired, Commands
    <3>3. t[2 * k - 1] = s[(2 * k - 1) + 2]
      BY <3>1
    <3> QED
      BY <3>1, <3>2, <3>3
  <2> QED
    BY <2>1 DEF Commands, m
<1>9. Arguments(t)
  <2>1. ASSUME NEW k \in 1 .. n PROVE t[2 * k] = Argument[t[2 * k - 1]]
    <3>1. /\ 2 * k - 1 \in 1 .. Len(t) /\ (2 * k - 1) + 2 = 2 * (k + 1) - 1
          /\ 2 * k \in 1 .. Len(t) /\ 2 * k + 2 = 2 * (k + 1)
          /\ k + 1 \in 1 .. n + 1
      <4>1. k \in Nat /\ 1 <= k /\ k <= n /\ n \in Nat /\ 2 * n <= Len(t)
        BY <1>2
      <4>2. 2 * k <= Len(t)
        BY <1>1, <4>1
      <4> QED
        BY <1>1, <4>1, <4>2
    <3>2. s[2 * (k + 1)] = Argument[s[2 * (k + 1) - 1]]
      BY <1>2, <3>1 DEF WellPaired, Arguments
    <3>3. t[2 * k - 1] = s[(2 * k - 1) + 2] /\ t[2 * k] = s[2 * k + 2]
      BY <3>1
    <3> QED
      BY <3>1, <3>2, <3>3
  <2> QED
    BY <2>1 DEF Arguments, n
<1>10. ToCome(t, p, h)
  <2>1. ASSUME Len(t) % 2 = 1 PROVE t[Len(t)] = s[Len(s)]
    <3>1. Len(t) \in 1 .. Len(t) /\ Len(t) + 2 = Len(s)
      BY <1>1, <2>1
    <3> QED
      BY <3>1
  <2> QED
    BY <1>2, <2>1 DEF WellPaired, ToCome
<1> QED
  BY <1>5, <1>6, <1>7, <1>8, <1>9, <1>10 DEF WellPaired

-----------------------------------------------------------------------------
(* Undisturbed, the channel carries out the queue of commands.             *)

SInv == WordsTyped /\ (Undisturbed => WellPaired(Stream, program, handler))

StreamOf(w, f) == (IF w = None THEN <<>> ELSE <<w>>) \o f

LEMMA StreamIs == Stream = StreamOf(src, fifo) /\ Stream' = StreamOf(src', fifo')
BY DEF Stream, StreamOf

LEMMA PairsIs == CompletePairs = Pairs(Stream) /\ CompletePairs' = Pairs(Stream')
BY DEF CompletePairs, Pairs

(* A word in hand is the first of the stream.                              *)
LEMMA StreamWithHand ==
  ASSUME NEW f \in Seq(Word), NEW w \in Word
  PROVE  /\ StreamOf(w, f) \in Seq(Word) /\ Len(StreamOf(w, f)) = 1 + Len(f)
         /\ StreamOf(w, f)[1] = w
         /\ \A i \in 1 .. Len(f) : StreamOf(w, f)[i + 1] = f[i]
<1>1. <<w>> \in Seq(Word) /\ Len(<<w>>) = 1 /\ <<w>>[1] = w /\ Len(f) \in Nat
  BY LenProperties
<1> DEFINE s == <<w>> \o f
<1>2. /\ s \in Seq(Word) /\ Len(s) = 1 + Len(f)
      /\ \A i \in 1 .. 1 + Len(f) : s[i] = IF i <= 1 THEN <<w>>[i] ELSE f[i - 1]
  BY <1>1, ConcatProperties
<1>3. StreamOf(w, f) = s
  BY ConstantsAssumption DEF StreamOf
<1> HIDE DEF s
<1>4. s[1] = w /\ \A i \in 1 .. Len(f) : s[i + 1] = f[i]
  <2>1. s[1] = w
    BY <1>1, <1>2
  <2>2. ASSUME NEW i \in 1 .. Len(f) PROVE s[i + 1] = f[i]
    <3>1. i + 1 \in 1 .. 1 + Len(f) /\ ~(i + 1 <= 1) /\ (i + 1) - 1 = i
      BY <1>1
    <3> QED
      BY <1>2, <3>1
  <2> QED
    BY <2>1, <2>2
<1> QED
  BY <1>2, <1>3, <1>4

LEMMA StreamEmptyHand ==
  ASSUME NEW f \in Seq(Word)
  PROVE  StreamOf(None, f) = f
BY ConcatEmptySeq DEF StreamOf

(* A word stored comes last in the stream.                                 *)
LEMMA StreamAppended ==
  ASSUME NEW f \in Seq(Word), NEW x \in Word \cup {None}, NEW w \in Word
  PROVE  /\ StreamOf(x, f) \in Seq(Word)
         /\ StreamOf(x, Append(f, w)) = Append(StreamOf(x, f), w)
<1> DEFINE g == Append(f, w)
<1>1. /\ g \in Seq(Word) /\ Len(g) = Len(f) + 1 /\ Len(f) \in Nat
      /\ \A i \in 1 .. Len(f) : g[i] = f[i]
      /\ g[Len(f) + 1] = w
  BY AppendProperties, LenProperties
<1>2. CASE x = None
  BY <1>1, <1>2, StreamEmptyHand
<1>3. CASE x \in Word
  <2> HIDE DEF g
  <2> DEFINE s == StreamOf(x, f)
             t == StreamOf(x, g)
             a == Append(s, w)
  <2>1. /\ s \in Seq(Word) /\ Len(s) = 1 + Len(f) /\ s[1] = x
        /\ \A i \in 1 .. Len(f) : s[i + 1] = f[i]
    BY <1>3, StreamWithHand
  <2>2. /\ t \in Seq(Word) /\ Len(t) = 1 + Len(g) /\ t[1] = x
        /\ \A i \in 1 .. Len(g) : t[i + 1] = g[i]
    BY <1>1, <1>3, StreamWithHand
  <2> HIDE DEF s, t
  <2>3. /\ a \in Seq(Word) /\ Len(a) = Len(s) + 1
        /\ \A i \in 1 .. Len(s) : a[i] = s[i]
        /\ a[Len(s) + 1] = w
    BY <2>1, AppendProperties
  <2> HIDE DEF a
  <2>4. ASSUME NEW i \in 1 .. Len(t) PROVE t[i] = a[i]
    <3>1. CASE i = 1
      BY <1>1, <2>1, <2>2, <2>3, <3>1
    <3>2. CASE i = Len(f) + 2
      <4>1. Len(g) \in 1 .. Len(g) /\ Len(g) + 1 = i
        BY <1>1, <3>2
      <4> QED
        BY <1>1, <2>1, <2>2, <2>3, <3>2, <4>1
    <3>3. CASE i \in 2 .. Len(f) + 1
      <4>1. i - 1 \in 1 .. Len(f) /\ (i - 1) + 1 = i /\ i - 1 \in 1 .. Len(g)
            /\ i \in 1 .. Len(s)
        BY <1>1, <2>1, <3>3
      <4>2. t[i] = g[i - 1] /\ g[i - 1] = f[i - 1] /\ s[i] = f[i - 1]
            /\ a[i] = s[i]
        BY <1>1, <2>1, <2>2, <2>3, <4>1
      <4> QED
        BY <4>2
    <3> QED
      BY <1>1, <2>2, <3>1, <3>2, <3>3
  <2>5. t = a
    BY <1>1, <2>1, <2>2, <2>3, <2>4, SeqEqual
  <2> QED
    BY <2>1, <2>5 DEF s, t, a, g
<1> QED
  BY <1>2, <1>3

(* Nothing that has disturbed the channel is forgotten.                    *)
LEMMA DisturbedForEver ==
  ASSUME [Next]_vars, Undisturbed'
  PROVE  Undisturbed
<1>1. CASE UNCHANGED vars
  BY <1>1 DEF vars, senderVars, readerVars, Undisturbed
<1>2. CASE ReadOne
  BY <1>2 DEF ReadOne, Undisturbed
<1>3. CASE ReadFirst
  BY <1>3 DEF ReadFirst, Undisturbed, senderVars
<1>4. CASE ReadSecond
  <2>1. UNCHANGED <<reader, overflow, cutIn>>
    BY <1>4 DEF ReadSecond, senderVars
  <2>2. halfRead' = (halfRead \/ fifo = <<>>)
    BY <1>4 DEF ReadSecond
  <2>3. ~ halfRead
    BY <2>2, Zenon DEF Undisturbed
  <2> QED
    BY <2>1, <2>3 DEF Undisturbed
<1>5. CASE ProgramStoresArgument \/ HandlerStoresArgument
  <2>1. UNCHANGED <<reader, halfRead, cutIn>>
    BY <1>5 DEF ProgramStoresArgument, HandlerStoresArgument, readerVars
  <2>2. \E w : Store(w)
    BY <1>5 DEF ProgramStoresArgument, HandlerStoresArgument
  <2>3. ~ overflow' => overflow' = overflow
    BY <2>2 DEF Store
  <2> QED
    BY <2>1, <2>3 DEF Undisturbed
<1>6. CASE \E c \in Command : ProgramSends(c) \/ HandlerSends(c)
  <2>1. UNCHANGED <<reader, halfRead>> /\ \E w : Store(w)
    BY <1>6 DEF ProgramSends, HandlerSends, readerVars
  <2>2. ~ overflow' => overflow' = overflow
    BY <2>1 DEF Store
  <2>3. cutIn' = cutIn \/ cutIn' = (cutIn \/ program # <<>>)
    BY <1>6 DEF ProgramSends, HandlerSends
  <2>4. ~ cutIn
    BY <2>3, Zenon DEF Undisturbed
  <2> QED
    BY <2>1, <2>2, <2>4 DEF Undisturbed
<1> QED
  BY <1>1, <1>2, <1>3, <1>4, <1>5, <1>6, ConstantsAssumption DEF Next

LEMMA StreamTyped ==
  ASSUME WordsTyped
  PROVE  Stream \in Seq(Word)
<1>1. fifo \in Seq(Word) /\ src \in Word \cup {None}
  BY DEF WordsTyped
<1>2. CASE src = None
  BY <1>1, <1>2, StreamIs, StreamEmptyHand
<1>3. CASE src \in Word
  BY <1>1, <1>3, StreamIs, StreamWithHand
<1> QED
  BY <1>1, <1>2, <1>3

(* An undisturbed store lengthens the stream.                              *)
LEMMA StoreAppends ==
  ASSUME WordsTyped, NEW w \in Word, Store(w), UNCHANGED src, Undisturbed'
  PROVE  Stream \in Seq(Word) /\ Stream' = Append(Stream, w)
<1>1. fifo \in Seq(Word) /\ src \in Word \cup {None}
  BY DEF WordsTyped
<1>2. fifo' = Append(fifo, w)
  BY DEF Store, Undisturbed
<1> QED
  BY <1>1, <1>2, StreamIs, StreamAppended

(* An undisturbed send begins between two pairs and completes none.        *)
LEMMA SendKeepsStream ==
  ASSUME SInv, NEW c \in Command, ProgramSends(c) \/ HandlerSends(c),
         Undisturbed, Undisturbed'
  PROVE  /\ WellPaired(Stream', program', handler')
         /\ UNCHANGED <<CompletePairs, ran>>
<1>1. /\ Store(c) /\ UNCHANGED <<src, ran>> /\ program = <<>> /\ handler = <<>>
      /\ \/ program' = <<Argument[c]>> /\ handler' = <<>>
         \/ program' = <<>> /\ handler' = <<Argument[c]>>
  BY DEF ProgramSends, HandlerSends, readerVars, Undisturbed
<1>2. Stream \in Seq(Word) /\ Stream' = Append(Stream, c)
  BY <1>1, CommandWords, StoreAppends DEF SInv
<1>3. WellPaired(Stream, <<>>, <<>>)
  BY <1>1 DEF SInv
<1>4. Len(Stream) % 2 = 0
  <2>1. <<Argument[Stream[Len(Stream)]]>> # <<>>
    OBVIOUS
  <2>2. Len(Stream) % 2 # 1
    BY <1>3, <2>1 DEF WellPaired, ToCome
  <2> QED
    BY <1>2, <2>2, LenProperties
<1>5. /\ Pairs(Append(Stream, c)) = Pairs(Stream)
      /\ WellPaired(Append(Stream, c), <<Argument[c]>>, <<>>)
      /\ WellPaired(Append(Stream, c), <<>>, <<Argument[c]>>)
  BY <1>2, <1>3, <1>4, CommandAppended
<1> QED
  BY <1>1, <1>2, <1>5, PairsIs

(* The argument's store gives the command.                                 *)
LEMMA ArgumentGives ==
  ASSUME SInv, ProgramStoresArgument \/ HandlerStoresArgument,
         Undisturbed, Undisturbed'
  PROVE  /\ WellPaired(Stream', program', handler')
         /\ \E c \in Command : Queue!Give(c)
<1> DEFINE last == Stream[Len(Stream)]
<1>1. /\ WellPaired(Stream, program, handler) /\ UNCHANGED <<src, ran>>
      /\ \/ /\ program # <<>> /\ Store(Head(program))
            /\ program' = Tail(program) /\ UNCHANGED handler
         \/ /\ handler # <<>> /\ Store(Head(handler))
            /\ handler' = Tail(handler) /\ UNCHANGED program
  BY DEF SInv, ProgramStoresArgument, HandlerStoresArgument, readerVars
<1>2. Stream \in Seq(Word)
  BY StreamTyped DEF SInv
<1>3. Len(Stream) % 2 = 1
  <2>1. Len(Stream) % 2 # 0
    BY <1>1 DEF WellPaired, ToCome
  <2> QED
    BY <1>2, <2>1, LenProperties
<1>4. \/ program = <<Argument[last]>> /\ handler = <<>>
      \/ program = <<>> /\ handler = <<Argument[last]>>
  BY <1>1, <1>3 DEF WellPaired, ToCome
<1>5. Head(<<Argument[last]>>) = Argument[last] /\ Tail(<<Argument[last]>>) = <<>>
  OBVIOUS
<1> HIDE DEF last
<1>6. Store(Argument[last]) /\ program' = <<>> /\ handler' = <<>>
  BY <1>1, <1>4, <1>5
<1>7. /\ last \in Command
      /\ Pairs(Append(Stream, Argument[last])) = Append(Pairs(Stream), last)
      /\ WellPaired(Append(Stream, Argument[last]), <<>>, <<>>)
  BY <1>1, <1>2, <1>3, ArgumentAppended DEF last
<1>8. Stream' = Append(Stream, Argument[last])
  BY <1>1, <1>6, <1>7, CommandWords, StoreAppends DEF SInv
<1>9. Queue!Give(last)
  BY <1>1, <1>7, <1>8, PairsIs DEF Queue!Give
<1> QED
  BY <1>6, <1>7, <1>8, <1>9

(* The first read leaves the stream as it is.                              *)
LEMMA ReadFirstKeepsStream ==
  ASSUME SInv, ReadFirst
  PROVE  Stream' = Stream /\ UNCHANGED <<CompletePairs, ran, program, handler>>
<1>1. /\ src = None /\ src' = Head(fifo) /\ fifo # <<>> /\ fifo' = Tail(fifo)
      /\ UNCHANGED <<ran, program, handler>>
  BY DEF ReadFirst, senderVars
<1>2. /\ fifo \in Seq(Word) /\ fifo' \in Seq(Word) /\ src' \in Word
      /\ Len(fifo') = Len(fifo) - 1 /\ Len(fifo) \in Nat \ {0}
  BY <1>1, TailShorter, LenProperties DEF SInv, WordsTyped
<1>3. \A i \in 1 .. Len(fifo') : fifo'[i] = fifo[i + 1]
  BY <1>1, <1>2, HeadTailProperties
<1> DEFINE t == StreamOf(src', fifo')
<1>4. /\ t \in Seq(Word) /\ Len(t) = 1 + Len(fifo') /\ t[1] = src'
      /\ \A i \in 1 .. Len(fifo') : t[i + 1] = fifo'[i]
  BY <1>2, StreamWithHand
<1> HIDE DEF t
<1>5. ASSUME NEW i \in 1 .. Len(t) PROVE t[i] = fifo[i]
  <2>1. CASE i = 1
    <3>1. Head(fifo) = fifo[1]
      BY <1>1
    <3> QED
      BY <1>1, <1>4, <2>1, <3>1
  <2>2. CASE i # 1
    <3>1. i - 1 \in 1 .. Len(fifo') /\ (i - 1) + 1 = i
      BY <1>2, <1>4, <2>2
    <3>2. t[(i - 1) + 1] = fifo'[i - 1] /\ fifo'[i - 1] = fifo[(i - 1) + 1]
      BY <1>3, <1>4, <3>1
    <3> QED
      BY <3>1, <3>2
  <2> QED
    BY <2>1, <2>2
<1>6. t = fifo
  BY <1>2, <1>4, <1>5, SeqEqual
<1>7. Stream = fifo /\ Stream' = fifo
  BY <1>1, <1>2, <1>6, StreamIs, StreamEmptyHand DEF t
<1> QED
  BY <1>1, <1>7, PairsIs

(* The second read carries out the oldest command.                         *)
LEMMA ReadSecondCarriesOut ==
  ASSUME SInv, ReadSecond, Undisturbed, Undisturbed'
  PROVE  WellPaired(Stream', program', handler') /\ Queue!CarryOut
<1>1. /\ src # None /\ src' = None /\ fifo # <<>> /\ fifo' = Tail(fifo)
      /\ Dispatch(src, Head(fifo)) /\ UNCHANGED <<program, handler>>
  BY DEF ReadSecond, senderVars, Undisturbed
<1>2. /\ fifo \in Seq(Word) /\ fifo' \in Seq(Word) /\ src \in Word
      /\ Len(fifo') = Len(fifo) - 1 /\ Len(fifo) \in Nat \ {0}
      /\ Head(fifo) = fifo[1]
  BY <1>1, TailShorter, LenProperties DEF SInv, WordsTyped
<1>3. \A i \in 1 .. Len(fifo') : fifo'[i] = fifo[i + 1]
  BY <1>1, <1>2, HeadTailProperties
<1> DEFINE s == Stream
<1>4. /\ s \in Seq(Word) /\ Len(s) = 1 + Len(fifo) /\ s[1] = src
      /\ \A i \in 1 .. Len(fifo) : s[i + 1] = fifo[i]
  BY <1>2, StreamIs, StreamWithHand
<1>5. Stream' = fifo'
  BY <1>1, <1>2, StreamIs, StreamEmptyHand
<1>6. WellPaired(s, program, handler)
  BY DEF SInv
<1> HIDE DEF s
<1>7. /\ Len(s) >= 2 /\ Len(fifo') = Len(s) - 2
      /\ \A i \in 1 .. Len(fifo') : fifo'[i] = s[i + 2]
      /\ s[2] = Head(fifo)
  <2>1. ASSUME NEW i \in 1 .. Len(fifo') PROVE fifo'[i] = s[i + 2]
    <3>1. i + 1 \in 1 .. Len(fifo) /\ (i + 1) + 1 = i + 2
      BY <1>2
    <3>2. s[(i + 1) + 1] = fifo[i + 1]
      BY <1>4, <3>1
    <3> QED
      BY <1>3, <3>1, <3>2
  <2>2. s[1 + 1] = fifo[1]
    BY <1>2, <1>4
  <2>3. Len(s) >= 2 /\ Len(fifo') = Len(s) - 2
    BY <1>2, <1>4
  <2> QED
    BY <1>2, <2>1, <2>2, <2>3
<1>8. /\ Pairs(s) # <<>> /\ Head(Pairs(s)) = s[1]
      /\ Pairs(fifo') = Tail(Pairs(s))
      /\ s[1] \in Command /\ s[2] = Argument[s[1]]
      /\ WellPaired(fifo', program, handler)
  BY <1>2, <1>4, <1>6, <1>7, PairTaken
<1>9. ran' = <<s[1], Argument[s[1]]>>
  BY <1>1, <1>4, <1>7, <1>8 DEF Dispatch, Known, Undisturbed
<1>10. CompletePairs = Pairs(s) /\ CompletePairs' = Pairs(fifo')
  BY <1>5, PairsIs DEF s
<1>11. Queue!CarryOut
  BY <1>8, <1>9, <1>10 DEF Queue!CarryOut
<1> QED
  BY <1>1, <1>5, <1>8, <1>11

LEMMA InitStream == Init => SInv /\ Queue!Init
<1> SUFFICES ASSUME Init PROVE SInv /\ Queue!Init
  OBVIOUS
<1>1. WordsTyped
  BY InitPaired DEF PInv
<1>2. Stream = <<>>
  BY StreamIs, StreamEmptyHand, EmptySeq DEF Init
<1>3. WellPaired(<<>>, <<>>, <<>>)
  BY EmptySeq DEF WellPaired, Commands, Arguments, ToCome
<1>4. CompletePairs = <<>>
  <2>1. Pairs(<<>>) \in Seq(Word) /\ Len(Pairs(<<>>)) = 0
    <3>1. <<>> \in Seq(Word) /\ Len(<<>>) = 0 /\ 0 \div 2 = 0
      BY EmptySeq
    <3>2. Pairs(<<>>) \in Seq(Word) /\ Len(Pairs(<<>>)) = Len(<<>>) \div 2
      BY <3>1, PairsAreWords
    <3> QED
      BY <3>1, <3>2
  <2> QED
    BY <1>2, <2>1, PairsIs, EmptySeq
<1> QED
  BY <1>1, <1>2, <1>3, <1>4 DEF SInv, Init, Queue!Init

(* Every step, as long as nothing disturbs the channel, is a step of the   *)
(* queue or leaves it alone.                                               *)
LEMMA StepOfQueue ==
  ASSUME PInv, SInv, [Next]_vars
  PROVE  /\ SInv'
         /\ Undisturbed' => [Queue!Next]_<<CompletePairs, ran>>
<1>1. WordsTyped'
  BY NextKeepsPairing DEF PInv
<1>2. CASE ~ Undisturbed'
  BY <1>1, <1>2 DEF SInv
<1>3. CASE Undisturbed'
  <2>1. Undisturbed
    BY <1>3, DisturbedForEver
  <2>2. CASE UNCHANGED vars
    <3>1. UNCHANGED <<fifo, src, program, handler, ran>>
      BY <2>2 DEF vars, senderVars, readerVars
    <3>2. Stream' = Stream
      BY <3>1 DEF Stream
    <3>3. CompletePairs' = CompletePairs
      BY <3>2, PairsIs
    <3> QED
      BY <1>1, <2>1, <3>1, <3>2, <3>3 DEF SInv
  <2>3. CASE \E c \in Command : ProgramSends(c) \/ HandlerSends(c)
    BY <1>1, <1>3, <2>1, <2>3, SendKeepsStream DEF SInv
  <2>4. CASE ProgramStoresArgument \/ HandlerStoresArgument
    BY <1>1, <1>3, <2>1, <2>4, ArgumentGives DEF SInv, Queue!Next
  <2>5. CASE ReadFirst
    BY <1>1, <2>1, <2>5, ReadFirstKeepsStream DEF SInv
  <2>6. CASE ReadSecond
    BY <1>1, <1>3, <2>1, <2>6, ReadSecondCarriesOut DEF SInv, Queue!Next
  <2>7. CASE ReadOne
    BY <1>3, <2>7 DEF ReadOne, Undisturbed
  <2> QED
    BY <2>2, <2>3, <2>4, <2>5, <2>6, <2>7, ConstantsAssumption DEF Next
<1> QED
  BY <1>2, <1>3

(* Until a handler cuts in, a word is dropped or one is read before it     *)
(* came, the channel implements the queue of commands: nothing is lost,    *)
(* doubled, reordered or given another command's argument.                 *)
THEOREM ChannelImplementsQueue == Spec => UndisturbedIsCommandQueue
<1>1. Init => PInv /\ SInv /\ Queue!Init
  BY InitPaired, InitStream
<1>2. PInv /\ SInv /\ [Next]_vars => PInv' /\ SInv'
  BY NextKeepsPairing, StepOfQueue
<1>3. PInv /\ SInv /\ [Next]_vars
        => [Undisturbed' => [Queue!Next]_<<CompletePairs, ran>>]_vars
  BY StepOfQueue
<1> QED
  BY <1>1, <1>2, <1>3, PTL DEF Spec, UndisturbedIsCommandQueue
=============================================================================
