----------------------------- MODULE IpcChannel ------------------------------
(***************************************************************************)
(* Commands between the two processors, word by word.  Each direction has  *)
(* a hardware FIFO of 32-bit words.  A command is two words, written by    *)
(* two stores with no lock and no look at the FIFO (common/gba_ipc.c), so  *)
(* an interrupt handler of the sender may put a command of its own between *)
(* them: on the ARM7 the sound timers' handlers cut into what the main     *)
(* loop sends (arm7/source/main.c); on the ARM9 the FIFO handler cuts into *)
(* what main() sends at startup.                                           *)
(*                                                                         *)
(* The receiver looks whether the FIFO holds a word and then reads two     *)
(* (arm7dmareq, arm9/source/Sound_arm.cpp, and the ARM7's main loop).  For *)
(* an image with a patch file of cheats it is arm7dmareqandcheat, which    *)
(* reads one word at a time and acts on fewer commands; which of the two   *)
(* reads is settled while the image is loaded, before the game runs.       *)
(* The FIFO itself is hardware: a word stored into a full one is lost, and *)
(* reading an empty one yields the word that was read last.                *)
(***************************************************************************)
EXTENDS Naturals, Sequences, FiniteSets

CONSTANTS
  Command,      (* first words arm7dmareq acts on                         *)
  CheatCommand, (* those that arm7dmareqandcheat acts on                  *)
  Readers,      (* the handlers an image may be played with: "pairs", and *)
                (* "single" with cheats                                   *)
  Argument,     (* Argument[c]: the second word c is sent with            *)
  Interrupting, (* the commands that interrupt handlers send              *)
  FifoWords,    (* words a FIFO holds: 16 in the machine                  *)
  MaxSent,      (* bound: how often each command is sent                  *)
  WholeSends,   (* TRUE: the receiver never looks between two stores      *)
  NeverFull,    (* TRUE: the receiver always leaves room for a command    *)
  None          (* nothing read, nothing run                              *)

ArgumentWord == {Argument[c] : c \in Command}
Word == Command \cup ArgumentWord

ASSUME ConstantsAssumption ==
  /\ {Interrupting, CheatCommand} \subseteq SUBSET Command
  /\ Readers \subseteq {"pairs", "single"}
  /\ Command \cap ArgumentWord = {}
  /\ None \notin Word
  /\ FifoWords \in Nat \ {0, 1}
  /\ MaxSent \in Nat
  /\ {WholeSends, NeverFull} \subseteq BOOLEAN

VARIABLES
  fifo,      (* words in the hardware FIFO, oldest first                  *)
  lastRead,  (* the word read last                                        *)
  program,   (* words the sender's program is still to store              *)
  handler,   (* words its interrupt handler is still to store             *)
  reader,    (* which handler reads                                       *)
  src,       (* the first word of the pair being read, None between pairs *)
  ran,       (* the pair the receiver acted on last                       *)
  sent,      (* how often each command was sent                           *)
  runs,      (* how often each command was run                            *)
  lost,      (* how often each command's first word met a full FIFO       *)
  halfRead,  (* a second word was read that had not arrived               *)
  cutIn,     (* a handler has sent between the program's two stores       *)
  overflow   (* a word was stored into a full FIFO                        *)

senderVars == <<program, handler, sent, cutIn>>
readerVars == <<lastRead, reader, src, ran, runs, halfRead>>
vars == <<fifo, senderVars, readerVars, lost, overflow>>

TypeOK ==
  /\ fifo \in Seq(Word) /\ Len(fifo) <= FifoWords
  /\ lastRead \in Word \cup {None}
  /\ program \in Seq(Word) /\ Len(program) <= 2
  /\ handler \in Seq(Word) /\ Len(handler) <= 2
  /\ reader \in Readers
  /\ src \in Word \cup {None}
  /\ ran \in (Command \X (Word \cup {None})) \cup {None}
  /\ sent \in [Command -> 0 .. MaxSent]
  /\ runs \in [Command -> 0 .. MaxSent]
  /\ lost \in [Command -> 0 .. MaxSent]
  /\ {halfRead, cutIn, overflow} \subseteq BOOLEAN

Init ==
  /\ fifo = <<>> /\ lastRead = None
  /\ program = <<>> /\ handler = <<>>
  /\ reader \in Readers /\ src = None /\ ran = None
  /\ sent = [c \in Command |-> 0]
  /\ runs = [c \in Command |-> 0]
  /\ lost = [c \in Command |-> 0]
  /\ halfRead = FALSE /\ cutIn = FALSE /\ overflow = FALSE

-----------------------------------------------------------------------------

(* REG_IPC_FIFO_TX = w                                                     *)
Store(w) ==
  IF Len(fifo) < FifoWords
    THEN /\ fifo' = Append(fifo, w)
         /\ UNCHANGED <<lost, overflow>>
    ELSE /\ overflow' = TRUE
         /\ lost' = IF w \in Command THEN [lost EXCEPT ![w] = @ + 1] ELSE lost
         /\ UNCHANGED fifo

HasRoom == NeverFull => Len(fifo) + 2 <= FifoWords
CountSent(c) == sent[c] < MaxSent /\ sent' = [sent EXCEPT ![c] = @ + 1]

(* SendArm9Command / SendArm7Command, called by the program: first word.   *)
ProgramSends(c) ==
  /\ program = <<>> /\ handler = <<>> /\ HasRoom
  /\ CountSent(c)
  /\ Store(c)
  /\ program' = <<Argument[c]>>
  /\ UNCHANGED <<handler, cutIn, readerVars>>

ProgramStoresArgument ==
  /\ program # <<>> /\ handler = <<>>
  /\ Store(Head(program))
  /\ program' = Tail(program)
  /\ UNCHANGED <<handler, sent, cutIn, readerVars>>

(* The same, called by an interrupt handler, between any two stores of the *)
(* program; handlers do not interrupt each other.                          *)
HandlerSends(c) ==
  /\ c \in Interrupting
  /\ handler = <<>> /\ HasRoom
  /\ CountSent(c)
  /\ Store(c)
  /\ handler' = <<Argument[c]>>
  /\ cutIn' = (cutIn \/ program # <<>>)
  /\ UNCHANGED <<program, readerVars>>

HandlerStoresArgument ==
  /\ handler # <<>>
  /\ Store(Head(handler))
  /\ handler' = Tail(handler)
  /\ UNCHANGED <<program, sent, cutIn, readerVars>>

-----------------------------------------------------------------------------
MayLook == WholeSends => program = <<>> /\ handler = <<>>

(* What each handler acts on: arm7dmareqandcheat knows the sound words, the *)
(* V-blank's, the frame's and the save's, and neither the lid's nor sleep. *)
Known == IF reader = "pairs" THEN Command ELSE CheatCommand

(* Bug: the argument is the first word again.                              *)
DispatchFirstTwice(first, second) ==
  IF first \in Known
    THEN ran' = <<first, first>> /\ runs' = [runs EXCEPT ![first] = @ + 1]
    ELSE UNCHANGED <<ran, runs>>

(* The switch on the first word: a word it does not know is ignored.       *)
Dispatch(first, second) ==
  IF first \in Known
    THEN ran' = <<first, second>> /\ runs' = [runs EXCEPT ![first] = @ + 1]
    ELSE UNCHANGED <<ran, runs>>

(* Bug: the first word stays in the FIFO.                                  *)
ReadFirstPeeks ==
  /\ reader = "pairs" /\ src = None
  /\ fifo # <<>> /\ MayLook
  /\ src' = Head(fifo)
  /\ lastRead' = Head(fifo)
  /\ UNCHANGED <<fifo, senderVars, reader, ran, runs, halfRead, lost, overflow>>

ReadFirst ==
  /\ reader = "pairs" /\ src = None
  /\ fifo # <<>> /\ MayLook
  /\ src' = Head(fifo)
  /\ lastRead' = Head(fifo)
  /\ fifo' = Tail(fifo)
  /\ UNCHANGED <<senderVars, reader, ran, runs, halfRead, lost, overflow>>

(* Bug: the second word stays in the FIFO.                                 *)
ReadSecondPeeks ==
  /\ src # None
  /\ fifo # <<>>
  /\ Dispatch(src, Head(fifo))
  /\ src' = None
  /\ UNCHANGED <<fifo, senderVars, lastRead, reader, halfRead, lost, overflow>>

(* The second word is read without looking whether it is there.            *)
ReadSecond ==
  /\ src # None
  /\ LET val1 == IF fifo = <<>> THEN lastRead ELSE Head(fifo) IN
       /\ lastRead' = val1
       /\ Dispatch(src, val1)
  /\ fifo' = IF fifo = <<>> THEN fifo ELSE Tail(fifo)
  /\ halfRead' = (halfRead \/ fifo = <<>>)
  /\ src' = None
  /\ UNCHANGED <<senderVars, reader, lost, overflow>>

(* Bug: the cheat handler skips a word it takes for an argument.           *)
ReadOneSkipsNext ==
  /\ reader = "single"
  /\ fifo # <<>> /\ MayLook
  /\ lastRead' = Head(fifo)
  /\ Dispatch(Head(fifo), None)
  /\ fifo' = SubSeq(fifo, 3, Len(fifo))
  /\ UNCHANGED <<senderVars, reader, src, halfRead, lost, overflow>>

(* arm7dmareqandcheat: one word, acted on by itself or ignored.            *)
ReadOne ==
  /\ reader = "single"
  /\ fifo # <<>> /\ MayLook
  /\ lastRead' = Head(fifo)
  /\ Dispatch(Head(fifo), None)
  /\ fifo' = Tail(fifo)
  /\ UNCHANGED <<senderVars, reader, src, halfRead, lost, overflow>>

Next ==
  \/ \E c \in Command \ Interrupting : ProgramSends(c)
  \/ \E c \in Interrupting : HandlerSends(c)
  \/ ProgramStoresArgument \/ HandlerStoresArgument
  \/ ReadFirst \/ ReadSecond \/ ReadOne

Spec == Init /\ [][Next]_vars

-----------------------------------------------------------------------------
(* The words not yet read, the one in the reader's hand included.          *)
Stream == (IF src = None THEN <<>> ELSE <<src>>) \o fifo
Waiting(c) == Cardinality({i \in 1 .. Len(Stream) : Stream[i] = c})

(* A command is never run that was not sent, and none is run twice,        *)
(* whatever stale words are read.                                          *)
NoCommandInvented ==
  \A c \in Command : runs[c] + Waiting(c) + lost[c] <= sent[c]

(* A handler that cuts into a send garbles that send and its own, but it   *)
(* does not shift the pairing of what follows: unless a word was dropped   *)
(* or read before it came, a reader between two pairs is an even number of *)
(* words from the end of what is sent.                                     *)
InterleavingKeepsPairing ==
  reader = "pairs" /\ ~ halfRead /\ ~ overflow =>
    (Len(Stream) + Len(program) + Len(handler)) % 2 = 0

(* The cheat handler has no pairs to keep: however sends cut into each     *)
(* other, it runs every command it knows that found room in the FIFO.  The *)
(* others, the lid's request and the one to sleep among them, it never     *)
(* runs, and no argument is taken for one it knows.                        *)
CheatHandlerRunsItsOwn ==
  reader = "single" =>
    /\ \A c \in CheatCommand : runs[c] + Waiting(c) + lost[c] = sent[c]
    /\ \A c \in Command \ CheatCommand : runs[c] = 0

(* Until a handler cuts in, a word is dropped or one is read before it     *)
(* came, the pairs are a queue of commands, each with its own argument.    *)
Undisturbed == reader = "pairs" /\ ~ halfRead /\ ~ overflow /\ ~ cutIn
CompletePairs ==
  [i \in 1 .. Len(Stream) \div 2 |-> Stream[2 * i - 1]]
Queue == INSTANCE CommandQueue WITH queue <- CompletePairs
UndisturbedIsCommandQueue ==
  Queue!Init /\ [][Undisturbed' => [Queue!Next]_<<CompletePairs, ran>>]_vars

(* c is run with the argument it was sent with.                            *)
ArgumentIsItsOwn(c) == ran # None /\ ran[1] = c => ran[2] = Argument[c]
=============================================================================
