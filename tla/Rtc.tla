--------------------------------- MODULE Rtc --------------------------------
(* The cartridge's clock, RTC.cpp: three ports of a serial chip that the    *)
(* game writes bit by bit, answering from the time the ARM7 leaves in the   *)
(* memory both processors share.  The ARM7 copies its time byte by byte     *)
(* under mailBusy, while the ARM9 reads it byte by byte.                    *)
EXTENDS Integers, Sequences

CONSTANTS
  Times,           \* bound: the times the ARM7's clock shows, one after another
  StatusWritten,   \* bound: bytes the game writes to the status
  TimesSet,        \* bound: times the game sets the clock to, digit by digit
  MaxRequests      \* bound: requests in a behaviour

ASSUME RtcAssumption ==
  /\ Times \in Seq([1 .. 7 -> 0 .. 99]) /\ Times # <<>>
  /\ StatusWritten \subseteq Nat

VARIABLES
  rtcClockData,    \* the chip: its ports, command, data and state
  fetching,        \* the handler's: bytes of the time it has still to read
  clockdata,       \* shared: year, month, day, weekday, hour, minute, second
  mailBusy,        \* shared
  copied,          \* the ARM7's: bytes copied of the next time, or none to copy
  shown,           \* the ARM7's: the last time it copied
  asked,           \* the game's: the request
  done,            \* the game's: the accesses of it that it has done
  heard,           \* the game's: the bits it was answered
  since,           \* history: the time shown when the request began
  overlapped,      \* history: the ARM7 was at the time while it was read
  setByGame,       \* history: the game has tried to set the clock
  requests         \* so far
rtcVars == <<rtcClockData, fetching, clockdata, mailBusy, copied, shown, asked, done,
             heard, since, overlapped, setByGame, requests>>

NoRequest == [command |-> 0, out |-> <<>>, in |-> 0]
BitAt(b, k) == (b \div 2 ^ k) % 2
toBCD(value) == LET v == value % 100 IN 16 * (v \div 10) + (v % 10)
-----------------------------------------------------------------------------
rtcReset ==
  [byte0 |-> 0, byte1 |-> 0, byte2 |-> 0, command |-> 0, dataLen |-> 0, bits |-> 0,
   state |-> "IDLE", data |-> [k \in 0 .. 11 |-> 0]]

(* The eighth bit of a command.  Setting the clock is left as it is.        *)
Commanded(c) ==
  LET d == [c EXCEPT !.bits = 0]
  IN CASE c.command = \h62 -> [d EXCEPT !.state = "READDATA", !.dataLen = 1]
       [] c.command = \h63 -> [d EXCEPT !.state = "DATA", !.dataLen = 1, !.data[0] = 64]
       [] c.command = \h64 -> d
       [] c.command = \h65 -> [d EXCEPT !.dataLen = 7]
       [] c.command = \h67 -> [d EXCEPT !.dataLen = 3]
       [] OTHER            -> [d EXCEPT !.state = "IDLE"]
Fetches(command) ==
  CASE command = \h65 -> <<1, 2, 3, 4, 5, 6, 7>> [] command = \h67 -> <<5, 6, 7>> [] OTHER -> <<>>
CommandBit(c, value) ==
  LET d == [c EXCEPT !.command = IF BitAt(@, 7 - c.bits) = 1 THEN @
                                 ELSE @ + BitAt(value, 1) * 2 ^ (7 - c.bits),
                     !.bits = @ + 1]
  IN IF d.bits = 8 THEN Commanded(d) ELSE d
Advanced(c) ==
  IF c.bits + 1 = 8 * c.dataLen THEN [c EXCEPT !.bits = 0, !.state = "IDLE"]
  ELSE [c EXCEPT !.bits = @ + 1]
(* Mutant: the data from the top bit down, as the commands are.             *)
DataBitFromTheTop(c) ==
  IF BitAt(c.byte1, 1) = 1 THEN c
  ELSE Advanced([c EXCEPT !.byte0 = @ - 2 * BitAt(@, 1)
                            + 2 * BitAt(c.data[c.bits \div 8], 7 - (c.bits % 8))])
DataBit(c) ==
  IF BitAt(c.byte1, 1) = 1 THEN c
  ELSE Advanced([c EXCEPT !.byte0 = @ - 2 * BitAt(@, 1)
                            + 2 * BitAt(c.data[c.bits \div 8], c.bits % 8)])
ReadDataBit(c, value) ==
  IF BitAt(c.byte1, 1) = 0 THEN c
  ELSE Advanced([c EXCEPT !.data[c.bits \div 8] = (@ \div 2) + 128 * BitAt(value, 1)])

(* A request begins by lifting the select line over a high clock; a bit is  *)
(* taken where the clock rises.                                             *)
PortWritten(c, value) ==
  IF BitAt(c.byte2, 0) = 0 THEN c
  ELSE IF c.state = "IDLE" /\ c.byte0 = 1 /\ value = 5
    THEN [c EXCEPT !.state = "COMMAND", !.bits = 0, !.command = 0]
  ELSE LET d == [c EXCEPT !.byte0 = value]
       IN IF BitAt(c.byte0, 0) = 1 \/ BitAt(value, 0) = 0 THEN d
          ELSE CASE c.state = "COMMAND"  -> CommandBit(d, value)
                 [] c.state = "DATA"     -> DataBit(d)
                 [] c.state = "READDATA" -> ReadDataBit(d, value)
                 [] c.state = "IDLE"     -> d
rtcWrite(address, value) ==
  LET c == rtcClockData
      d == CASE address = "c8" -> [c EXCEPT !.byte2 = value]
             [] address = "c6" -> [c EXCEPT !.byte1 = value]
             [] address = "c4" -> PortWritten(c, value)
  IN /\ rtcClockData' = d
     /\ fetching' = IF c.state = "COMMAND" /\ c.bits = 7 /\ d.bits = 0
                      THEN Fetches(d.command) ELSE <<>>
rtcRead == rtcClockData.byte0

(* The handler reads the time, a byte at a time, and only then answers.     *)
FetchByte ==
  /\ fetching # <<>>
  /\ LET place == rtcClockData.dataLen - Len(fetching)
     IN rtcClockData' = [rtcClockData EXCEPT
          !.data[place] = toBCD(clockdata[Head(fetching)]),
          !.state = IF Len(fetching) = 1 THEN "DATA" ELSE @]
  /\ fetching' = Tail(fetching)
  /\ overlapped' = (overlapped \/ mailBusy = 1)
  /\ UNCHANGED <<clockdata, mailBusy, copied, shown, asked, done, heard, since, setByGame,
                 requests>>
-----------------------------------------------------------------------------
(* The ARM7, once a frame.                                                  *)
BeginCopy ==
  /\ mailBusy = 0 /\ shown < Len(Times)
  /\ mailBusy' = 1 /\ copied' = 0
  /\ UNCHANGED <<clockdata, shown>>
CopyByte ==
  /\ mailBusy = 1 /\ copied < 7
  /\ clockdata' = [clockdata EXCEPT ![copied + 1] = Times[shown + 1][copied + 1]]
  /\ copied' = copied + 1 /\ UNCHANGED <<mailBusy, shown>>
EndCopy ==
  /\ mailBusy = 1 /\ copied = 7
  /\ mailBusy' = 0 /\ copied' = 0 /\ shown' = shown + 1 /\ UNCHANGED clockdata
Arm7Copies ==
  /\ BeginCopy \/ CopyByte \/ EndCopy
  /\ overlapped' = (overlapped \/ fetching # <<>>)
  /\ UNCHANGED <<rtcClockData, fetching, asked, done, heard, since, setByGame, requests>>

(* The game's library: select, a command from its top bit, data from their  *)
(* low bits, each bit under a low and a high clock, and deselect.           *)
Write(port, value) == <<port, value>>
Read == <<"read">>
Select == <<Write("c8", 1), Write("c4", 1), Write("c6", 7), Write("c4", 5)>>
Clocked(bit, p) == Write("c4", 5 + 2 * bit - (p % 2))
SentBy(q) == 20 + 16 * Len(q.out)
Total(q) == SentBy(q) + (IF q.in = 0 THEN 1 ELSE 2 + 24 * q.in)
AccessOf(q, p) ==
  CASE p \in 1 .. 4          -> Select[p]
    [] p \in 5 .. 20         -> Clocked(BitAt(q.command, 7 - ((p - 5) \div 2)), p)
    [] p \in 21 .. SentBy(q) -> LET k == (p - 21) \div 2
                                IN Clocked(BitAt(q.out[(k \div 8) + 1], k % 8), p)
    [] p = Total(q)          -> Write("c4", 1)
    [] OTHER -> LET k == p - SentBy(q) - 2    \* the bits to hear
                IN IF k < 0 THEN Write("c6", 5)
                   ELSE IF k % 3 = 2 THEN Read ELSE Write("c4", 4 + (k % 3))
Queries == {
  [command |-> \h60, out |-> <<>>, in |-> 0], [command |-> \h63, out |-> <<>>, in |-> 1],
  [command |-> \h65, out |-> <<>>, in |-> 7], [command |-> \h67, out |-> <<>>, in |-> 3]}
Settings == {[command |-> \h62, out |-> <<s>>, in |-> 0] : s \in StatusWritten}
              \cup {[command |-> \h64, out |-> t, in |-> 0] : t \in TimesSet}
AskClock ==
  /\ done = Total(asked) /\ fetching = <<>>
  /\ requests < MaxRequests /\ requests' = requests + 1
  /\ \E q \in Queries \cup Settings :
       asked' = q /\ setByGame' = (setByGame \/ q.command = \h64)
  /\ done' = 0 /\ heard' = <<>> /\ since' = shown /\ overlapped' = FALSE
  /\ UNCHANGED <<rtcClockData, fetching, clockdata, mailBusy, copied, shown>>
Access ==
  /\ done < Total(asked) /\ fetching = <<>>
  /\ done' = done + 1
  /\ LET a == AccessOf(asked, done + 1)
     IN IF a = Read
          THEN heard' = Append(heard, BitAt(rtcRead, 1)) /\ UNCHANGED <<rtcClockData, fetching>>
          ELSE rtcWrite(a[1], a[2]) /\ UNCHANGED heard
  /\ UNCHANGED <<clockdata, mailBusy, copied, shown, asked, since, overlapped, setByGame, requests>>

RtcInit ==
  /\ rtcClockData = rtcReset /\ fetching = <<>>
  /\ clockdata = Times[1] /\ mailBusy = 0 /\ copied = 0 /\ shown = 1
  /\ asked = NoRequest /\ done = Total(NoRequest) /\ heard = <<>>
  /\ since = 1 /\ overlapped = FALSE /\ setByGame = FALSE /\ requests = 0
RtcNext == FetchByte \/ Arm7Copies \/ AskClock \/ Access
RtcSpec == RtcInit /\ [][RtcNext]_rtcVars
-----------------------------------------------------------------------------
HeardByte(k) ==
  LET b(i) == heard[8 * k - 7 + i]
  IN b(0) + 2 * b(1) + 4 * b(2) + 8 * b(3) + 16 * b(4) + 32 * b(5) + 64 * b(6) + 128 * b(7)
Fields == IF asked.in = 7 THEN 1 .. 7 ELSE 5 .. 7
HeardField(f) == HeardByte(f - 7 + asked.in)
Digits(v) == <<v \div 10, v % 10>>
Says(f, t) == <<HeardField(f) \div 16, HeardField(f) % 16>> = Digits(Times[t][f])

(* Whatever requests came before, one that is done has left the chip idle,  *)
(* and was answered with the status or with one time the clock showed       *)
(* since it began, every field of it; when the ARM7 was copying while the   *)
(* handler read, which mailBusy would have told it, the fields may be of    *)
(* two times.  A game that sets the clock first is not promised anything.   *)
AnsweredAsAsked ==
  (done = Total(asked) /\ fetching = <<>> /\ asked # NoRequest /\ ~setByGame) =>
    /\ rtcClockData.state = "IDLE" /\ Len(heard) = 8 * asked.in
    /\ asked.command = \h63 => HeardByte(1) = 64
    /\ asked.in > 1 =>
         IF overlapped
           THEN \A f \in Fields : \E t \in since .. shown + 1 : t \in DOMAIN Times /\ Says(f, t)
           ELSE \E t \in since .. shown : \A f \in Fields : Says(f, t)
=============================================================================
