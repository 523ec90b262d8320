---------------------------- MODULE SoundProofs -----------------------------
(* Proofs about Sound: what the game asks of direct sound is what the DS   *)
(* plays, for any sequence of writes and any number of refills.            *)
EXTENDS Sound, TLAPS
-----------------------------------------------------------------------------
(* The inductive invariant, part by part.  The copies of the registers are *)
(* the game's except where another register's write ran into them, and     *)
(* nothing runs into SOUNDCNT_H or the DMA's registers.                    *)
DmaRegisters == UNION {{d[1], d[2], d[3]} : d \in Dmas}
CopiesKept ==
  /\ \A r \in Kept \ spoilt : arm7.reg[r] = asked[r]
  /\ \A r \in DmaRegisters \cup {ControlOf} : r \notin spoilt
(* Each FIFO is clocked by the timer SOUNDCNT_H names, at its rate.        *)
Tuned(s) ==
  \A f \in Fifos : /\ s.takt[f] = Bit(s.reg[ControlOf], Clock(f))
                   /\ s.rate[f] = s.reg[ReloadOfTimer[s.takt[f] + 1]]
(* Whoever plays, or is to play, has its refills; B is never cut off.      *)
Sounds(s, f) == Plays(s.reg, s.takt[f], f)
Refilled(s) ==
  /\ \A f \in Fifos : Sounds(s, f) \/ s.cr[f].on => s.refill[f] # 0
  /\ s.refill["B"] # 0 => s.cr["B"].on
  /\ s.anew \subseteq {"A"}
Played(f) ==
  /\ Sounds(arm7, f) => arm7.cr[f].on \/ <<f, "tone">> \in odd
  /\ arm7.cr[f].on => f \in once
Paced(f) ==
  arm7.refill[f] # 0 /\ <<f, "rate">> \notin odd => arm7.refill[f] = Period(arm7.rate[f])
(* dmaApart is the half A plays; B's is told from it by whose turn it is.  *)
HalvesOfA ==
  /\ arm7.refill["A"] = 0 => arm7.apart = 0 /\ filled["A"] = 2
  /\ arm7.cr["A"].on /\ "A" \notin arm7.anew =>
       arm7.half["A"] = arm7.apart /\ filled["A"] # arm7.half["A"]
HalvesOfB ==
  /\ arm7.refill["B"] = 0 => filled["B"] = 2
  /\ filled["B"] = 2 => sinceB = arm7.apart /\ arm7.half["B"] = 0
  /\ filled["B"] # 2 /\ <<"B", "turn">> \notin odd =>
       /\ arm7.half["B"] = arm7.apart <=> sinceB = 0
       /\ filled["B"] # arm7.half["B"]
(* The ARM7 is never behind the GBA's DMA, unless it took the source again. *)
Fetched(f) ==
  <<f, "source">> \notin odd =>
    heard[f] <= arm7.src[f] /\ (Sounds(arm7, f) => arm7.src[f] = heard[f])
(* What was sent while A was on its track is what A's DMA fetched.         *)
Supplied(f) ==
  sent[f].track => sent[f].of = "A" /\ sent[f].piece = sent[f].due
SoundInv ==
  /\ SoundTypeOK /\ CopiesKept /\ Tuned(arm7) /\ Refilled(arm7)
  /\ \A f \in Fifos : Played(f) /\ Paced(f) /\ Fetched(f) /\ AsLoud(f)
  /\ HalvesOfA /\ HalvesOfB /\ \A f \in Fifos : Supplied(f)
-----------------------------------------------------------------------------
(* The words, the registers and the ARM7's operations, field by field.     *)
LEMMA BitRange ==
  ASSUME NEW w \in Nat, NEW m \in Nat \ {0}
  PROVE  Bit(w, m) \in {0, 1}
<1>1. w \div m \in Int
  OBVIOUS
<1>2. QED
  BY <1>1, SMT DEF Bit

LEMMA HalfwordIs == Halfword \in Nat /\ Halfword <= 65536 /\ 65536 <= Halfword
BY DEF Halfword

LEMMA WordsAre == \A r : r \in Words <=> r \in Int /\ 0 <= r /\ r < 65536
BY HalfwordIs, SMT DEF Words

LEMMA PeriodRange ==
  ASSUME NEW r \in Words
  PROVE  Period(r) \in 1 .. Halfword
<1>1. r * 32 \in Int
  BY WordsAre, SMT
<1>2. /\ (r * 32) % Halfword \in Int
      /\ 0 <= ((r * 32) % Halfword) /\ ((r * 32) % Halfword) < Halfword
  BY <1>1, HalfwordIs, SMT
<1>3. QED
  BY <1>2, HalfwordIs, SMT DEF Period

LEMMA PeriodExact ==
  ASSUME NEW r \in Words, Halfword - r <= 2048
  PROVE  Period(r) = SamplesOfHalf * 2 * (Halfword - r)
<1>1. /\ r \in Int /\ 63488 <= r /\ r <= 65535 /\ Halfword = 65536
  BY WordsAre, HalfwordIs, SMT
<1>2. r * 32 = 65536 * 31 + (r * 32 - 65536 * 31)
  BY <1>1, SMT
<1>3. (r * 32) % 65536 = r * 32 - 65536 * 31
  BY <1>1, <1>2, SMT
<1>4. Period(r) = 65536 - (r * 32 - 65536 * 31)
  BY <1>1, <1>3 DEF Period
<1>5. QED
  BY <1>1, <1>4, SMT DEF SamplesOfHalf

LEMMA SetFields ==
  ASSUME NEW s \in Arm7, NEW a \in Kept, NEW v \in Words
  PROVE  /\ Set(s, a, v) \in Arm7
         /\ Set(s, a, v).reg = [s.reg EXCEPT ![a] = v]
         /\ Set(s, a, v).takt = s.takt /\ Set(s, a, v).rate = s.rate
         /\ Set(s, a, v).cr = s.cr /\ Set(s, a, v).refill = s.refill
         /\ Set(s, a, v).half = s.half /\ Set(s, a, v).src = s.src
         /\ Set(s, a, v).apart = s.apart /\ Set(s, a, v).anew = s.anew
BY DEF Set, Arm7

LEMMA TimersKept ==
  \A t \in {0, 1} : /\ ReloadOfTimer[t + 1] = (IF t = 0 THEN \h100 ELSE \h104)
                    /\ ControlOfTimer[t + 1] = (IF t = 0 THEN \h102 ELSE \h106)
                    /\ ReloadOfTimer[t + 1] \in Kept /\ ControlOfTimer[t + 1] \in Kept
BY DEF ReloadOfTimer, ControlOfTimer, Kept

LEMMA UpdatetaktFields ==
  ASSUME NEW s \in Arm7
  PROVE  /\ updatetakt(s) \in Arm7
         /\ updatetakt(s).rate = [f \in Fifos |-> s.reg[ReloadOfTimer[s.takt[f] + 1]]]
         /\ updatetakt(s).reg = s.reg /\ updatetakt(s).takt = s.takt
         /\ updatetakt(s).cr = s.cr /\ updatetakt(s).refill = s.refill
         /\ updatetakt(s).half = s.half /\ updatetakt(s).src = s.src
         /\ updatetakt(s).apart = s.apart /\ updatetakt(s).anew = s.anew
<1>1. [f \in Fifos |-> s.reg[ReloadOfTimer[s.takt[f] + 1]]] \in [Fifos -> Words]
  BY TimersKept DEF Arm7
<1>2. QED
  BY <1>1 DEF updatetakt, Arm7

LEMMA PlaysIsBoolean ==
  ASSUME NEW s \in Arm7, NEW f \in Fifos
  PROVE  Sounds(s, f) \in BOOLEAN
BY DEF Sounds, Plays

LEMMA CheckstartFields ==
  ASSUME NEW s \in Arm7
  PROVE  /\ checkstart(s) \in Arm7
         /\ checkstart(s).reg = s.reg /\ checkstart(s).takt = s.takt
         /\ checkstart(s).rate = s.rate /\ checkstart(s).apart = s.apart
         /\ checkstart(s).anew =
              s.anew \cup {f \in Fifos : Sounds(s, f) /\ ~s.cr[f].on /\ s.refill[f] # 0}
         /\ \A f \in Fifos :
              /\ checkstart(s).cr[f].vol = s.cr[f].vol
              /\ checkstart(s).cr[f].pan = s.cr[f].pan
              /\ checkstart(s).cr[f].on = (s.cr[f].on \/ Sounds(s, f))
              /\ checkstart(s).half[f] =
                   (IF Sounds(s, f) /\ ~s.cr[f].on THEN 0 ELSE s.half[f])
              /\ checkstart(s).refill[f] =
                   (IF Sounds(s, f) /\ s.refill[f] = 0 THEN Period(s.rate[f]) ELSE s.refill[f])
              /\ checkstart(s).src[f] = (IF Sounds(s, f) THEN 0 ELSE s.src[f])
<1> DEFINE go == {f \in Fifos : Plays(s.reg, s.takt[f], f)}
           cr == [f \in Fifos |-> [s.cr[f] EXCEPT !.on = @ \/ f \in go]]
           half == [f \in Fifos |-> IF f \in go /\ ~s.cr[f].on THEN 0 ELSE s.half[f]]
           refill == [f \in Fifos |-> IF f \in go /\ s.refill[f] = 0
                                       THEN Period(s.rate[f]) ELSE s.refill[f]]
           src == [f \in Fifos |-> IF f \in go THEN 0 ELSE s.src[f]]
           anew == s.anew \cup {f \in go : ~s.cr[f].on /\ s.refill[f] # 0}
<1>1. \A f \in Fifos : f \in go <=> Sounds(s, f)
  BY DEF Sounds
<1>2. \A f \in Fifos : cr[f] \in Channel /\ cr[f].on = (s.cr[f].on \/ f \in go)
                      /\ cr[f].vol = s.cr[f].vol /\ cr[f].pan = s.cr[f].pan
  <2>1. ASSUME NEW f \in Fifos, NEW b \in BOOLEAN
        PROVE  LET c == [s.cr[f] EXCEPT !.on = b]
               IN  c \in Channel /\ c.on = b /\ c.vol = s.cr[f].vol /\ c.pan = s.cr[f].pan
    <3>1. s.cr[f] \in Channel
      BY DEF Arm7
    <3>2. QED
      BY <3>1 DEF Channel
  <2>2. \A f \in Fifos : (s.cr[f].on \/ f \in go) \in BOOLEAN
    OBVIOUS
  <2>3. \A f \in Fifos : cr[f] = [s.cr[f] EXCEPT !.on = (s.cr[f].on \/ f \in go)]
    OBVIOUS
  <2> HIDE DEF cr, go
  <2>4. QED
    BY <2>1, <2>2, <2>3
<1>3. half \in [Fifos -> Halves]
  BY DEF Arm7, Halves
<1>4. refill \in [Fifos -> 0 .. Halfword]
  <2>1. \A f \in Fifos : Period(s.rate[f]) \in 1 .. Halfword
    BY PeriodRange DEF Arm7
  <2>2. 1 .. Halfword \subseteq 0 .. Halfword
    BY HalfwordIs
  <2>3. QED
    BY <2>1, <2>2 DEF Arm7
<1>5. src \in [Fifos -> Nat]
  BY DEF Arm7
<1>6. anew \in SUBSET Fifos
  BY DEF Arm7
<1>6a. cr \in [Fifos -> Channel]
  <2>1. cr = [f \in Fifos |-> cr[f]]
    OBVIOUS
  <2> HIDE DEF cr
  <2>2. QED
    BY <1>2, <2>1
<1>7. checkstart(s) = [s EXCEPT !.cr = cr, !.anew = anew, !.half = half,
                                !.refill = refill, !.src = src]
  BY Zenon DEF checkstart
<1>8. /\ checkstart(s) \in Arm7
      /\ checkstart(s).reg = s.reg /\ checkstart(s).takt = s.takt
      /\ checkstart(s).rate = s.rate /\ checkstart(s).apart = s.apart
      /\ checkstart(s).cr = cr /\ checkstart(s).anew = anew /\ checkstart(s).half = half
      /\ checkstart(s).refill = refill /\ checkstart(s).src = src
  <2> HIDE DEF cr, anew, half, refill, src
  <2> QED
    BY <1>3, <1>4, <1>5, <1>6, <1>6a, <1>7 DEF Arm7
<1>9. anew = s.anew \cup {f \in Fifos : Sounds(s, f) /\ ~s.cr[f].on /\ s.refill[f] # 0}
  BY <1>1
<1>10. ASSUME NEW f \in Fifos
       PROVE  /\ cr[f].vol = s.cr[f].vol /\ cr[f].pan = s.cr[f].pan
              /\ cr[f].on = (s.cr[f].on \/ Sounds(s, f))
  <2>1. (s.cr[f].on \/ f \in go) = (s.cr[f].on \/ Sounds(s, f))
    BY <1>1, PlaysIsBoolean
  <2> HIDE DEF cr, go
  <2>2. QED
    BY <1>2, <2>1
<1>11. ASSUME NEW f \in Fifos
       PROVE  /\ half[f] = (IF Sounds(s, f) /\ ~s.cr[f].on THEN 0 ELSE s.half[f])
              /\ refill[f] = (IF Sounds(s, f) /\ s.refill[f] = 0
                              THEN Period(s.rate[f]) ELSE s.refill[f])
              /\ src[f] = (IF Sounds(s, f) THEN 0 ELSE s.src[f])
  BY <1>1
<1>12. QED
  <2> HIDE DEF cr, anew, half, refill, src
  <2> QED
    BY <1>8, <1>9, <1>10, <1>11

(* The volume and the pan; what a tone makes of A's channel.               *)
LEMMA MasksInRange ==
  ASSUME NEW f \in Fifos
  PROVE  /\ Right(f) \in Nat \ {0} /\ Left(f) \in Nat \ {0}
         /\ Full(f) \in Nat \ {0} /\ Clock(f) \in Nat \ {0}
BY DEF Right, Left, Full, Clock

LEMMA DirectChannel ==
  ASSUME NEW h \in Words, NEW f \in Fifos, NEW cr \in Channel
  PROVE  /\ Direct(h, f, cr) \in Channel
         /\ Direct(h, f, cr).on = cr.on
         /\ Direct(h, f, cr).vol =
              31 * (Bit(h, Right(f)) + Bit(h, Left(f))) * (1 + Bit(h, Full(f)))
         /\ Bit(h, Right(f)) + Bit(h, Left(f)) = 1 =>
              Direct(h, f, cr).pan = 127 * Bit(h, Right(f))
<1> DEFINE right == Bit(h, Right(f))
           left == Bit(h, Left(f))
           full == Bit(h, Full(f))
           vol == (1 + full) * (right + left) * 31
           pan == CASE right = 1 /\ left = 1 -> 64
                    [] right = 1 /\ left = 0 -> 127
                    [] right = 0 /\ left = 1 -> 0
                    [] OTHER -> cr.pan
<1>1. h \in Nat
  BY WordsAre
<1>2. right \in {0, 1} /\ left \in {0, 1} /\ full \in {0, 1}
  BY <1>1, BitRange, MasksInRange
<1>3. Direct(h, f, cr) = [cr EXCEPT !.vol = vol, !.pan = pan]
  BY DEF Direct, Channel
<1> HIDE DEF right, left, full
<1>4. /\ vol \in 0 .. 255
      /\ vol = 31 * (right + left) * (1 + full)
  <2>1. CASE right = 0 /\ left = 0
    BY <1>2, <2>1
  <2>2. CASE right = 0 /\ left = 1
    BY <1>2, <2>2
  <2>3. CASE right = 1 /\ left = 0
    BY <1>2, <2>3
  <2>4. CASE right = 1 /\ left = 1
    BY <1>2, <2>4
  <2>5. QED
    BY <1>2, <2>1, <2>2, <2>3, <2>4
<1>5. pan \in 0 .. 127 /\ (right + left = 1 => pan = 127 * right)
  BY <1>2 DEF Channel
<1> HIDE DEF vol, pan
<1>6. /\ Direct(h, f, cr) \in Channel /\ Direct(h, f, cr).on = cr.on
      /\ Direct(h, f, cr).vol = vol /\ Direct(h, f, cr).pan = pan
  <2> DEFINE m == [cr EXCEPT !.vol = vol]
             n == [m EXCEPT !.pan = pan]
  <2>1. m \in Channel /\ m.on = cr.on /\ m.vol = vol
    BY <1>4 DEF Channel
  <2> HIDE DEF m
  <2>2. n \in Channel /\ n.on = m.on /\ n.vol = m.vol /\ n.pan = pan
    BY <1>5, <2>1 DEF Channel
  <2> HIDE DEF n
  <2>3. Direct(h, f, cr) = n
    BY <1>3 DEF n, m
  <2>4. QED
    BY <2>1, <2>2, <2>3
<1>7. QED
  BY <1>4, <1>5, <1>6 DEF right, left, full

LEMMA ToneChannel ==
  ASSUME NEW l \in Words, NEW h \in Words, TonesOn(l)
  PROVE  ToneControl(l, h) \in Channel /\ ToneControl(l, h).on = FALSE
<1> DEFINE Last(i) == Tone(l, i) /\ \A n \in i + 1 .. 3 : ~Tone(l, n)
           i == CHOOSE k \in 1 .. 3 : Last(k)
           right == Bit(l, ToneRight[i])
<1>1. \E k \in 1 .. 3 : Last(k)
  <2>1. Tone(l, 1) \/ Tone(l, 2) \/ Tone(l, 3)
    BY DEF TonesOn
  <2>2. Tone(l, 3) => Last(3)
    OBVIOUS
  <2>3. Tone(l, 2) /\ ~Tone(l, 3) => Last(2)
    OBVIOUS
  <2>4. Tone(l, 1) /\ ~Tone(l, 2) /\ ~Tone(l, 3) => Last(1)
    OBVIOUS
  <2>5. QED
    BY <2>1, <2>2, <2>3, <2>4
<1>2. i \in 1 .. 3
  BY <1>1
<1> HIDE DEF i
<1>3. l \in Nat /\ ToneRight[i] \in Nat \ {0}
  BY <1>2, WordsAre DEF ToneRight
<1>4. right \in {0, 1}
  BY <1>3, BitRange
<1>5. ToneShare(h) \in {1, 2, 4}
  BY DEF ToneShare
<1>6. l % 8 \in 0 .. 7
  BY <1>3
<1>7. (l % 8) * right * ToneShare(h) * 2 \in 0 .. 255
  <2> DEFINE w == l % 8
             share == ToneShare(h)
  <2>1. w \in 0 .. 7 /\ right \in {0, 1} /\ share \in {1, 2, 4}
    BY <1>4, <1>5, <1>6
  <2> HIDE DEF w, share, right
  <2>2. right = 0 => w * right * share * 2 = 0
    BY <2>1, SMT
  <2>3. right = 1 => w * right = w
    BY <2>1, SMT
  <2>4. /\ share = 1 => w * share * 2 = w * 2
        /\ share = 2 => w * share * 2 = w * 4
        /\ share = 4 => w * share * 2 = w * 8
    BY <2>1, SMT
  <2>5. right = 1 => w * right * share * 2 \in 0 .. 56
    BY <2>1, <2>3, <2>4, SMT
  <2>6. w * right * share * 2 \in 0 .. 255
    BY <2>1, <2>2, <2>5, SMT
  <2>7. QED
    BY <2>6 DEF w, share
<1>8. ToneControl(l, h) = [vol |-> (l % 8) * right * ToneShare(h) * 2,
                           pan |-> IF right = 1 THEN 127 ELSE 0, on |-> FALSE]
  BY DEF ToneControl, i
<1> HIDE DEF right
<1>9. QED
  BY <1>7, <1>8 DEF Channel

LEMMA UpdatevolFields ==
  ASSUME NEW s \in Arm7
  PROVE  /\ updatevol(s) \in Arm7
         /\ updatevol(s).reg = s.reg /\ updatevol(s).takt = s.takt
         /\ updatevol(s).rate = s.rate /\ updatevol(s).refill = s.refill
         /\ updatevol(s).half = s.half /\ updatevol(s).src = s.src
         /\ updatevol(s).apart = s.apart /\ updatevol(s).anew = s.anew
         /\ updatevol(s).cr["B"] = Direct(s.reg[ControlOf], "B", s.cr["B"])
         /\ updatevol(s).cr["A"] =
              (IF TonesOn(s.reg[VolumeOf])
               THEN ToneControl(s.reg[VolumeOf], s.reg[ControlOf])
               ELSE Direct(s.reg[ControlOf], "A", s.cr["A"]))
<1> DEFINE l == s.reg[VolumeOf]
           h == s.reg[ControlOf]
           a == IF TonesOn(l) THEN ToneControl(l, h) ELSE Direct(h, "A", s.cr["A"])
           b == Direct(h, "B", s.cr["B"])
<1>1. l \in Words /\ h \in Words
  BY DEF Arm7, VolumeOf, ControlOf, Kept
<1>2. s.cr \in [Fifos -> Channel] /\ "A" \in Fifos /\ "B" \in Fifos
  BY DEF Arm7, Fifos
<1>3. s.cr["A"] \in Channel /\ s.cr["B"] \in Channel
  BY <1>2
<1>4. a \in Channel /\ b \in Channel
  BY <1>1, <1>2, <1>3, DirectChannel, ToneChannel
<1>5. updatevol(s) = [s EXCEPT !.cr = [[s.cr EXCEPT !["A"] = a] EXCEPT !["B"] = b]]
  BY <1>2 DEF updatevol, Arm7
<1> HIDE DEF a, b
<1> DEFINE cr == [[s.cr EXCEPT !["A"] = a] EXCEPT !["B"] = b]
<1>6. cr \in [Fifos -> Channel] /\ cr["A"] = a /\ cr["B"] = b
  BY <1>2, <1>4
<1> HIDE DEF cr
<1>7. QED
  BY <1>5, <1>6 DEF Arm7, a, b, cr
-----------------------------------------------------------------------------
(* What a FIFO sounds from: the DMA's registers and its timer's control.   *)
LEMMA SoundsKept ==
  ASSUME NEW s \in Arm7, NEW n \in Arm7, NEW f \in Fifos,
         \A r \in DmaRegisters : n.reg[r] = s.reg[r],
         n.takt[f] = s.takt[f],
         n.reg[ControlOfTimer[s.takt[f] + 1]] = s.reg[ControlOfTimer[s.takt[f] + 1]]
  PROVE  Sounds(n, f) <=> Sounds(s, f)
<1>1. \A d \in Dmas : {d[1], d[2], d[3]} \subseteq DmaRegisters
  BY DEF DmaRegisters
<1>2. \A d \in Dmas : n.reg[d[1]] = s.reg[d[1]] /\ n.reg[d[2]] = s.reg[d[2]]
                      /\ n.reg[d[3]] = s.reg[d[3]]
  BY <1>1
<1>3. \A d \in Dmas : Feeds(n.reg, d, f) <=> Feeds(s.reg, d, f)
  BY <1>2 DEF Feeds
<1>4. Fed(n.reg, f) <=> Fed(s.reg, f)
  BY <1>3 DEF Fed
<1>5. QED
  BY <1>4 DEF Sounds, Plays

LEMMA FedKept ==
  ASSUME NEW p, NEW q, NEW f \in Fifos, \A r \in DmaRegisters : q[r] = p[r]
  PROVE  Fed(q, f) <=> Fed(p, f)
<1>1. \A d \in Dmas : {d[1], d[2], d[3]} \subseteq DmaRegisters
  BY DEF DmaRegisters
<1>2. \A d \in Dmas : q[d[1]] = p[d[1]] /\ q[d[2]] = p[d[2]] /\ q[d[3]] = p[d[3]]
  BY <1>1
<1>3. \A d \in Dmas : Feeds(q, d, f) <=> Feeds(p, d, f)
  BY <1>2 DEF Feeds
<1>4. QED
  BY <1>3 DEF Fed

LEMMA RegistersApart ==
  /\ DmaRegisters \subseteq Kept
  /\ DmaRegisters \cap {\h100, \h102, \h104, \h106, VolumeOf, ControlOf} = {}
  /\ {\h100, \h102, \h104, \h106, VolumeOf, ControlOf} \subseteq Kept
  /\ VolumeOf = 128 /\ ControlOf = 130
  /\ \A r \in Kept : r \in Int
BY DEF DmaRegisters, Kept, Dmas, VolumeOf, ControlOf

(* How a FIFO may go from one state of the ARM7 to a later one: its timer, *)
(* once started, keeps its period; its source is kept or taken again; and  *)
(* the half it plays is told from the timer's start, unless it began anew. *)
Goes(s, n, f) ==
  /\ s.refill[f] # 0 => n.refill[f] = s.refill[f]
  /\ n.src[f] \in {s.src[f], 0} /\ n.half[f] \in {s.half[f], 0}
  /\ n.cr[f].on /\ f \notin n.anew =>
       IF s.refill[f] # 0 THEN s.cr[f].on /\ n.half[f] = s.half[f] ELSE n.half[f] = 0
Later(s, n) ==
  n.apart = s.apart /\ s.anew \subseteq n.anew /\ \A f \in Fifos : Goes(s, n, f)

LEMMA LaterTransitive ==
  ASSUME NEW s, NEW m, NEW n, Later(s, m), Later(m, n)
  PROVE  Later(s, n)
<1>1. n.apart = s.apart /\ s.anew \subseteq n.anew
  BY DEF Later
<1>2. ASSUME NEW f \in Fifos
      PROVE  Goes(s, n, f)
  <2>1. Goes(s, m, f) /\ Goes(m, n, f) /\ (f \notin n.anew => f \notin m.anew)
    BY DEF Later
  <2>2. QED
    BY <2>1 DEF Goes
<1>3. QED
  BY <1>1, <1>2 DEF Later

(* What holds between an operation's steps: the FIFOs follow the timers    *)
(* that SOUNDCNT_H names, and whoever is on has its refills.               *)
Named(s) == \A f \in Fifos : s.takt[f] = Bit(s.reg[ControlOf], Clock(f))
RunsOn(s) ==
  /\ \A f \in Fifos : s.cr[f].on => s.refill[f] # 0
  /\ s.refill["B"] # 0 => s.cr["B"].on
  /\ s.anew \subseteq {"A"}
SamePlaying(s, n) ==
  /\ n.cr = s.cr /\ n.refill = s.refill /\ n.half = s.half
  /\ n.src = s.src /\ n.apart = s.apart /\ n.anew = s.anew

LEMMA SamePlayingIsLater ==
  ASSUME NEW s \in Arm7, NEW n \in Arm7, SamePlaying(s, n), RunsOn(s)
  PROVE  Later(s, n) /\ RunsOn(n)
BY DEF SamePlaying, RunsOn, Later, Goes

(* A timer's register is set, and the channels take the rates.             *)
TimerRegisters == {\h100, \h102, \h104, \h106}
LEMMA TimerSet ==
  ASSUME NEW s \in Arm7, Named(s), RunsOn(s), NEW v \in Words,
         NEW a \in TimerRegisters
  PROVE  LET n == updatetakt(Set(s, a, v))
         IN  /\ n \in Arm7 /\ Tuned(n) /\ RunsOn(n) /\ Later(s, n) /\ SamePlaying(s, n)
             /\ n.takt = s.takt /\ n.reg = [s.reg EXCEPT ![a] = v]
<1> DEFINE m == Set(s, a, v)
           n == updatetakt(m)
<1>1. a \in Kept /\ a # ControlOf
  BY RegistersApart DEF TimerRegisters
<1>2. /\ m \in Arm7 /\ m.reg = [s.reg EXCEPT ![a] = v] /\ m.takt = s.takt
      /\ SamePlaying(s, m)
  BY <1>1, SetFields DEF SamePlaying
<1> HIDE DEF m
<1>3. /\ n \in Arm7 /\ n.reg = m.reg /\ n.takt = m.takt /\ SamePlaying(s, n)
      /\ n.rate = [f \in Fifos |-> m.reg[ReloadOfTimer[m.takt[f] + 1]]]
  BY <1>2, UpdatetaktFields DEF SamePlaying
<1> HIDE DEF n
<1>4. n.reg[ControlOf] = s.reg[ControlOf]
  BY <1>1, <1>2, <1>3, RegistersApart DEF Arm7
<1>5. Tuned(n)
  BY <1>2, <1>3, <1>4 DEF Tuned, Named
<1>6. QED
  BY <1>2, <1>3, <1>5, SamePlayingIsLater DEF n, m

LEMMA Checked ==
  ASSUME NEW s \in Arm7, Tuned(s), RunsOn(s)
  PROVE  LET n == checkstart(s)
         IN  /\ n \in Arm7 /\ Tuned(n) /\ RunsOn(n) /\ Refilled(n) /\ Later(s, n)
             /\ n.reg = s.reg /\ n.takt = s.takt /\ n.rate = s.rate
             /\ \A f \in Fifos :
                  /\ Sounds(n, f) <=> Sounds(s, f)
                  /\ n.cr[f].vol = s.cr[f].vol /\ n.cr[f].pan = s.cr[f].pan
                  /\ n.cr[f].on <=> s.cr[f].on \/ Sounds(s, f)
                  /\ Sounds(s, f) => n.src[f] = 0
                  /\ ~Sounds(s, f) => n.src[f] = s.src[f] /\ n.refill[f] = s.refill[f]
                  /\ s.refill[f] = 0 => n.refill[f] \in {0, Period(n.rate[f])}
<1> DEFINE n == checkstart(s)
<1>1. /\ n \in Arm7 /\ n.reg = s.reg /\ n.takt = s.takt /\ n.rate = s.rate
      /\ n.apart = s.apart
      /\ n.anew = s.anew \cup {f \in Fifos : Sounds(s, f) /\ ~s.cr[f].on /\ s.refill[f] # 0}
  BY CheckstartFields
<1>2. \A f \in Fifos :
        /\ n.cr[f].vol = s.cr[f].vol /\ n.cr[f].pan = s.cr[f].pan
        /\ n.cr[f].on = (s.cr[f].on \/ Sounds(s, f))
        /\ n.half[f] = (IF Sounds(s, f) /\ ~s.cr[f].on THEN 0 ELSE s.half[f])
        /\ n.refill[f] = (IF Sounds(s, f) /\ s.refill[f] = 0
                          THEN Period(s.rate[f]) ELSE s.refill[f])
        /\ n.src[f] = (IF Sounds(s, f) THEN 0 ELSE s.src[f])
  BY CheckstartFields
<1> HIDE DEF n
<1>3. \A f \in Fifos : Sounds(n, f) <=> Sounds(s, f)
  BY <1>1, SoundsKept
<1>4. Tuned(n)
  BY <1>1 DEF Tuned
<1>5. \A f \in Fifos : s.cr[f].on \in BOOLEAN /\ n.cr[f].on \in BOOLEAN
  <2>1. \A f \in Fifos : s.cr[f] \in Channel /\ n.cr[f] \in Channel
    BY <1>1 DEF Arm7
  <2>2. QED
    BY <2>1 DEF Channel
<1>6. \A f \in Fifos : Period(s.rate[f]) # 0
  <2>1. \A f \in Fifos : s.rate[f] \in Words
    BY DEF Arm7
  <2>2. 0 \notin 1 .. Halfword
    BY HalfwordIs
  <2>3. QED
    BY <2>1, <2>2, PeriodRange
<1>7. \A f \in Fifos :
        /\ n.cr[f].on <=> s.cr[f].on \/ Sounds(s, f)
        /\ Sounds(s, f) \/ n.cr[f].on => n.refill[f] # 0
  BY <1>2, <1>5, <1>6 DEF RunsOn
<1>8. "A" \in Fifos /\ "B" \in Fifos /\ \A f \in Fifos : f = "A" \/ f = "B"
  BY DEF Fifos
<1>9. n.refill["B"] # 0 => n.cr["B"].on
  BY <1>2, <1>7, <1>8 DEF RunsOn
<1>10. n.anew \subseteq {"A"}
  BY <1>1, <1>8 DEF RunsOn
<1>11. RunsOn(n) /\ Refilled(n)
  <2>1. \A f \in Fifos : n.cr[f].on => n.refill[f] # 0
    BY <1>7
  <2>2. \A f \in Fifos : Sounds(n, f) \/ n.cr[f].on => n.refill[f] # 0
    BY <1>3, <1>7
  <2>3. QED
    BY <1>9, <1>10, <2>1, <2>2, Zenon DEF RunsOn, Refilled
<1>12. ASSUME NEW f \in Fifos
       PROVE  Goes(s, n, f)
  <2>1. n.cr[f].on /\ f \notin n.anew /\ s.refill[f] # 0 => s.cr[f].on /\ n.half[f] = s.half[f]
    BY <1>1, <1>2, <1>5, <1>7
  <2>2. n.cr[f].on /\ s.refill[f] = 0 => n.half[f] = 0
    BY <1>2, <1>5, <1>7 DEF RunsOn
  <2>3. QED
    BY <1>2, <2>1, <2>2 DEF Goes
<1>13. Later(s, n)
  BY <1>1, <1>12 DEF Later
<1>14. \A f \in Fifos :
         /\ Sounds(s, f) => n.src[f] = 0
         /\ ~Sounds(s, f) => n.src[f] = s.src[f] /\ n.refill[f] = s.refill[f]
         /\ s.refill[f] = 0 => n.refill[f] \in {0, Period(n.rate[f])}
  BY <1>1, <1>2
<1>15. QED
  BY <1>1, <1>2, <1>3, <1>4, <1>7, <1>11, <1>13, <1>14 DEF n

(* As loud as SOUNDCNT_H says; A only while no tone is on.                 *)
Loud(s) ==
  \A f \in Fifos : f = "B" \/ ~TonesOn(s.reg[VolumeOf]) =>
    LET h == s.reg[ControlOf]
        sides == Bit(h, Right(f)) + Bit(h, Left(f))
    IN  /\ s.cr[f].vol = 31 * sides * (1 + Bit(h, Full(f)))
        /\ sides = 1 => s.cr[f].pan = 127 * Bit(h, Right(f))

(* The volumes are set anew, after SOUNDCNT_L or SOUNDCNT_H was.           *)
LEMMA VolumesSet ==
  ASSUME NEW s \in Arm7, RunsOn(s), NEW a \in {VolumeOf, ControlOf}, NEW v \in Words
  PROVE  LET n == updatevol(Set(s, a, v))
         IN  /\ n \in Arm7 /\ RunsOn(n) /\ Later(s, n) /\ Loud(n)
             /\ n.reg = [s.reg EXCEPT ![a] = v] /\ n.takt = s.takt /\ n.rate = s.rate
             /\ n.refill = s.refill /\ n.src = s.src
             /\ n.cr["B"].on = s.cr["B"].on
             /\ n.cr["A"].on <=> s.cr["A"].on /\ ~TonesOn(n.reg[VolumeOf])
<1> DEFINE m == Set(s, a, v)
           n == updatevol(m)
<1>1. a \in Kept
  BY RegistersApart
<1>2. /\ m \in Arm7 /\ m.reg = [s.reg EXCEPT ![a] = v] /\ m.takt = s.takt
      /\ m.rate = s.rate /\ SamePlaying(s, m)
  BY <1>1, SetFields DEF SamePlaying
<1> HIDE DEF m
<1> DEFINE l == m.reg[VolumeOf]
           h == m.reg[ControlOf]
<1>3. /\ n \in Arm7 /\ n.reg = m.reg /\ n.takt = m.takt /\ n.rate = m.rate
      /\ n.refill = m.refill /\ n.half = m.half /\ n.src = m.src
      /\ n.apart = m.apart /\ n.anew = m.anew
      /\ n.cr["B"] = Direct(h, "B", m.cr["B"])
      /\ n.cr["A"] = (IF TonesOn(l) THEN ToneControl(l, h) ELSE Direct(h, "A", m.cr["A"]))
  BY <1>2, UpdatevolFields
<1> HIDE DEF n
<1>4. l \in Words /\ h \in Words /\ l = n.reg[VolumeOf] /\ h = n.reg[ControlOf]
  BY <1>2, <1>3, RegistersApart DEF Arm7
<1> HIDE DEF l, h
<1>5. /\ "A" \in Fifos /\ "B" \in Fifos /\ \A f \in Fifos : f = "A" \/ f = "B"
      /\ "A" # "B"
  BY DEF Fifos
<1>6. m.cr["A"] \in Channel /\ m.cr["B"] \in Channel
  BY <1>2, <1>5 DEF Arm7
<1>7. /\ n.cr["B"].on = m.cr["B"].on
      /\ n.cr["B"].vol = 31 * (Bit(h, Right("B")) + Bit(h, Left("B"))) * (1 + Bit(h, Full("B")))
      /\ Bit(h, Right("B")) + Bit(h, Left("B")) = 1 =>
           n.cr["B"].pan = 127 * Bit(h, Right("B"))
  BY <1>3, <1>4, <1>5, <1>6, DirectChannel
<1>8. ASSUME ~TonesOn(l)
      PROVE  /\ n.cr["A"].on = m.cr["A"].on
             /\ n.cr["A"].vol =
                  31 * (Bit(h, Right("A")) + Bit(h, Left("A"))) * (1 + Bit(h, Full("A")))
             /\ Bit(h, Right("A")) + Bit(h, Left("A")) = 1 =>
                  n.cr["A"].pan = 127 * Bit(h, Right("A"))
  BY <1>3, <1>4, <1>5, <1>6, <1>8, DirectChannel
<1>9. ASSUME TonesOn(l)
      PROVE  n.cr["A"].on = FALSE
  BY <1>3, <1>4, <1>9, ToneChannel
<1>10. Loud(n)
  BY <1>4, <1>5, <1>7, <1>8 DEF Loud
<1>11. /\ n.cr["B"].on = s.cr["B"].on
       /\ n.cr["A"].on <=> s.cr["A"].on /\ ~TonesOn(n.reg[VolumeOf])
  <2>1. s.cr["A"].on \in BOOLEAN /\ m.cr = s.cr
    BY <1>2, <1>6 DEF SamePlaying, Channel
  <2>2. l = n.reg[VolumeOf]
    BY <1>4
  <2>3. QED
    BY <1>7, <1>8, <1>9, <2>1, <2>2
<1>12. RunsOn(n)
  BY <1>2, <1>3, <1>5, <1>11 DEF RunsOn, SamePlaying
<1>13. Later(s, n)
  <2>1. \A f \in Fifos : n.cr[f].on => s.cr[f].on
    BY <1>5, <1>11
  <2>2. /\ n.refill = s.refill /\ n.half = s.half /\ n.src = s.src
        /\ n.apart = s.apart /\ n.anew = s.anew
    BY <1>2, <1>3 DEF SamePlaying
  <2>3. \A f \in Fifos : s.cr[f].on => s.refill[f] # 0
    BY DEF RunsOn
  <2>4. QED
    BY <2>1, <2>2, <2>3 DEF Later, Goes
<1>14. QED
  BY <1>2, <1>3, <1>10, <1>11, <1>12, <1>13 DEF m, n, SamePlaying

(* What a write makes of the ARM7.  Whoever is to sound does, from the     *)
(* source, but for A and a tone; whoever begins was to sound, or its       *)
(* timer's control was overwritten; and a refill timer that is started has *)
(* the period of the rate.                                                 *)
SoundsNow(s, n, f, a) ==
  \/ n.cr[f].on
  \/ f = "A" /\ TonesOn(n.reg[VolumeOf])
  \/ a = VolumeOf /\ Sounds(s, f) /\ ~s.cr[f].on
Begun(s, n, f, a) ==
  \/ s.cr[f].on \/ Sounds(n, f)
  \/ Fed(n.reg, f) /\ ControlOfTimer[n.takt[f] + 1] \in SpoiltBy(a)
Took(s, n, f, a) ==
  n.src[f] = 0 \/ (a = VolumeOf /\ Sounds(s, f) /\ n.src[f] = s.src[f])
Wrote(s, n, a) ==
  /\ n \in Arm7 /\ Tuned(n) /\ Refilled(n) /\ Loud(n) /\ Later(s, n)
  /\ \A f \in Fifos :
       /\ Sounds(n, f) => SoundsNow(s, n, f, a) /\ Took(s, n, f, a)
       /\ n.cr[f].on => Begun(s, n, f, a)
       /\ s.refill[f] = 0 => n.refill[f] \in {0, Period(n.rate[f])}

LEMMA RefilledRunsOn ==
  ASSUME NEW s, Refilled(s)
  PROVE  RunsOn(s)
BY DEF Refilled, RunsOn

LEMMA LoudKept ==
  ASSUME NEW s, NEW n, Loud(s), n.reg[VolumeOf] = s.reg[VolumeOf],
         n.reg[ControlOf] = s.reg[ControlOf],
         \A f \in Fifos : n.cr[f].vol = s.cr[f].vol /\ n.cr[f].pan = s.cr[f].pan
  PROVE  Loud(n)
BY DEF Loud

LEMMA VolumeWritten ==
  ASSUME NEW s \in Arm7, Tuned(s), Refilled(s), NEW v \in Words
  PROVE  LET n == SoundCntL(s, v)
         IN  /\ Wrote(s, n, VolumeOf) /\ n.reg = [s.reg EXCEPT ![VolumeOf] = v]
             /\ n.rate = s.rate /\ n.refill = s.refill /\ n.src = s.src
             /\ n.cr["B"].on = s.cr["B"].on
             /\ n.cr["A"].on <=> s.cr["A"].on /\ ~TonesOn(n.reg[VolumeOf])
             /\ \A f \in Fifos : Sounds(n, f) <=> Sounds(s, f)
<1> DEFINE n == SoundCntL(s, v)
<1>1. /\ n \in Arm7 /\ RunsOn(n) /\ Later(s, n) /\ Loud(n)
      /\ n.reg = [s.reg EXCEPT ![VolumeOf] = v] /\ n.takt = s.takt /\ n.rate = s.rate
      /\ n.refill = s.refill /\ n.src = s.src
      /\ n.cr["B"].on = s.cr["B"].on
      /\ n.cr["A"].on <=> s.cr["A"].on /\ ~TonesOn(n.reg[VolumeOf])
  BY RefilledRunsOn, VolumesSet DEF SoundCntL
<1> HIDE DEF n
<1>2. \A r \in Kept \ {VolumeOf} : n.reg[r] = s.reg[r]
  BY <1>1 DEF Arm7
<1>3. \A f \in Fifos : s.takt[f] \in {0, 1}
  BY DEF Arm7
<1>4. /\ VolumeOf \notin DmaRegisters /\ DmaRegisters \subseteq Kept
      /\ VolumeOf # ControlOf /\ ControlOf \in Kept
  BY RegistersApart
<1>5. \A t \in {0, 1} : ReloadOfTimer[t + 1] # VolumeOf /\ ControlOfTimer[t + 1] # VolumeOf
  BY TimersKept, RegistersApart
<1>6. ASSUME NEW f \in Fifos
      PROVE  Sounds(n, f) <=> Sounds(s, f)
  <2>1. \A r \in DmaRegisters : n.reg[r] = s.reg[r]
    BY <1>2, <1>4
  <2>2. n.reg[ControlOfTimer[s.takt[f] + 1]] = s.reg[ControlOfTimer[s.takt[f] + 1]]
    BY <1>2, <1>3, <1>5, TimersKept
  <2>3. QED
    BY <1>1, <2>1, <2>2, SoundsKept
<1>7. Tuned(n)
  BY <1>1, <1>2, <1>3, <1>4, <1>5, TimersKept DEF Tuned
<1>8. \A f \in Fifos : f = "A" \/ f = "B"
  BY DEF Fifos
<1>9. \A f \in Fifos : n.cr[f].on => s.cr[f].on
  BY <1>1, <1>8
<1>10. Refilled(n)
  <2>1. \A f \in Fifos : Sounds(s, f) => s.refill[f] # 0
    BY DEF Refilled
  <2>2. \A f \in Fifos : Sounds(n, f) \/ n.cr[f].on => n.refill[f] # 0
    BY <1>1, <1>6, <2>1 DEF RunsOn
  <2>3. QED
    BY <1>1, <2>2 DEF RunsOn, Refilled
<1>11. ASSUME NEW f \in Fifos, Sounds(n, f)
       PROVE  SoundsNow(s, n, f, VolumeOf) /\ Took(s, n, f, VolumeOf)
  <2>1. Sounds(s, f)
    BY <1>6, <1>11
  <2>2. n.cr[f].on \/ (f = "A" /\ TonesOn(n.reg[VolumeOf])) \/ ~s.cr[f].on
    BY <1>1, <1>8
  <2>3. QED
    BY <1>1, <2>1, <2>2 DEF SoundsNow, Took
<1>12. \A f \in Fifos : n.cr[f].on => Begun(s, n, f, VolumeOf)
  BY <1>9 DEF Begun
<1>13. \A f \in Fifos : s.refill[f] = 0 => n.refill[f] \in {0, Period(n.rate[f])}
  BY <1>1
<1>14. QED
  BY <1>1, <1>6, <1>7, <1>10, <1>11, <1>12, <1>13 DEF Wrote, n

LEMMA ControlWritten ==
  ASSUME NEW s \in Arm7, Tuned(s), Refilled(s), NEW v \in Words
  PROVE  LET n == SoundCntH(s, v)
         IN  Wrote(s, n, ControlOf) /\ n.reg = [s.reg EXCEPT ![ControlOf] = v]
<1> DEFINE m == updatevol(Set(s, ControlOf, v))
           takt == [f \in Fifos |-> Bit(v, Clock(f))]
           p == [m EXCEPT !.takt = takt]
           q == updatetakt(p)
           n == checkstart(q)
<1>1. /\ m \in Arm7 /\ RunsOn(m) /\ Later(s, m) /\ Loud(m)
      /\ m.reg = [s.reg EXCEPT ![ControlOf] = v]
      /\ m.refill = s.refill /\ m.src = s.src
      /\ m.cr["B"].on = s.cr["B"].on
      /\ m.cr["A"].on <=> s.cr["A"].on /\ ~TonesOn(m.reg[VolumeOf])
  BY RefilledRunsOn, VolumesSet
<1> HIDE DEF m
<1>2. takt \in [Fifos -> {0, 1}] /\ \A f \in Fifos : takt[f] = Bit(v, Clock(f))
  <2>1. v \in Nat
    BY WordsAre
  <2>2. \A f \in Fifos : Bit(v, Clock(f)) \in {0, 1}
    BY <2>1, BitRange, MasksInRange
  <2>3. QED
    BY <2>2
<1> HIDE DEF takt
<1>3. /\ p \in Arm7 /\ p.reg = m.reg /\ p.takt = takt /\ SamePlaying(m, p)
  BY <1>1, <1>2 DEF Arm7, SamePlaying
<1> HIDE DEF p
<1>4. /\ q \in Arm7 /\ q.reg = p.reg /\ q.takt = p.takt /\ SamePlaying(m, q)
      /\ q.rate = [f \in Fifos |-> p.reg[ReloadOfTimer[p.takt[f] + 1]]]
  BY <1>3, UpdatetaktFields DEF SamePlaying
<1> HIDE DEF q
<1>5. q.reg[ControlOf] = v /\ q.reg[VolumeOf] = m.reg[VolumeOf]
  BY <1>1, <1>3, <1>4, RegistersApart DEF Arm7
<1>6. Tuned(q)
  BY <1>2, <1>3, <1>4, <1>5 DEF Tuned
<1>7. RunsOn(q) /\ Later(m, q)
  BY <1>1, <1>4, SamePlayingIsLater
<1>8. /\ n \in Arm7 /\ Tuned(n) /\ Refilled(n) /\ Later(q, n) /\ n.reg = q.reg
      /\ \A f \in Fifos :
           /\ Sounds(n, f) <=> Sounds(q, f)
           /\ n.cr[f].vol = q.cr[f].vol /\ n.cr[f].pan = q.cr[f].pan
           /\ n.cr[f].on <=> q.cr[f].on \/ Sounds(q, f)
           /\ Sounds(q, f) => n.src[f] = 0
           /\ q.refill[f] = 0 => n.refill[f] \in {0, Period(n.rate[f])}
  BY <1>4, <1>6, <1>7, Checked
<1> HIDE DEF n
<1>9. q.cr = m.cr /\ q.refill = m.refill
  BY <1>4 DEF SamePlaying
<1>10. Loud(n)
  <2>1. n.reg = m.reg
    BY <1>3, <1>4, <1>8
  <2>2. \A f \in Fifos : n.cr[f].vol = m.cr[f].vol /\ n.cr[f].pan = m.cr[f].pan
    BY <1>8, <1>9
  <2>3. QED
    BY <1>1, <2>1, <2>2, LoudKept
<1>11. Later(s, n)
  BY <1>1, <1>7, <1>8, LaterTransitive
<1>12. \A f \in Fifos : q.cr[f].on => s.cr[f].on
  <2>1. \A f \in Fifos : f = "A" \/ f = "B"
    BY DEF Fifos
  <2>2. QED
    BY <1>1, <1>9, <2>1
<1>13. \A f \in Fifos : Sounds(n, f) => SoundsNow(s, n, f, ControlOf) /\ Took(s, n, f, ControlOf)
  BY <1>8 DEF SoundsNow, Took
<1>14. \A f \in Fifos : n.cr[f].on => Begun(s, n, f, ControlOf)
  BY <1>8, <1>12 DEF Begun
<1>15. \A f \in Fifos : s.refill[f] = 0 => n.refill[f] \in {0, Period(n.rate[f])}
  BY <1>1, <1>8, <1>9
<1>16. n.reg = [s.reg EXCEPT ![ControlOf] = v]
  BY <1>1, <1>3, <1>4, <1>8
<1>17. Wrote(s, n, ControlOf)
  BY <1>8, <1>10, <1>11, <1>13, <1>14, <1>15 DEF Wrote
<1>18. QED
  BY <1>16, <1>17 DEF SoundCntH, n, q, p, m, takt

LEMMA DmaWritten ==
  ASSUME NEW s \in Arm7, Tuned(s), Refilled(s), Loud(s), NEW a \in DmaRegisters, NEW v \in Words
  PROVE  LET n == checkstart(Set(s, a, v))
         IN  Wrote(s, n, a) /\ n.reg = [s.reg EXCEPT ![a] = v]
<1> DEFINE m == Set(s, a, v)
           n == checkstart(m)
<1>1. a \in Kept /\ a # VolumeOf /\ a # ControlOf
  BY RegistersApart
<1>2. /\ m \in Arm7 /\ m.reg = [s.reg EXCEPT ![a] = v] /\ m.takt = s.takt
      /\ m.rate = s.rate /\ SamePlaying(s, m)
  BY <1>1, SetFields DEF SamePlaying
<1> HIDE DEF m
<1>3. \A r \in Kept \ {a} : m.reg[r] = s.reg[r]
  BY <1>2 DEF Arm7
<1>4. \A t \in {0, 1} : ReloadOfTimer[t + 1] # a
  BY TimersKept, RegistersApart
<1>5. \A f \in Fifos : s.takt[f] \in {0, 1}
  BY DEF Arm7
<1>6. VolumeOf \in Kept /\ ControlOf \in Kept
  BY RegistersApart
<1>7. Tuned(m)
  BY <1>1, <1>2, <1>3, <1>4, <1>5, <1>6, TimersKept DEF Tuned
<1>8. RunsOn(m) /\ Later(s, m)
  BY <1>2, RefilledRunsOn, SamePlayingIsLater
<1>9. /\ n \in Arm7 /\ Tuned(n) /\ Refilled(n) /\ Later(m, n) /\ n.reg = m.reg
      /\ \A f \in Fifos :
           /\ Sounds(n, f) <=> Sounds(m, f)
           /\ n.cr[f].vol = m.cr[f].vol /\ n.cr[f].pan = m.cr[f].pan
           /\ n.cr[f].on <=> m.cr[f].on \/ Sounds(m, f)
           /\ Sounds(m, f) => n.src[f] = 0
           /\ m.refill[f] = 0 => n.refill[f] \in {0, Period(n.rate[f])}
  BY <1>2, <1>7, <1>8, Checked
<1> HIDE DEF n
<1>10. m.cr = s.cr /\ m.refill = s.refill
  BY <1>2 DEF SamePlaying
<1>11. Loud(n)
  <2>1. n.reg[VolumeOf] = s.reg[VolumeOf] /\ n.reg[ControlOf] = s.reg[ControlOf]
    BY <1>1, <1>3, <1>6, <1>9
  <2>2. \A f \in Fifos : n.cr[f].vol = s.cr[f].vol /\ n.cr[f].pan = s.cr[f].pan
    BY <1>9, <1>10
  <2>3. QED
    BY <2>1, <2>2, LoudKept
<1>12. Later(s, n)
  BY <1>8, <1>9, LaterTransitive
<1>13. \A f \in Fifos : Sounds(n, f) => SoundsNow(s, n, f, a) /\ Took(s, n, f, a)
  BY <1>9 DEF SoundsNow, Took
<1>14. \A f \in Fifos : n.cr[f].on => Begun(s, n, f, a)
  BY <1>9, <1>10 DEF Begun
<1>15. \A f \in Fifos : s.refill[f] = 0 => n.refill[f] \in {0, Period(n.rate[f])}
  BY <1>9, <1>10
<1>16. Wrote(s, n, a)
  BY <1>9, <1>11, <1>12, <1>13, <1>14, <1>15 DEF Wrote
<1>17. QED
  BY <1>2, <1>9, <1>16 DEF n, m

(* The timers' cases, from the last one on.  A step of theirs may find a   *)
(* FIFO that is to sound and has no refills yet.                           *)
Overwrites(s, n, registers, v) ==
  /\ n.takt = s.takt
  /\ \A r \in Kept : n.reg[r] = IF r \in registers THEN v ELSE s.reg[r]
Ran(s, n) ==
  /\ n \in Arm7 /\ Tuned(n) /\ Refilled(n) /\ Loud(n) /\ Later(s, n)
  /\ \A f \in Fifos :
       /\ Sounds(n, f) => n.cr[f].on \/ (f = "A" /\ TonesOn(n.reg[VolumeOf]))
       /\ Sounds(n, f) => n.src[f] = 0
       /\ n.cr[f].on => s.cr[f].on \/ Sounds(n, f)
       /\ s.refill[f] = 0 => n.refill[f] \in {0, Period(n.rate[f])}

LEMMA TunedIsNamed ==
  ASSUME NEW s, Tuned(s)
  PROVE  Named(s)
BY DEF Tuned, Named

LEMMA Timer1ControlRuns ==
  ASSUME NEW s \in Arm7, Named(s), RunsOn(s), NEW v \in Words
  PROVE  LET n == Timer1Control(s, v)
         IN  Ran(s, n) /\ Overwrites(s, n, {\h106, VolumeOf}, v)
<1> DEFINE m == updatetakt(Set(s, \h106, v))
           p == checkstart(m)
           n == SoundCntL(p, v)
<1>1. /\ m \in Arm7 /\ Tuned(m) /\ RunsOn(m) /\ Later(s, m) /\ SamePlaying(s, m)
      /\ m.takt = s.takt /\ m.reg = [s.reg EXCEPT ![\h106] = v]
  <2>1. \h106 \in TimerRegisters
    BY DEF TimerRegisters
  <2>2. QED
    BY <2>1, TimerSet
<1> HIDE DEF m
<1>2. /\ p \in Arm7 /\ Tuned(p) /\ Refilled(p) /\ Later(m, p)
      /\ p.reg = m.reg /\ p.takt = m.takt
      /\ \A f \in Fifos :
           /\ Sounds(p, f) <=> Sounds(m, f)
           /\ p.cr[f].on <=> m.cr[f].on \/ Sounds(m, f)
           /\ Sounds(m, f) => p.src[f] = 0
           /\ m.refill[f] = 0 => p.refill[f] \in {0, Period(p.rate[f])}
  BY <1>1, Checked
<1> HIDE DEF p
<1>3. /\ n \in Arm7 /\ Loud(n) /\ Later(p, n)
      /\ n.reg = [p.reg EXCEPT ![VolumeOf] = v] /\ n.takt = p.takt /\ n.rate = p.rate
      /\ n.refill = p.refill /\ n.src = p.src
      /\ n.cr["B"].on = p.cr["B"].on
      /\ n.cr["A"].on <=> p.cr["A"].on /\ ~TonesOn(n.reg[VolumeOf])
  BY <1>2, RefilledRunsOn, VolumesSet DEF SoundCntL
<1>4. Tuned(n) /\ Refilled(n)
  <2>1. Wrote(p, n, VolumeOf)
    BY <1>2, VolumeWritten
  <2>2. QED
    BY <2>1 DEF Wrote
<1> HIDE DEF n
<1>5. \A r \in Kept \ {VolumeOf} : n.reg[r] = p.reg[r]
  BY <1>2, <1>3 DEF Arm7
<1>6. ASSUME NEW f \in Fifos
      PROVE  Sounds(n, f) <=> Sounds(m, f)
  <2>1. \A r \in DmaRegisters : n.reg[r] = p.reg[r]
    BY <1>5, RegistersApart
  <2>2. p.takt[f] \in {0, 1}
    BY <1>2 DEF Arm7
  <2>3. n.reg[ControlOfTimer[p.takt[f] + 1]] = p.reg[ControlOfTimer[p.takt[f] + 1]]
    BY <1>5, <2>2, TimersKept, RegistersApart
  <2>4. QED
    BY <1>2, <1>3, <2>1, <2>3, SoundsKept
<1>7. \A f \in Fifos : f = "A" \/ f = "B"
  BY DEF Fifos
<1>8. m.cr = s.cr /\ m.refill = s.refill
  BY <1>1 DEF SamePlaying
<1>9. ASSUME NEW f \in Fifos
      PROVE  /\ Sounds(n, f) => n.cr[f].on \/ (f = "A" /\ TonesOn(n.reg[VolumeOf]))
             /\ Sounds(n, f) => n.src[f] = 0
             /\ n.cr[f].on => s.cr[f].on \/ Sounds(n, f)
             /\ s.refill[f] = 0 => n.refill[f] \in {0, Period(n.rate[f])}
  <2>1. /\ p.cr[f].on <=> m.cr[f].on \/ Sounds(m, f)
        /\ Sounds(m, f) => p.src[f] = 0
        /\ m.refill[f] = 0 => p.refill[f] \in {0, Period(p.rate[f])}
    BY <1>2
  <2>2. n.cr[f].on => p.cr[f].on
    BY <1>3, <1>7
  <2>3. p.cr[f].on => n.cr[f].on \/ (f = "A" /\ TonesOn(n.reg[VolumeOf]))
    BY <1>3, <1>7
  <2>4. Sounds(n, f) <=> Sounds(m, f)
    BY <1>6
  <2>5. Sounds(n, f) => n.src[f] = 0
    BY <1>3, <2>1, <2>4
  <2>6. s.refill[f] = 0 => n.refill[f] \in {0, Period(n.rate[f])}
    BY <1>3, <1>8, <2>1
  <2>7. n.cr[f].on => s.cr[f].on \/ Sounds(n, f)
    BY <1>8, <2>1, <2>2, <2>4
  <2>8. QED
    BY <2>1, <2>3, <2>4, <2>5, <2>6, <2>7
<1>10. Later(s, n)
  BY <1>1, <1>2, <1>3, LaterTransitive
<1>11. Ran(s, n)
  BY <1>3, <1>4, <1>9, <1>10 DEF Ran
<1>12. Overwrites(s, n, {\h106, VolumeOf}, v)
  <2>1. ASSUME NEW r \in Kept
        PROVE  n.reg[r] = IF r \in {\h106, VolumeOf} THEN v ELSE s.reg[r]
    <3>1. n.reg[r] = IF r = VolumeOf THEN v ELSE p.reg[r]
      BY <1>2, <1>3 DEF Arm7
    <3>2. p.reg[r] = IF r = \h106 THEN v ELSE s.reg[r]
      BY <1>1, <1>2 DEF Arm7
    <3>3. QED
      BY <3>1, <3>2
  <2>2. QED
    BY <1>1, <1>2, <1>3, <2>1 DEF Overwrites
<1>13. QED
  BY <1>11, <1>12 DEF Timer1Control, n, p, m

LEMMA Timer1ReloadRuns ==
  ASSUME NEW s \in Arm7, Named(s), RunsOn(s), NEW v \in Words
  PROVE  LET n == Timer1Reload(s, v)
         IN  Ran(s, n) /\ Overwrites(s, n, {\h104, \h106, VolumeOf}, v)
<1> DEFINE m == updatetakt(Set(s, \h104, v))
           n == Timer1Control(m, v)
<1>1. /\ m \in Arm7 /\ Tuned(m) /\ RunsOn(m) /\ Later(s, m) /\ SamePlaying(s, m)
      /\ m.takt = s.takt /\ m.reg = [s.reg EXCEPT ![\h104] = v]
  <2>1. \h104 \in TimerRegisters
    BY DEF TimerRegisters
  <2>2. QED
    BY <2>1, TimerSet
<1> HIDE DEF m
<1>2. Ran(m, n) /\ Overwrites(m, n, {\h106, VolumeOf}, v)
  BY <1>1, TunedIsNamed, Timer1ControlRuns
<1> HIDE DEF n
<1>3. Later(s, n)
  BY <1>1, <1>2, LaterTransitive DEF Ran
<1>4. m.cr = s.cr /\ m.refill = s.refill
  BY <1>1 DEF SamePlaying
<1>5. Ran(s, n)
  <2>1. \A f \in Fifos :
          /\ n.cr[f].on => m.cr[f].on \/ Sounds(n, f)
          /\ m.refill[f] = 0 => n.refill[f] \in {0, Period(n.rate[f])}
    BY <1>2 DEF Ran
  <2>2. \A f \in Fifos :
          /\ n.cr[f].on => s.cr[f].on \/ Sounds(n, f)
          /\ s.refill[f] = 0 => n.refill[f] \in {0, Period(n.rate[f])}
    BY <1>4, <2>1
  <2>3. QED
    BY <1>2, <1>3, <2>2 DEF Ran
<1>6. Overwrites(s, n, {\h104, \h106, VolumeOf}, v)
  <2>1. ASSUME NEW r \in Kept
        PROVE  n.reg[r] = IF r \in {\h104, \h106, VolumeOf} THEN v ELSE s.reg[r]
    <3>1. n.reg[r] = IF r \in {\h106, VolumeOf} THEN v ELSE m.reg[r]
      BY <1>2 DEF Overwrites
    <3>2. m.reg[r] = IF r = \h104 THEN v ELSE s.reg[r]
      BY <1>1 DEF Arm7
    <3>3. QED
      BY <3>1, <3>2
  <2>2. QED
    BY <1>1, <1>2, <2>1 DEF Overwrites
<1>7. QED
  BY <1>5, <1>6 DEF Timer1Reload, n, m

(* Timer 0's cases begin with whoever timer 1 has had to sound already.    *)
RanOn(s, n) ==
  /\ n \in Arm7 /\ Tuned(n) /\ Refilled(n) /\ Loud(n) /\ Later(s, n)
  /\ \A f \in Fifos :
       /\ Sounds(n, f) => n.cr[f].on \/ (f = "A" /\ TonesOn(n.reg[VolumeOf]))
       /\ Sounds(n, f) => n.src[f] = 0
       /\ n.cr[f].on => s.cr[f].on \/ Sounds(n, f) \/ (Fed(n.reg, f) /\ n.takt[f] = 1)
       /\ s.refill[f] = 0 => n.refill[f] \in {0, Period(n.rate[f])}

LEMMA Timer0ControlRuns ==
  ASSUME NEW s \in Arm7, Named(s), Refilled(s), NEW v \in Words
  PROVE  LET n == Timer0Control(s, v)
         IN  RanOn(s, n) /\ Overwrites(s, n, {\h102, \h104, \h106, VolumeOf}, v)
<1> DEFINE m == updatetakt(Set(s, \h102, v))
           p == checkstart(m)
           n == Timer1Reload(p, v)
<1>1. /\ m \in Arm7 /\ Tuned(m) /\ RunsOn(m) /\ Later(s, m) /\ SamePlaying(s, m)
      /\ m.takt = s.takt /\ m.reg = [s.reg EXCEPT ![\h102] = v]
  <2>1. \h102 \in TimerRegisters
    BY DEF TimerRegisters
  <2>2. QED
    BY <2>1, TimerSet, RefilledRunsOn
<1> HIDE DEF m
<1>2. /\ p \in Arm7 /\ Tuned(p) /\ Refilled(p) /\ Later(m, p)
      /\ p.reg = m.reg /\ p.takt = m.takt
      /\ \A f \in Fifos :
           /\ p.cr[f].on <=> m.cr[f].on \/ Sounds(m, f)
           /\ ~Sounds(m, f) => p.refill[f] = m.refill[f]
           /\ m.refill[f] = 0 => p.refill[f] \in {0, Period(p.rate[f])}
  BY <1>1, Checked
<1> HIDE DEF p
<1>3. Ran(p, n) /\ Overwrites(p, n, {\h104, \h106, VolumeOf}, v)
  BY <1>2, TunedIsNamed, RefilledRunsOn, Timer1ReloadRuns
<1> HIDE DEF n
<1>4. /\ n \in Arm7 /\ Tuned(n) /\ Refilled(n) /\ Loud(n) /\ Later(p, n)
  BY <1>3 DEF Ran
<1>5. Later(s, n)
  BY <1>1, <1>2, <1>4, LaterTransitive
<1>6. n.takt = s.takt /\ n.takt = m.takt /\ \A f \in Fifos : s.takt[f] \in {0, 1}
  BY <1>1, <1>2, <1>3 DEF Overwrites, Arm7
<1>7. \A r \in Kept \ {\h104, \h106, VolumeOf} : n.reg[r] = m.reg[r]
  BY <1>2, <1>3 DEF Overwrites
<1>8. \A r \in Kept \ {\h102} : m.reg[r] = s.reg[r]
  BY <1>1 DEF Arm7
<1>9. \A r \in DmaRegisters : n.reg[r] = m.reg[r] /\ m.reg[r] = s.reg[r]
  BY <1>7, <1>8, RegistersApart
<1>10. m.cr = s.cr /\ m.refill = s.refill
  BY <1>1 DEF SamePlaying
<1>11. ASSUME NEW f \in Fifos, s.takt[f] = 0
       PROVE  (Sounds(n, f) <=> Sounds(m, f)) /\ n.rate[f] = p.rate[f]
  <2>1. ReloadOfTimer[s.takt[f] + 1] = \h100 /\ ControlOfTimer[s.takt[f] + 1] = \h102
    BY <1>11, TimersKept
  <2>2. n.reg[\h100] = m.reg[\h100] /\ n.reg[\h102] = m.reg[\h102]
    BY <1>7, RegistersApart
  <2>3. Sounds(n, f) <=> Sounds(m, f)
    <3>1. n.takt[f] = m.takt[f]
      BY <1>6
    <3>2. n.reg[ControlOfTimer[m.takt[f] + 1]] = m.reg[ControlOfTimer[m.takt[f] + 1]]
      BY <1>1, <2>1, <2>2
    <3>3. \A r \in DmaRegisters : n.reg[r] = m.reg[r]
      BY <1>9
    <3>4. QED
      BY <1>1, <1>4, <3>1, <3>2, <3>3, SoundsKept
  <2>4. n.rate[f] = n.reg[\h100] /\ p.rate[f] = p.reg[\h100]
    BY <1>1, <1>2, <1>4, <1>6, <2>1 DEF Tuned
  <2>5. QED
    BY <1>2, <2>2, <2>3, <2>4
<1>12. ASSUME NEW f \in Fifos, s.takt[f] = 1
       PROVE  Sounds(m, f) <=> Sounds(s, f)
  <2>1. ControlOfTimer[s.takt[f] + 1] = \h106
    BY <1>12, TimersKept
  <2>2. m.reg[\h106] = s.reg[\h106]
    BY <1>8, RegistersApart
  <2>3. m.reg[ControlOfTimer[s.takt[f] + 1]] = s.reg[ControlOfTimer[s.takt[f] + 1]]
    BY <2>1, <2>2
  <2>4. \A r \in DmaRegisters : m.reg[r] = s.reg[r]
    BY <1>9
  <2>5. m.takt[f] = s.takt[f]
    BY <1>1
  <2>6. QED
    BY <1>1, <2>3, <2>4, <2>5, SoundsKept
<1>13. ASSUME NEW f \in Fifos, n.cr[f].on
       PROVE  s.cr[f].on \/ Sounds(n, f) \/ (Fed(n.reg, f) /\ n.takt[f] = 1)
  <2>1. p.cr[f].on \/ Sounds(n, f)
    BY <1>3, <1>13 DEF Ran
  <2>2. p.cr[f].on => s.cr[f].on \/ Sounds(m, f)
    BY <1>2, <1>10
  <2>3. Sounds(m, f) /\ s.takt[f] = 0 => Sounds(n, f)
    BY <1>11
  <2>4. Sounds(m, f) => Fed(n.reg, f)
    <3>1. Sounds(m, f) => Fed(m.reg, f)
      BY DEF Sounds, Plays
    <3>2. Fed(n.reg, f) <=> Fed(m.reg, f)
      BY <1>9, FedKept
    <3>3. QED
      BY <3>1, <3>2
  <2>5. QED
    BY <1>6, <2>1, <2>2, <2>3, <2>4
<1>14. ASSUME NEW f \in Fifos, s.refill[f] = 0
       PROVE  n.refill[f] \in {0, Period(n.rate[f])}
  <2>1. m.refill[f] = 0
    BY <1>10, <1>14
  <2>2. CASE p.refill[f] = 0
    BY <1>3, <2>2 DEF Ran
  <2>3. CASE p.refill[f] # 0
    <3>1. Sounds(m, f) /\ p.refill[f] = Period(p.rate[f])
      BY <1>2, <2>1, <2>3
    <3>2. n.refill[f] = p.refill[f]
      BY <1>4, <2>3 DEF Later, Goes
    <3>3. ~Sounds(s, f)
      BY <1>14 DEF Refilled
    <3>4. s.takt[f] = 0
      BY <1>6, <1>12, <3>1, <3>3
    <3>5. n.rate[f] = p.rate[f]
      BY <1>11, <3>4
    <3>6. QED
      BY <3>1, <3>2, <3>5
  <2>4. QED
    BY <2>2, <2>3
<1>15. \A f \in Fifos :
         /\ Sounds(n, f) => n.cr[f].on \/ (f = "A" /\ TonesOn(n.reg[VolumeOf]))
         /\ Sounds(n, f) => n.src[f] = 0
  BY <1>3 DEF Ran
<1>16. RanOn(s, n)
  BY <1>4, <1>5, <1>13, <1>14, <1>15 DEF RanOn
<1>17. Overwrites(s, n, {\h102, \h104, \h106, VolumeOf}, v)
  <2>1. ASSUME NEW r \in Kept
        PROVE  n.reg[r] = IF r \in {\h102, \h104, \h106, VolumeOf} THEN v ELSE s.reg[r]
    <3>1. n.reg[r] = IF r \in {\h104, \h106, VolumeOf} THEN v ELSE m.reg[r]
      BY <1>2, <1>3 DEF Overwrites
    <3>2. m.reg[r] = IF r = \h102 THEN v ELSE s.reg[r]
      BY <1>1 DEF Arm7
    <3>3. QED
      BY <3>1, <3>2
  <2>2. QED
    BY <1>6, <2>1 DEF Overwrites
<1>18. QED
  BY <1>16, <1>17 DEF Timer0Control, n, p, m

LEMMA Timer0ReloadRuns ==
  ASSUME NEW s \in Arm7, Named(s), Refilled(s), NEW v \in Words
  PROVE  LET n == Timer0Reload(s, v)
         IN  RanOn(s, n) /\ Overwrites(s, n, {\h100, \h102, \h104, \h106, VolumeOf}, v)
<1> DEFINE m == updatetakt(Set(s, \h100, v))
           n == Timer0Control(m, v)
<1>1. /\ m \in Arm7 /\ Tuned(m) /\ RunsOn(m) /\ Later(s, m) /\ SamePlaying(s, m)
      /\ m.takt = s.takt /\ m.reg = [s.reg EXCEPT ![\h100] = v]
  <2>1. \h100 \in TimerRegisters
    BY DEF TimerRegisters
  <2>2. QED
    BY <2>1, TimerSet, RefilledRunsOn
<1> HIDE DEF m
<1>2. \A r \in Kept \ {\h100} : m.reg[r] = s.reg[r]
  BY <1>1 DEF Arm7
<1>3. ASSUME NEW f \in Fifos
      PROVE  Sounds(m, f) <=> Sounds(s, f)
  <2>1. \A r \in DmaRegisters : m.reg[r] = s.reg[r]
    BY <1>2, RegistersApart
  <2>2. s.takt[f] \in {0, 1}
    BY DEF Arm7
  <2>3. m.reg[ControlOfTimer[s.takt[f] + 1]] = s.reg[ControlOfTimer[s.takt[f] + 1]]
    BY <1>2, <2>2, TimersKept
  <2>4. QED
    BY <1>1, <2>1, <2>3, SoundsKept
<1>4. m.cr = s.cr /\ m.refill = s.refill
  BY <1>1 DEF SamePlaying
<1>5. Refilled(m)
  BY <1>1, <1>3, <1>4 DEF Refilled, RunsOn
<1>6. RanOn(m, n) /\ Overwrites(m, n, {\h102, \h104, \h106, VolumeOf}, v)
  BY <1>1, <1>5, TunedIsNamed, Timer0ControlRuns
<1> HIDE DEF n
<1>7. Later(s, n)
  BY <1>1, <1>6, LaterTransitive DEF RanOn
<1>8. RanOn(s, n)
  <2>1. \A f \in Fifos :
          /\ n.cr[f].on => m.cr[f].on \/ Sounds(n, f) \/ (Fed(n.reg, f) /\ n.takt[f] = 1)
          /\ m.refill[f] = 0 => n.refill[f] \in {0, Period(n.rate[f])}
    BY <1>6 DEF RanOn
  <2>2. \A f \in Fifos :
          /\ n.cr[f].on => s.cr[f].on \/ Sounds(n, f) \/ (Fed(n.reg, f) /\ n.takt[f] = 1)
          /\ s.refill[f] = 0 => n.refill[f] \in {0, Period(n.rate[f])}
    BY <1>4, <2>1
  <2>3. QED
    BY <1>6, <1>7, <2>2 DEF RanOn
<1>9. Overwrites(s, n, {\h100, \h102, \h104, \h106, VolumeOf}, v)
  <2>1. ASSUME NEW r \in Kept
        PROVE  n.reg[r] = IF r \in {\h100, \h102, \h104, \h106, VolumeOf}
                          THEN v ELSE s.reg[r]
    <3>1. n.reg[r] = IF r \in {\h102, \h104, \h106, VolumeOf} THEN v ELSE m.reg[r]
      BY <1>6 DEF Overwrites
    <3>2. m.reg[r] = IF r = \h100 THEN v ELSE s.reg[r]
      BY <1>1 DEF Arm7
    <3>3. QED
      BY <3>1, <3>2
  <2>2. QED
    BY <1>1, <1>6, <2>1 DEF Overwrites
<1>10. QED
  BY <1>8, <1>9 DEF Timer0Reload, n, m

(* newvalwrite: whatever is written, what may be told of the ARM7 is that  *)
(* (Wrote), and which of its copies hold what the game wrote.              *)
LEMMA SpoiltByTimers ==
  /\ SpoiltBy(\h100) = {\h102, \h104, \h106, VolumeOf}
  /\ SpoiltBy(\h102) = {\h104, \h106, VolumeOf}
  /\ SpoiltBy(\h104) = {\h106, VolumeOf} /\ SpoiltBy(\h106) = {VolumeOf}
  /\ \A a \in DmaRegisters \cup {VolumeOf, ControlOf} : SpoiltBy(a) = {}
BY DEF SpoiltBy, DmaRegisters, Dmas, VolumeOf, ControlOf

LEMMA KeptRegisters ==
  \A a \in Kept : \/ a \in DmaRegisters \/ a = VolumeOf \/ a = ControlOf
                  \/ a = \h100 \/ a = \h102 \/ a = \h104 \/ a = \h106
BY DEF Kept, DmaRegisters

LEMMA DmaCase ==
  \A a : (\E d \in Dmas : a \in {d[1], d[2], d[3]}) <=> a \in DmaRegisters
BY DEF DmaRegisters

LEMMA HeldIs ==
  /\ \A a \in Kept, v \in Words : Held(a, v) \in Words
  /\ \A a \in Kept \ DmaRegisters, v \in Words : Held(a, v) = v
  /\ \A a \in Kept, v \in Words : (\E d \in Dmas : a = d[3]) => Held(a, v) = v
<1>1. ASSUME NEW a \in Kept, NEW v \in Words
      PROVE  Held(a, v) \in Words
  <2>1. v % \h800 \in Int /\ 0 <= (v % \h800) /\ (v % \h800) < \h800
    BY WordsAre, SMT
  <2>2. v % \h800 \in Words
    BY <2>1, WordsAre, SMT
  <2>3. QED
    BY <2>2 DEF Held
<1>2. ASSUME NEW a \in Kept \ DmaRegisters, NEW v \in Words
      PROVE  Held(a, v) = v
  BY DmaCase DEF Held
<1>3. ASSUME NEW a \in Kept, NEW v \in Words, \E d \in Dmas : a = d[3]
      PROVE  Held(a, v) = v
  <2>1. ~\E d \in Dmas : a = d[2]
    BY <1>3 DEF Dmas
  <2>2. QED
    BY <2>1 DEF Held
<1>4. QED
  BY <1>1, <1>2, <1>3

LEMMA RanIsWrote ==
  ASSUME NEW s, NEW n, NEW a, Ran(s, n)
  PROVE  Wrote(s, n, a)
BY DEF Ran, Wrote, SoundsNow, Begun, Took

LEMMA RanOnIsWrote ==
  ASSUME NEW s, NEW n, NEW a, RanOn(s, n), \h106 \in SpoiltBy(a)
  PROVE  Wrote(s, n, a)
<1>1. ControlOfTimer[1 + 1] = \h106
  BY DEF ControlOfTimer
<1>2. \A f \in Fifos : n.cr[f].on => Begun(s, n, f, a)
  BY <1>1 DEF RanOn, Begun
<1>3. QED
  BY <1>2 DEF RanOn, Wrote, SoundsNow, Took

LEMMA NewvalwriteWrites ==
  ASSUME NEW s \in Arm7, Tuned(s), Refilled(s), Loud(s), NEW a \in Kept, NEW v \in Words
  PROVE  LET n == newvalwrite(s, a, v)
         IN  /\ Wrote(s, n, a)
             /\ \A r \in Kept \ SpoiltBy(a) :
                  n.reg[r] = IF r = a THEN Held(a, v) ELSE s.reg[r]
<1> DEFINE n == newvalwrite(s, a, v)
<1>1. Named(s) /\ RunsOn(s)
  BY TunedIsNamed, RefilledRunsOn
<1>2. s.reg \in [Kept -> Words]
  BY DEF Arm7
<1>3. CASE a \in DmaRegisters
  <2>1. n = checkstart(Set(s, a, Held(a, v)))
    <3>1. \E d \in Dmas : a \in {d[1], d[2], d[3]}
      BY <1>3, DmaCase
    <3>2. a \notin {\h100, \h102, \h104, \h106, VolumeOf, ControlOf}
      BY <1>3, RegistersApart
    <3>3. QED
      BY <3>1, <3>2 DEF newvalwrite
  <2>2. Held(a, v) \in Words /\ SpoiltBy(a) = {}
    BY <1>3, HeldIs, SpoiltByTimers
  <2> HIDE DEF n
  <2>3. Wrote(s, n, a) /\ n.reg = [s.reg EXCEPT ![a] = Held(a, v)]
    BY <1>3, <2>1, <2>2, DmaWritten
  <2>4. QED
    BY <1>2, <2>2, <2>3 DEF n
<1>4. CASE a \notin DmaRegisters
  <2>1. Held(a, v) = v
    BY <1>4, HeldIs
  <2>2. ~\E d \in Dmas : a \in {d[1], d[2], d[3]}
    BY <1>4, DmaCase
  <2>3. CASE a = VolumeOf
    <3>1. n = SoundCntL(s, v) /\ SpoiltBy(a) = {}
      BY <2>2, <2>3, RegistersApart, SpoiltByTimers DEF newvalwrite
    <3> HIDE DEF n
    <3>2. Wrote(s, n, a) /\ n.reg = [s.reg EXCEPT ![a] = v]
      BY <2>3, <3>1, VolumeWritten
    <3>3. QED
      BY <1>2, <2>1, <3>1, <3>2 DEF n
  <2>4. CASE a = ControlOf
    <3>1. n = SoundCntH(s, v) /\ SpoiltBy(a) = {}
      BY <2>2, <2>4, RegistersApart, SpoiltByTimers DEF newvalwrite
    <3> HIDE DEF n
    <3>2. Wrote(s, n, a) /\ n.reg = [s.reg EXCEPT ![a] = v]
      BY <2>4, <3>1, ControlWritten
    <3>3. QED
      BY <1>2, <2>1, <3>1, <3>2 DEF n
  <2>5. CASE a = \h100
    <3>1. n = Timer0Reload(s, v) /\ SpoiltBy(a) = {\h102, \h104, \h106, VolumeOf}
      BY <2>2, <2>5, SpoiltByTimers DEF newvalwrite
    <3> HIDE DEF n
    <3>2. RanOn(s, n) /\ Overwrites(s, n, {\h100, \h102, \h104, \h106, VolumeOf}, v)
      BY <1>1, <3>1, Timer0ReloadRuns
    <3>3. Wrote(s, n, a)
      BY <3>1, <3>2, RanOnIsWrote
    <3>4. QED
      BY <2>1, <2>5, <3>1, <3>2, <3>3 DEF Overwrites, n
  <2>6. CASE a = \h102
    <3>1. n = Timer0Control(s, v) /\ SpoiltBy(a) = {\h104, \h106, VolumeOf}
      BY <2>2, <2>6, SpoiltByTimers DEF newvalwrite
    <3> HIDE DEF n
    <3>2. RanOn(s, n) /\ Overwrites(s, n, {\h102, \h104, \h106, VolumeOf}, v)
      BY <1>1, <3>1, Timer0ControlRuns
    <3>3. Wrote(s, n, a)
      BY <3>1, <3>2, RanOnIsWrote
    <3>4. QED
      BY <2>1, <2>6, <3>1, <3>2, <3>3 DEF Overwrites, n
  <2>7. CASE a = \h104
    <3>1. n = Timer1Reload(s, v) /\ SpoiltBy(a) = {\h106, VolumeOf}
      BY <2>2, <2>7, SpoiltByTimers DEF newvalwrite
    <3> HIDE DEF n
    <3>2. Ran(s, n) /\ Overwrites(s, n, {\h104, \h106, VolumeOf}, v)
      BY <1>1, <3>1, Timer1ReloadRuns
    <3>3. Wrote(s, n, a)
      BY <3>2, RanIsWrote
    <3>4. QED
      BY <2>1, <2>7, <3>1, <3>2, <3>3 DEF Overwrites, n
  <2>8. CASE a = \h106
    <3>1. n = Timer1Control(s, v) /\ SpoiltBy(a) = {VolumeOf}
      BY <2>2, <2>8, SpoiltByTimers DEF newvalwrite
    <3> HIDE DEF n
    <3>2. Ran(s, n) /\ Overwrites(s, n, {\h106, VolumeOf}, v)
      BY <1>1, <3>1, Timer1ControlRuns
    <3>3. Wrote(s, n, a)
      BY <3>2, RanIsWrote
    <3>4. QED
      BY <2>1, <2>8, <3>1, <3>2, <3>3 DEF Overwrites, n
  <2>9. QED
    BY <1>4, <2>3, <2>4, <2>5, <2>6, <2>7, <2>8, KeptRegisters
<1>5. QED
  BY <1>3, <1>4
-----------------------------------------------------------------------------
(* The registers that say whether a FIFO sounds, as the game wrote them    *)
(* and as the ARM7 has them.                                               *)
LEMMA AskedIsSounded ==
  ASSUME SoundTypeOK, CopiesKept, Tuned(arm7), NEW f \in Fifos
  PROVE  /\ TaktAsked(asked, f) = arm7.takt[f] /\ TaktAsked(asked, f) \in {0, 1}
         /\ Fed(asked, f) <=> Fed(arm7.reg, f)
         /\ Intact(f) => (Asked(asked, f) <=> Sounds(arm7, f))
<1>1. arm7.reg[ControlOf] = asked[ControlOf]
  BY RegistersApart DEF CopiesKept
<1>2. TaktAsked(asked, f) = arm7.takt[f]
  BY <1>1 DEF TaktAsked, Tuned
<1>3. arm7.takt[f] \in {0, 1}
  BY DEF SoundTypeOK, Arm7
<1>4. Fed(asked, f) <=> Fed(arm7.reg, f)
  <2>1. \A r \in DmaRegisters : asked[r] = arm7.reg[r]
    BY RegistersApart DEF CopiesKept
  <2>2. QED
    BY <2>1, FedKept
<1>5. ASSUME Intact(f)
      PROVE  Asked(asked, f) <=> Sounds(arm7, f)
  <2>1. ControlOfTimer[arm7.takt[f] + 1] \in Kept \ spoilt
    BY <1>2, <1>3, <1>5, TimersKept DEF Intact, TimerOf
  <2>2. arm7.reg[ControlOfTimer[arm7.takt[f] + 1]] = asked[ControlOfTimer[arm7.takt[f] + 1]]
    BY <2>1 DEF CopiesKept
  <2>3. QED
    BY <1>2, <1>4, <2>2 DEF Asked, Sounds, Plays
<1>6. QED
  BY <1>2, <1>3, <1>4, <1>5

LEMMA LoudIsAsLoud ==
  ASSUME CopiesKept
  PROVE  Loud(arm7) <=> \A f \in Fifos : AsLoud(f)
<1>1. arm7.reg[ControlOf] = asked[ControlOf]
  BY RegistersApart DEF CopiesKept
<1>2. QED
  BY <1>1 DEF Loud, AsLoud

(* The invariant says what was asked.                                      *)
LEMMA SoundInvSays ==
  ASSUME SoundInv
  PROVE  SoundsAsAsked
<1>1. SoundTypeOK /\ CopiesKept /\ Tuned(arm7) /\ Refilled(arm7)
  BY DEF SoundInv
<1>2. SUFFICES ASSUME NEW f \in Fifos
               PROVE  /\ StartsWhenAsked(f) /\ AtItsRate(f) /\ KeepsPace(f)
                      /\ RefillsThePlayedHalf(f) /\ FromItsSource(f) /\ AsLoud(f)
  BY DEF SoundsAsAsked
<1>3. Played(f) /\ Paced(f) /\ Fetched(f) /\ AsLoud(f)
  BY DEF SoundInv
<1>4. /\ TaktAsked(asked, f) = arm7.takt[f] /\ TaktAsked(asked, f) \in {0, 1}
      /\ Intact(f) => (Asked(asked, f) <=> Sounds(arm7, f))
  BY <1>1, AskedIsSounded
<1>5. StartsWhenAsked(f)
  BY <1>3, <1>4 DEF StartsWhenAsked, Played
<1>6. AtItsRate(f)
  <2>1. ASSUME ReloadOfTimer[TimerOf(f)] \notin spoilt
        PROVE  arm7.rate[f] = asked[ReloadOfTimer[TimerOf(f)]]
    <3>1. ReloadOfTimer[TimerOf(f)] \in Kept
      BY <1>4, TimersKept DEF TimerOf
    <3>2. arm7.reg[ReloadOfTimer[TimerOf(f)]] = asked[ReloadOfTimer[TimerOf(f)]]
      BY <1>1, <2>1, <3>1 DEF CopiesKept
    <3>3. QED
      BY <1>1, <1>4, <3>2 DEF Tuned, TimerOf
  <2>2. QED
    BY <2>1 DEF AtItsRate
<1>7. KeepsPace(f)
  <2>1. arm7.rate[f] \in Words
    BY <1>1 DEF SoundTypeOK, Arm7
  <2>2. Halfword - arm7.rate[f] <= 2048 =>
          Period(arm7.rate[f]) = SamplesOfHalf * 2 * (Halfword - arm7.rate[f])
    BY <2>1, PeriodExact
  <2>3. QED
    BY <1>3, <2>2 DEF KeepsPace, Paced, InPace
<1>8. RefillsThePlayedHalf(f)
  <2>1. HalvesOfA /\ HalvesOfB
    BY DEF SoundInv
  <2>2. CASE f = "A"
    BY <2>1, <2>2 DEF HalvesOfA, RefillsThePlayedHalf
  <2>3. CASE f = "B"
    BY <2>1, <2>3 DEF HalvesOfB, RefillsThePlayedHalf
  <2>4. QED
    BY <2>2, <2>3 DEF Fifos
<1>9. FromItsSource(f)
  <2>1. Supplied(f)
    BY DEF SoundInv
  <2>2. QED
    BY <1>3, <1>4, <2>1 DEF FromItsSource, OnTrack, Fetched, Supplied
<1>10. QED
  BY <1>3, <1>5, <1>6, <1>7, <1>8, <1>9

(* One write, with its history.                                            *)
HistoryOf(a, v) ==
  /\ arm7' = newvalwrite(arm7, a, v)
  /\ asked' = [asked EXCEPT ![a] = Held(a, v)]
  /\ spoilt' = (spoilt \ {a}) \cup SpoiltBy(a)
  /\ heard' = [f \in Fifos |-> IF Begins(asked, a, v, f) THEN 0 ELSE heard[f]]
  /\ once' = once \cup {f \in Fifos : Asked(asked', f)
                \/ (ControlOfTimer[TaktAsked(asked', f) + 1] \in spoilt' /\ Fed(asked', f))}
  /\ odd' = {o \in odd : o[2] # "tone" \/ ~arm7'.cr["A"].on}
        \cup ({f \in {"A"} : TonesOn(arm7'.reg[VolumeOf]) /\ ~arm7'.cr[f].on} \X {"tone"})
        \cup ({f \in Fifos : arm7.refill[f] # 0 /\ arm7'.rate[f] # arm7.rate[f]} \X {"rate"})
        \cup ({f \in Fifos : arm7.src[f] # 0 /\ arm7'.src[f] = 0
                              /\ ~Begins(asked, a, v, f)} \X {"source"})

LEMMA FollowIsHistory ==
  ASSUME NEW a, NEW v, Follow(SoundStep(SoundHistory, a, v))
  PROVE  HistoryOf(a, v)
BY DEF Follow, SoundStep, SoundHistory, HistoryOf

LEMMA OddByWriting ==
  ASSUME SoundTypeOK, NEW a, NEW v, HistoryOf(a, v)
  PROVE  /\ odd' \subseteq Mishaps
         /\ \A f \in Fifos :
              /\ <<f, "rate">> \in odd' <=>
                   <<f, "rate">> \in odd \/ (arm7.refill[f] # 0 /\ arm7'.rate[f] # arm7.rate[f])
              /\ <<f, "source">> \in odd' <=>
                   \/ <<f, "source">> \in odd
                   \/ arm7.src[f] # 0 /\ arm7'.src[f] = 0 /\ ~Begins(asked, a, v, f)
              /\ <<f, "turn">> \in odd' <=> <<f, "turn">> \in odd
         /\ ~arm7'.cr["A"].on /\ (<<"A", "tone">> \in odd \/ TonesOn(arm7'.reg[VolumeOf])) =>
              <<"A", "tone">> \in odd'
<1> DEFINE kept == {o \in odd : o[2] # "tone" \/ ~arm7'.cr["A"].on}
           cut == {f \in {"A"} : TonesOn(arm7'.reg[VolumeOf]) /\ ~arm7'.cr[f].on}
           late == {f \in Fifos : arm7.refill[f] # 0 /\ arm7'.rate[f] # arm7.rate[f]}
           again == {f \in Fifos : arm7.src[f] # 0 /\ arm7'.src[f] = 0
                                    /\ ~Begins(asked, a, v, f)}
<1>1. odd' = kept \cup (cut \X {"tone"}) \cup (late \X {"rate"}) \cup (again \X {"source"})
  BY DEF HistoryOf
<1>2. kept \subseteq odd /\ odd \subseteq Mishaps
  BY DEF SoundTypeOK
<1>3. cut \subseteq Fifos /\ late \subseteq Fifos /\ again \subseteq Fifos
  BY DEF Fifos
<1>4. \A f : /\ f \in cut <=> f = "A" /\ TonesOn(arm7'.reg[VolumeOf]) /\ ~arm7'.cr["A"].on
             /\ <<f, "rate">> \in kept <=> <<f, "rate">> \in odd
             /\ <<f, "source">> \in kept <=> <<f, "source">> \in odd
             /\ <<f, "turn">> \in kept <=> <<f, "turn">> \in odd
             /\ <<f, "tone">> \in kept <=> <<f, "tone">> \in odd /\ ~arm7'.cr["A"].on
  OBVIOUS
<1>5. \A f \in Fifos :
        /\ f \in late <=> arm7.refill[f] # 0 /\ arm7'.rate[f] # arm7.rate[f]
        /\ f \in again <=> arm7.src[f] # 0 /\ arm7'.src[f] = 0 /\ ~Begins(asked, a, v, f)
  OBVIOUS
<1> HIDE DEF kept, cut, late, again
<1>6. odd' \subseteq Mishaps
  BY <1>1, <1>2, <1>3 DEF Mishaps
<1>7. \A f : /\ <<f, "rate">> \in odd' <=> <<f, "rate">> \in kept \/ f \in late
             /\ <<f, "source">> \in odd' <=> <<f, "source">> \in kept \/ f \in again
             /\ <<f, "turn">> \in odd' <=> <<f, "turn">> \in kept
             /\ <<f, "tone">> \in odd' <=> <<f, "tone">> \in kept \/ f \in cut
  BY <1>1
<1>8. QED
  BY <1>4, <1>5, <1>6, <1>7

(* The registers as the game wrote them, and as an ARM7 that follows them  *)
(* has them.                                                               *)
LEMMA HeardRegisters ==
  ASSUME NEW s \in Arm7, Tuned(s), NEW reg, NEW f \in Fifos,
         \A r \in DmaRegisters \cup {ControlOf} : s.reg[r] = reg[r]
  PROVE  /\ TaktAsked(reg, f) = s.takt[f] /\ s.takt[f] \in {0, 1}
         /\ Fed(reg, f) <=> Fed(s.reg, f)
         /\ s.reg[ControlOfTimer[s.takt[f] + 1]] = reg[ControlOfTimer[s.takt[f] + 1]] =>
              (Asked(reg, f) <=> Sounds(s, f))
<1>1. TaktAsked(reg, f) = s.takt[f] /\ s.takt[f] \in {0, 1}
  BY DEF TaktAsked, Tuned, Arm7
<1>2. Fed(reg, f) <=> Fed(s.reg, f)
  BY FedKept
<1>3. QED
  BY <1>1, <1>2 DEF Asked, Sounds, Plays

(* A write of a halfword keeps the invariant.                              *)
LEMMA WriteKeepsInv ==
  ASSUME SoundInv, NEW a \in Kept, NEW v \in Words, HistoryOf(a, v),
         UNCHANGED <<filled, sent, refills, sinceB>>,
         todo' \in Seq(Kept \X Words), done' \in Nat
  PROVE  SoundInv'
<1>1. /\ SoundTypeOK /\ CopiesKept /\ Tuned(arm7) /\ Refilled(arm7)
      /\ \A f \in Fifos : Played(f) /\ Paced(f) /\ Fetched(f) /\ AsLoud(f)
      /\ HalvesOfA /\ HalvesOfB /\ arm7 \in Arm7 /\ \A f \in Fifos : Supplied(f)
  BY DEF SoundInv, SoundTypeOK
<1>2. /\ Wrote(arm7, arm7', a)
      /\ \A r \in Kept \ SpoiltBy(a) :
           arm7'.reg[r] = IF r = a THEN Held(a, v) ELSE arm7.reg[r]
  <2>1. Loud(arm7)
    BY <1>1, LoudIsAsLoud
  <2>2. QED
    BY <1>1, <2>1, NewvalwriteWrites DEF HistoryOf
<1>3. /\ arm7' \in Arm7 /\ Tuned(arm7') /\ Refilled(arm7') /\ Loud(arm7')
      /\ Later(arm7, arm7')
      /\ \A f \in Fifos :
           /\ Sounds(arm7', f) => SoundsNow(arm7, arm7', f, a) /\ Took(arm7, arm7', f, a)
           /\ arm7'.cr[f].on => Begun(arm7, arm7', f, a)
           /\ arm7.refill[f] = 0 => arm7'.refill[f] \in {0, Period(arm7'.rate[f])}
  BY <1>2 DEF Wrote
<1>4. SpoiltBy(a) \subseteq Kept /\ SpoiltBy(a) \cap (DmaRegisters \cup {ControlOf}) = {}
  <2>1. SpoiltBy(a) \subseteq {\h100, \h102, \h104, \h106, VolumeOf}
    BY SpoiltByTimers, KeptRegisters
  <2>2. VolumeOf # ControlOf /\ ControlOf \notin {\h100, \h102, \h104, \h106}
    BY RegistersApart
  <2>3. QED
    BY <2>1, <2>2, RegistersApart
<1>5. asked' = [asked EXCEPT ![a] = Held(a, v)] /\ asked \in [Kept -> Words]
  BY <1>1 DEF HistoryOf, SoundTypeOK
<1>6. spoilt' = (spoilt \ {a}) \cup SpoiltBy(a)
  BY DEF HistoryOf
<1>7. /\ odd' \subseteq Mishaps
      /\ \A f \in Fifos :
           /\ <<f, "rate">> \in odd' <=>
                <<f, "rate">> \in odd \/ (arm7.refill[f] # 0 /\ arm7'.rate[f] # arm7.rate[f])
           /\ <<f, "source">> \in odd' <=>
                \/ <<f, "source">> \in odd
                \/ arm7.src[f] # 0 /\ arm7'.src[f] = 0 /\ ~Begins(asked, a, v, f)
           /\ <<f, "turn">> \in odd' <=> <<f, "turn">> \in odd
      /\ ~arm7'.cr["A"].on /\ (<<"A", "tone">> \in odd \/ TonesOn(arm7'.reg[VolumeOf])) =>
           <<"A", "tone">> \in odd'
  BY <1>1, OddByWriting
<1>8. CopiesKept'
  <2>1. ASSUME NEW r \in Kept \ spoilt'
        PROVE  arm7'.reg[r] = asked'[r]
    <3>1. r \notin SpoiltBy(a) /\ (r = a \/ r \notin spoilt)
      BY <1>6, <2>1
    <3>2. arm7'.reg[r] = IF r = a THEN Held(a, v) ELSE arm7.reg[r]
      BY <1>2, <3>1
    <3>3. r # a => arm7.reg[r] = asked[r]
      BY <1>1, <3>1 DEF CopiesKept
    <3>4. QED
      BY <1>5, <3>2, <3>3
  <2>2. \A r \in DmaRegisters \cup {ControlOf} : r \notin spoilt'
    BY <1>1, <1>4, <1>6 DEF CopiesKept
  <2>3. QED
    BY <2>1, <2>2 DEF CopiesKept
<1>9. \A f \in Fifos :
        /\ TaktAsked(asked', f) = arm7'.takt[f] /\ arm7'.takt[f] \in {0, 1}
        /\ Fed(asked', f) <=> Fed(arm7'.reg, f)
        /\ arm7'.reg[ControlOfTimer[arm7'.takt[f] + 1]]
             = asked'[ControlOfTimer[arm7'.takt[f] + 1]] =>
             (Asked(asked', f) <=> Sounds(arm7', f))
  <2>1. \A r \in DmaRegisters \cup {ControlOf} : arm7'.reg[r] = asked'[r]
    BY <1>8, RegistersApart DEF CopiesKept
  <2>2. QED
    BY <1>3, <2>1, HeardRegisters
<1>10. SoundTypeOK'
  <2>1. asked' \in [Kept -> Words]
    BY <1>5, HeldIs
  <2>2. spoilt' \subseteq Kept
    BY <1>1, <1>4, <1>6 DEF SoundTypeOK
  <2>3. once' \subseteq Fifos
    BY <1>1 DEF HistoryOf, SoundTypeOK
  <2>4. heard' \in [Fifos -> Nat]
    BY <1>1 DEF HistoryOf, SoundTypeOK
  <2>5. filled' = filled /\ sent' = sent /\ refills' = refills /\ sinceB' = sinceB
    OBVIOUS
  <2>6. /\ filled' \in [Fifos -> Halves \cup {2}] /\ refills' \in [Fifos -> Nat]
        /\ sinceB' \in {0, 1} /\ sent' \in [Fifos -> Sent]
    BY <1>1, <2>5 DEF SoundTypeOK
  <2>7. QED
    BY <1>3, <1>7, <2>1, <2>2, <2>3, <2>4, <2>6 DEF SoundTypeOK
<1>11. ASSUME NEW f \in Fifos
       PROVE  Played(f)'
  <2>1. ASSUME Sounds(arm7', f)
        PROVE  arm7'.cr[f].on \/ <<f, "tone">> \in odd'
    <3>1. CASE f = "B"
      BY <1>3, <2>1, <3>1 DEF Refilled
    <3>2. CASE f = "A"
      <4>1. SoundsNow(arm7, arm7', f, a)
        BY <1>3, <2>1
      <4>2. Sounds(arm7, f) => arm7.cr[f].on \/ <<f, "tone">> \in odd
        BY <1>1 DEF Played
      <4>3. QED
        BY <1>7, <3>2, <4>1, <4>2 DEF SoundsNow
    <3>3. QED
      BY <3>1, <3>2 DEF Fifos
  <2>2. ASSUME arm7'.cr[f].on
        PROVE  f \in once'
    <3>1. /\ once \subseteq once'
          /\ Asked(asked', f) => f \in once'
          /\ ControlOfTimer[TaktAsked(asked', f) + 1] \in spoilt' /\ Fed(asked', f) =>
               f \in once'
      BY DEF HistoryOf
    <3>2. CASE arm7.cr[f].on
      BY <1>1, <3>1, <3>2 DEF Played
    <3>3. CASE ControlOfTimer[arm7'.takt[f] + 1] \in spoilt' /\ Fed(arm7'.reg, f)
      BY <1>9, <3>1, <3>3
    <3>4. CASE Sounds(arm7', f) /\ ControlOfTimer[arm7'.takt[f] + 1] \notin spoilt'
      <4>1. ControlOfTimer[arm7'.takt[f] + 1] \in Kept
        BY <1>9, TimersKept
      <4>2. arm7'.reg[ControlOfTimer[arm7'.takt[f] + 1]]
              = asked'[ControlOfTimer[arm7'.takt[f] + 1]]
        BY <1>8, <3>4, <4>1 DEF CopiesKept
      <4>3. QED
        BY <1>9, <3>1, <3>4, <4>2
    <3>5. Begun(arm7, arm7', f, a)
      BY <1>3, <2>2
    <3>6. Sounds(arm7', f) => Fed(arm7'.reg, f)
      BY DEF Sounds, Plays
    <3>7. QED
      BY <1>6, <3>2, <3>3, <3>4, <3>5, <3>6 DEF Begun
  <2>3. QED
    BY <2>1, <2>2 DEF Played
<1>12. ASSUME NEW f \in Fifos
       PROVE  Paced(f)'
  <2>1. Goes(arm7, arm7', f)
    BY <1>3 DEF Later
  <2>2. CASE arm7.refill[f] # 0
    BY <1>1, <1>7, <2>1, <2>2 DEF Paced, Goes
  <2>3. CASE arm7.refill[f] = 0
    BY <1>3, <2>3 DEF Paced
  <2>4. QED
    BY <2>2, <2>3
<1>13. ASSUME NEW f \in Fifos
       PROVE  Fetched(f)'
  <2>1. Goes(arm7, arm7', f)
    BY <1>3 DEF Later
  <2>2. SUFFICES ASSUME <<f, "source">> \notin odd'
                 PROVE  /\ heard'[f] <= arm7'.src[f]
                        /\ Sounds(arm7', f) => arm7'.src[f] = heard'[f]
    BY DEF Fetched
  <2>3. /\ <<f, "source">> \notin odd
        /\ arm7.src[f] # 0 /\ arm7'.src[f] = 0 => Begins(asked, a, v, f)
    BY <1>7, <2>2
  <2>4. /\ heard[f] <= arm7.src[f] /\ (Sounds(arm7, f) => arm7.src[f] = heard[f])
        /\ heard[f] \in Nat /\ arm7.src[f] \in Nat /\ arm7'.src[f] \in Nat
    BY <1>1, <1>3, <2>3 DEF Fetched, SoundTypeOK, Arm7
  <2>5. heard'[f] = IF Begins(asked, a, v, f) THEN 0 ELSE heard[f]
    BY DEF HistoryOf
  <2>6. Begins(asked, a, v, f) => a # VolumeOf
    BY DEF Begins, Dmas, VolumeOf
  <2>7. Sounds(arm7', f) => Took(arm7, arm7', f, a)
    BY <1>3
  <2>8. arm7'.src[f] \in {arm7.src[f], 0}
    BY <2>1 DEF Goes
  <2>9. CASE arm7'.src[f] = 0
    <3>1. heard'[f] = 0
      BY <2>3, <2>4, <2>5, <2>9
    <3>2. QED
      BY <2>9, <3>1
  <2>10. CASE arm7'.src[f] # 0
    <3>1. arm7'.src[f] = arm7.src[f]
      BY <2>8, <2>10
    <3>2. heard'[f] <= arm7'.src[f]
      BY <2>4, <2>5, <3>1
    <3>3. Sounds(arm7', f) => a = VolumeOf /\ Sounds(arm7, f)
      BY <2>7, <2>10 DEF Took
    <3>4. QED
      BY <2>4, <2>5, <2>6, <3>1, <3>2, <3>3
  <2>11. QED
    BY <2>9, <2>10
<1>14. ASSUME NEW f \in Fifos
       PROVE  AsLoud(f)'
  <2>1. ControlOf \in Kept /\ ControlOf \notin spoilt'
    BY <1>8, RegistersApart DEF CopiesKept
  <2>2. arm7'.reg[ControlOf] = asked'[ControlOf]
    BY <1>8, <2>1 DEF CopiesKept
  <2>3. QED
    BY <1>3, <2>2 DEF Loud, AsLoud
<1>15. HalvesOfA'
  <2>1. Goes(arm7, arm7', "A") /\ arm7'.apart = arm7.apart /\ filled' = filled
        /\ arm7.anew \subseteq arm7'.anew
    BY <1>3 DEF Later, Fifos
  <2>2. QED
    BY <1>1, <2>1 DEF HalvesOfA, Goes
<1>16. HalvesOfB'
  <2>1. /\ Goes(arm7, arm7', "B") /\ arm7'.apart = arm7.apart
        /\ filled' = filled /\ sinceB' = sinceB
    BY <1>3 DEF Later, Fifos
  <2>2. "B" \notin arm7'.anew
    BY <1>3 DEF Refilled
  <2>3. (arm7'.refill["B"] # 0 => arm7'.cr["B"].on)
    BY <1>3 DEF Refilled
  <2>4. (<<"B", "turn">> \in odd' <=> <<"B", "turn">> \in odd)
    BY <1>7 DEF Fifos
  <2>5. CASE arm7.refill["B"] # 0
    BY <1>1, <2>1, <2>2, <2>3, <2>4, <2>5 DEF HalvesOfB, Goes
  <2>6. CASE arm7.refill["B"] = 0
    BY <1>1, <2>1, <2>2, <2>3, <2>4, <2>6 DEF HalvesOfB, Goes
  <2>7. QED
    BY <2>5, <2>6
<1>17. \A f \in Fifos : Supplied(f)'
  BY <1>1 DEF Supplied
<1>18. QED
  BY <1>3, <1>8, <1>10, <1>11, <1>12, <1>13, <1>14, <1>15, <1>16, <1>17 DEF SoundInv

(* A byte goes only into SOUNDCNT_L, and only the lower one is taken: no   *)
(* tone is on then.                                                        *)
LEMMA NoTones ==
  ASSUME NEW b \in 0 .. 255
  PROVE  ~TonesOn(b)
<1>1. ASSUME NEW m \in {\h200, \h400, \h800, \h2000, \h4000, \h8000}
      PROVE  Bit(b, m) = 0
  <2>1. b \div m = 0
    BY <1>1, SMT
  <2>2. QED
    BY <2>1, SMT DEF Bit
<1>2. \A i \in 1 .. 3 : /\ ToneRight[i] \in {\h200, \h400, \h800}
                        /\ 16 * ToneRight[i] \in {\h2000, \h4000, \h8000}
  <2>1. ToneRight[1] = \h200 /\ ToneRight[2] = \h400 /\ ToneRight[3] = \h800
    BY DEF ToneRight
  <2>2. \A i \in 1 .. 3 : i = 1 \/ i = 2 \/ i = 3
    OBVIOUS
  <2>3. QED
    BY <2>1, <2>2, SMT
<1>3. \A i \in 1 .. 3 : Bit(b, ToneRight[i]) = 0 /\ Bit(b, 16 * ToneRight[i]) = 0
  BY <1>1, <1>2
<1>4. QED
  BY <1>3 DEF TonesOn, Tone

LEMMA ByteWritten ==
  ASSUME NEW s \in Arm7, Tuned(s), Refilled(s), Loud(s),
         NEW at \in {VolumeOf, VolumeOf + 1}, NEW b \in 0 .. 255
  PROVE  LET n == newvalwrite(s, at, b)
         IN  /\ n \in Arm7 /\ Tuned(n) /\ Refilled(n) /\ Loud(n) /\ Later(s, n)
             /\ n.rate = s.rate /\ n.refill = s.refill /\ n.src = s.src
             /\ \A r \in Kept \ {VolumeOf} : n.reg[r] = s.reg[r]
             /\ \A f \in Fifos : /\ Sounds(n, f) <=> Sounds(s, f)
                                 /\ n.cr[f].on <=> s.cr[f].on
<1> DEFINE n == newvalwrite(s, at, b)
<1>1. CASE at = VolumeOf
  <2>1. n = SoundCntL(s, b)
    <3>1. ~\E d \in Dmas : at \in {d[1], d[2], d[3]}
      BY <1>1, DmaCase, RegistersApart
    <3>2. QED
      BY <1>1, <3>1, RegistersApart DEF newvalwrite
  <2>2. b \in Words
    BY WordsAre
  <2> HIDE DEF n
  <2>3. /\ Wrote(s, n, VolumeOf) /\ n.reg = [s.reg EXCEPT ![VolumeOf] = b]
        /\ n.rate = s.rate /\ n.refill = s.refill /\ n.src = s.src
        /\ n.cr["B"].on = s.cr["B"].on
        /\ n.cr["A"].on <=> s.cr["A"].on /\ ~TonesOn(n.reg[VolumeOf])
        /\ \A f \in Fifos : Sounds(n, f) <=> Sounds(s, f)
    BY <2>1, <2>2, VolumeWritten
  <2>4. n.reg[VolumeOf] = b /\ \A r \in Kept \ {VolumeOf} : n.reg[r] = s.reg[r]
    BY <2>3, RegistersApart DEF Arm7
  <2>5. \A f \in Fifos : n.cr[f].on <=> s.cr[f].on
    BY <2>3, <2>4, NoTones DEF Fifos
  <2>6. QED
    BY <2>3, <2>4, <2>5 DEF Wrote, n
<1>2. CASE at # VolumeOf
  <2>1. n = s
    <3>1. at = 129 /\ at \notin Kept
      BY <1>2, RegistersApart DEF Kept, Dmas
    <3>2. ~\E d \in Dmas : at \in {d[1], d[2], d[3]}
      BY <3>1, DmaCase, RegistersApart
    <3>3. at # ControlOf /\ at \notin {\h100, \h102, \h104, \h106}
      BY <3>1, RegistersApart
    <3>4. QED
      BY <1>2, <3>2, <3>3 DEF newvalwrite
  <2>2. SamePlaying(s, s) /\ RunsOn(s)
    BY RefilledRunsOn DEF SamePlaying
  <2>3. Later(s, s)
    BY <2>2, SamePlayingIsLater
  <2>4. QED
    BY <2>1, <2>3
<1>3. QED
  BY <1>1, <1>2

LEMMA ByteKeepsInv ==
  ASSUME SoundInv, NEW at \in {VolumeOf, VolumeOf + 1}, NEW b \in 0 .. 255,
         GameWritesByte(at, b)
  PROVE  SoundInv'
<1>1. /\ SoundTypeOK /\ CopiesKept /\ Tuned(arm7) /\ Refilled(arm7)
      /\ \A f \in Fifos : Played(f) /\ Paced(f) /\ Fetched(f) /\ AsLoud(f)
      /\ HalvesOfA /\ HalvesOfB /\ arm7 \in Arm7 /\ \A f \in Fifos : Supplied(f)
  BY DEF SoundInv, SoundTypeOK
<1>2. /\ arm7' \in Arm7 /\ Tuned(arm7') /\ Refilled(arm7') /\ Loud(arm7')
      /\ Later(arm7, arm7')
      /\ arm7'.rate = arm7.rate /\ arm7'.refill = arm7.refill /\ arm7'.src = arm7.src
      /\ \A r \in Kept \ {VolumeOf} : arm7'.reg[r] = arm7.reg[r]
      /\ \A f \in Fifos : /\ Sounds(arm7', f) <=> Sounds(arm7, f)
                          /\ arm7'.cr[f].on <=> arm7.cr[f].on
  <2>1. Loud(arm7)
    BY <1>1, LoudIsAsLoud
  <2>2. arm7' = newvalwrite(arm7, at, b)
    BY Zenon DEF GameWritesByte
  <2>3. LET n == newvalwrite(arm7, at, b)
        IN  /\ n \in Arm7 /\ Tuned(n) /\ Refilled(n) /\ Loud(n) /\ Later(arm7, n)
            /\ n.rate = arm7.rate /\ n.refill = arm7.refill /\ n.src = arm7.src
            /\ \A r \in Kept \ {VolumeOf} : n.reg[r] = arm7.reg[r]
            /\ \A f \in Fifos :
                 /\ Sounds(n, f) <=> Sounds(arm7, f)
                 /\ n.cr[f].on <=> arm7.cr[f].on
    BY <1>1, <2>1, ByteWritten
  <2>4. QED
    BY Zenon, <2>2, <2>3
<1>3. /\ heard' = heard /\ once' = once /\ odd' = odd /\ filled' = filled
      /\ sent' = sent /\ refills' = refills /\ sinceB' = sinceB /\ todo' = todo
      /\ spoilt' = spoilt \cup {VolumeOf} /\ done' \in Nat
  <2>1. done \in Nat
    BY <1>1 DEF SoundTypeOK
  <2>2. done' = done + 1 /\ spoilt' = spoilt \cup {VolumeOf}
        /\ UNCHANGED <<heard, once, odd, filled, sent, refills, sinceB, todo>>
    BY Zenon DEF GameWritesByte
  <2>3. QED
    BY <2>1, <2>2
<1>4. asked' \in [Kept -> Words] /\ \A r \in Kept \ {VolumeOf} : asked'[r] = asked[r]
  <2> DEFINE old == asked[VolumeOf]
             whole == IF at = VolumeOf THEN 256 * (old \div 256) + b
                                       ELSE (old % 256) + 256 * b
  <2>1. asked' = [asked EXCEPT ![VolumeOf] = whole] /\ asked \in [Kept -> Words]
    BY <1>1 DEF GameWritesByte, SoundTypeOK
  <2>2. old \in Int /\ 0 <= old /\ old < 65536
    BY <2>1, RegistersApart, WordsAre
  <2>3. whole \in Words
    <3> HIDE DEF old
    <3>1. 256 * (old \div 256) + b \in Int
          /\ 0 <= 256 * (old \div 256) + b /\ 256 * (old \div 256) + b < 65536
      BY <2>2, SMT
    <3>2. (old % 256) + 256 * b \in Int
          /\ 0 <= (old % 256) + 256 * b /\ (old % 256) + 256 * b < 65536
      BY <2>2, SMT
    <3>3. QED
      BY <3>1, <3>2, WordsAre
  <2> HIDE DEF whole
  <2>4. QED
    BY <2>1, <2>3
<1>5. CopiesKept'
  <2>1. \A r \in Kept \ spoilt' : arm7'.reg[r] = asked'[r]
    BY <1>1, <1>2, <1>3, <1>4 DEF CopiesKept
  <2>2. \A r \in DmaRegisters \cup {ControlOf} : r \notin spoilt'
    BY <1>1, <1>3, RegistersApart DEF CopiesKept
  <2>3. QED
    BY <2>1, <2>2 DEF CopiesKept
<1>6. SoundTypeOK'
  <2>1. spoilt' \subseteq Kept
    BY <1>1, <1>3, RegistersApart DEF SoundTypeOK
  <2>2. QED
    BY <1>1, <1>2, <1>3, <1>4, <2>1 DEF SoundTypeOK
<1>7. ASSUME NEW f \in Fifos
      PROVE  Played(f)' /\ Paced(f)' /\ Fetched(f)'
  <2>1. Played(f)'
    <3>1. Played(f) /\ once' = once /\ odd' = odd
      BY <1>1, <1>3
    <3>2. /\ Sounds(arm7', f) <=> Sounds(arm7, f)
          /\ arm7'.cr[f].on <=> arm7.cr[f].on
      BY <1>2
    <3>3. QED
      BY <3>1, <3>2 DEF Played
  <2>2. Paced(f)'
    BY <1>1, <1>2, <1>3 DEF Paced
  <2>3. Fetched(f)'
    <3>1. Fetched(f) /\ heard' = heard /\ odd' = odd /\ arm7'.src = arm7.src
      BY <1>1, <1>2, <1>3
    <3>2. Sounds(arm7', f) <=> Sounds(arm7, f)
      BY <1>2
    <3>3. QED
      BY <3>1, <3>2 DEF Fetched
  <2>4. QED
    BY <2>1, <2>2, <2>3
<1>8. ASSUME NEW f \in Fifos
      PROVE  AsLoud(f)'
  <2>1. arm7'.reg[ControlOf] = asked'[ControlOf]
    BY <1>5, RegistersApart DEF CopiesKept
  <2>2. QED
    BY <1>2, <2>1 DEF Loud, AsLoud
<1>9. HalvesOfA'
  <2>1. Goes(arm7, arm7', "A") /\ arm7'.apart = arm7.apart /\ filled' = filled
        /\ arm7.anew \subseteq arm7'.anew
    BY <1>2, <1>3 DEF Later, Fifos
  <2>2. QED
    BY <1>1, <2>1 DEF HalvesOfA, Goes
<1>10. HalvesOfB'
  <2>1. /\ Goes(arm7, arm7', "B") /\ arm7'.apart = arm7.apart
        /\ filled' = filled /\ sinceB' = sinceB /\ odd' = odd
    BY <1>2, <1>3 DEF Later, Fifos
  <2>2. "B" \notin arm7'.anew /\ (arm7'.refill["B"] # 0 => arm7'.cr["B"].on)
    BY <1>2 DEF Refilled
  <2>3. CASE arm7.refill["B"] # 0
    BY <1>1, <2>1, <2>2, <2>3 DEF HalvesOfB, Goes
  <2>4. CASE arm7.refill["B"] = 0
    BY <1>1, <2>1, <2>2, <2>4 DEF HalvesOfB, Goes
  <2>5. QED
    BY <2>3, <2>4
<1>11. \A f \in Fifos : Supplied(f)'
  BY <1>1, <1>3 DEF Supplied
<1>12. QED
  BY <1>2, <1>5, <1>6, <1>7, <1>8, <1>9, <1>10, <1>11 DEF SoundInv

(* A refill turns the halves, and no register.                             *)
LEMMA RefillFields ==
  ASSUME arm7 \in Arm7, NEW f \in Fifos, Refill(f)
  PROVE  /\ arm7' \in Arm7
         /\ arm7'.reg = arm7.reg /\ arm7'.takt = arm7.takt /\ arm7'.rate = arm7.rate
         /\ arm7'.cr = arm7.cr /\ arm7'.refill = arm7.refill /\ arm7'.anew = arm7.anew
         /\ arm7'.src = [arm7.src EXCEPT ![f] = @ + 1]
         /\ arm7'.apart = (IF f = "A" THEN 1 - arm7.apart ELSE arm7.apart)
         /\ arm7'.half =
              [arm7.half EXCEPT ![f] = IF arm7.cr[f].on THEN 1 - @ ELSE @]
<1> DEFINE src == [arm7.src EXCEPT ![f] = @ + 1]
           apart == IF f = "A" THEN 1 - arm7.apart ELSE arm7.apart
           half == [arm7.half EXCEPT ![f] = IF arm7.cr[f].on THEN 1 - @ ELSE @]
<1>1. arm7' = [arm7 EXCEPT !.src = src, !.apart = apart, !.half = half]
  BY DEF Refill, Arm7
<1>2. src \in [Fifos -> Nat]
  BY DEF Arm7
<1>3. apart \in Halves
  BY DEF Arm7, Halves
<1>4. half \in [Fifos -> Halves]
  <2>1. arm7.half \in [Fifos -> Halves]
    BY DEF Arm7
  <2>2. \A h \in Halves : 1 - h \in Halves
    BY DEF Halves
  <2>3. QED
    BY <2>1, <2>2
<1> HIDE DEF src, apart, half
<1>5. /\ arm7' \in Arm7
      /\ arm7'.reg = arm7.reg /\ arm7'.takt = arm7.takt /\ arm7'.rate = arm7.rate
      /\ arm7'.cr = arm7.cr /\ arm7'.refill = arm7.refill /\ arm7'.anew = arm7.anew
      /\ arm7'.src = src /\ arm7'.apart = apart /\ arm7'.half = half
  BY <1>1, <1>2, <1>3, <1>4 DEF Arm7
<1>6. QED
  BY <1>5 DEF src, apart, half

LEMMA RefillKeepsInv ==
  ASSUME SoundInv, NEW f \in Fifos, Refill(f)
  PROVE  SoundInv'
<1>1. /\ SoundTypeOK /\ CopiesKept /\ Tuned(arm7) /\ Refilled(arm7)
      /\ \A g \in Fifos : Played(g) /\ Paced(g) /\ Fetched(g) /\ AsLoud(g)
      /\ HalvesOfA /\ HalvesOfB /\ arm7 \in Arm7 /\ \A g \in Fifos : Supplied(g)
  BY DEF SoundInv, SoundTypeOK
<1>2. /\ arm7' \in Arm7
      /\ arm7'.reg = arm7.reg /\ arm7'.takt = arm7.takt /\ arm7'.rate = arm7.rate
      /\ arm7'.cr = arm7.cr /\ arm7'.refill = arm7.refill /\ arm7'.anew = arm7.anew
      /\ arm7'.src = [arm7.src EXCEPT ![f] = @ + 1]
      /\ arm7'.apart = (IF f = "A" THEN 1 - arm7.apart ELSE arm7.apart)
      /\ arm7'.half = [arm7.half EXCEPT ![f] = IF arm7.cr[f].on THEN 1 - @ ELSE @]
  BY <1>1, RefillFields
<1>3. /\ UNCHANGED <<asked, spoilt, once, todo, done>>
      /\ arm7.refill[f] # 0
      /\ filled' = [filled EXCEPT ![f] = HalfAsked(f)]
      /\ sent' = [sent EXCEPT ![f] = [of |-> SourceSent, piece |-> arm7.src["A"],
                                      due |-> heard["A"], track |-> OnTrack("A")]]
      /\ heard' = [heard EXCEPT ![f] = @ + 1]
      /\ refills' = [refills EXCEPT ![f] = @ + 1]
      /\ sinceB' = IF f = "A" THEN 1 - sinceB ELSE 0
      /\ odd' = IF f = "B" /\ sinceB = 0 THEN odd \cup {<<"B", "turn">>} ELSE odd
  BY DEF Refill
<1>4. /\ odd \subseteq odd' /\ odd' \subseteq Mishaps
      /\ \A g \in Fifos : /\ <<g, "rate">> \in odd' <=> <<g, "rate">> \in odd
                          /\ <<g, "source">> \in odd' <=> <<g, "source">> \in odd
      /\ f = "A" => odd' = odd
      /\ f = "B" => (<<"B", "turn">> \in odd' <=> <<"B", "turn">> \in odd \/ sinceB = 0)
  <2>1. odd \subseteq Mishaps /\ <<"B", "turn">> \in Mishaps
    BY <1>1 DEF SoundTypeOK, Mishaps, Fifos
  <2>2. QED
    BY <1>3, <2>1
<1>5. /\ arm7.apart \in {0, 1} /\ sinceB \in {0, 1} /\ HalfAsked(f) \in {0, 1}
      /\ \A g \in Fifos : arm7.half[g] \in {0, 1} /\ filled[g] \in {0, 1, 2}
  BY <1>1 DEF SoundTypeOK, Arm7, Halves, HalfAsked
<1>6. SoundTypeOK'
  <2>1. filled' \in [Fifos -> Halves \cup {2}]
    BY <1>1, <1>3, <1>5 DEF SoundTypeOK, Halves
  <2>2. heard' \in [Fifos -> Nat] /\ refills' \in [Fifos -> Nat] /\ sinceB' \in {0, 1}
    BY <1>1, <1>3, <1>5 DEF SoundTypeOK
  <2>3. asked' \in [Kept -> Words] /\ spoilt' \subseteq Kept /\ once' \subseteq Fifos
        /\ todo' \in Seq(Kept \X Words) /\ done' \in Nat
    BY <1>1, <1>3 DEF SoundTypeOK
  <2>4. sent' \in [Fifos -> Sent]
    <3>1. arm7.src["A"] \in Nat /\ heard["A"] \in Nat
      BY <1>1 DEF SoundTypeOK, Arm7, Fifos
    <3>2. OnTrack("A") \in BOOLEAN /\ SourceSent \in {"A", "none"}
      BY DEF OnTrack, SourceSent
    <3>3. QED
      BY <1>1, <1>3, <3>1, <3>2 DEF SoundTypeOK, Sent
  <2>5. QED
    BY <1>2, <1>4, <2>1, <2>2, <2>3, <2>4 DEF SoundTypeOK
<1>7. CopiesKept'
  BY <1>1, <1>2, <1>3 DEF CopiesKept
<1>8. \A g \in Fifos : Sounds(arm7', g) <=> Sounds(arm7, g)
  BY <1>2 DEF Sounds
<1>9. Tuned(arm7') /\ Refilled(arm7')
  BY <1>1, <1>2, <1>8 DEF Tuned, Refilled
<1>10. ASSUME NEW g \in Fifos
       PROVE  Played(g)' /\ Paced(g)' /\ Fetched(g)' /\ AsLoud(g)'
  <2>1. Played(g) /\ Paced(g) /\ Fetched(g) /\ AsLoud(g)
    BY <1>1
  <2>2. Played(g)'
    BY <1>2, <1>3, <1>4, <1>8, <2>1 DEF Played
  <2>3. Paced(g)'
    BY <1>2, <1>4, <2>1 DEF Paced
  <2>4. Fetched(g)'
    <3>1. arm7.src \in [Fifos -> Nat] /\ heard \in [Fifos -> Nat]
      BY <1>1 DEF SoundTypeOK, Arm7
    <3>2. /\ arm7'.src[g] = IF g = f THEN arm7.src[g] + 1 ELSE arm7.src[g]
          /\ heard'[g] = IF g = f THEN heard[g] + 1 ELSE heard[g]
          /\ arm7.src[g] \in Nat /\ heard[g] \in Nat
      BY <1>2, <1>3, <3>1
    <3>3. <<g, "source">> \in odd' <=> <<g, "source">> \in odd
      BY <1>4
    <3>4. QED
      BY <1>8, <2>1, <3>2, <3>3 DEF Fetched
  <2>5. AsLoud(g)'
    BY <1>2, <1>3, <2>1 DEF AsLoud
  <2>6. QED
    BY <2>2, <2>3, <2>4, <2>5
<1>10a. \A g \in Fifos : Supplied(g)'
  <2>1. ASSUME OnTrack("A")
        PROVE  SourceSent = "A" /\ arm7.src["A"] = heard["A"]
    <3>1. "A" \in Fifos /\ Fetched("A")
      BY <1>1 DEF Fifos
    <3>2. Sounds(arm7, "A")
      BY <1>1, <2>1, <3>1, AskedIsSounded DEF OnTrack
    <3>3. QED
      BY <1>1, <2>1, <3>1, <3>2 DEF OnTrack, Fetched, Refilled, SourceSent
  <2>2. SUFFICES ASSUME NEW g \in Fifos, sent'[g].track
                 PROVE  sent'[g].of = "A" /\ sent'[g].piece = sent'[g].due
    BY DEF Supplied
  <2>3. CASE g = f
    <3>1. sent'[g] = [of |-> SourceSent, piece |-> arm7.src["A"],
                      due |-> heard["A"], track |-> OnTrack("A")]
      BY <1>1, <1>3, <2>3 DEF SoundTypeOK
    <3>2. QED
      BY <2>1, <2>2, <3>1
  <2>4. CASE g # f
    BY <1>1, <1>3, <2>2, <2>4 DEF Supplied, SoundTypeOK
  <2>5. QED
    BY <2>3, <2>4
<1>11. CASE f = "A"
  <2>1. /\ arm7'.apart = 1 - arm7.apart /\ filled'["A"] = arm7.apart
        /\ arm7'.half["A"] = (IF arm7.cr["A"].on THEN 1 - arm7.half["A"] ELSE arm7.half["A"])
        /\ arm7'.half["B"] = arm7.half["B"] /\ filled'["B"] = filled["B"]
        /\ sinceB' = 1 - sinceB /\ odd' = odd
    <3>1. arm7.half \in [Fifos -> Halves] /\ filled \in [Fifos -> Halves \cup {2}]
      BY <1>1 DEF SoundTypeOK, Arm7
    <3>2. HalfAsked(f) = arm7.apart /\ "A" \in Fifos /\ "B" \in Fifos
      BY <1>11 DEF HalfAsked, Fifos
    <3>3. QED
      BY <1>2, <1>3, <1>4, <1>11, <3>1, <3>2
  <2>2. arm7.half["B"] \in {0, 1}
    BY <1>5 DEF Fifos
  <2>3. HalvesOfA'
    BY <1>1, <1>2, <1>3, <1>5, <1>11, <2>1 DEF HalvesOfA
  <2>4. HalvesOfB'
    BY <1>1, <1>2, <1>5, <2>1, <2>2 DEF HalvesOfB
  <2>5. QED
    BY <1>6, <1>7, <1>9, <1>10, <1>10a, <2>3, <2>4 DEF SoundInv
<1>12. CASE f = "B"
  <2>1. /\ arm7'.apart = arm7.apart /\ filled'["B"] = 1 - arm7.apart
        /\ arm7'.half["B"] = (IF arm7.cr["B"].on THEN 1 - arm7.half["B"] ELSE arm7.half["B"])
        /\ arm7'.half["A"] = arm7.half["A"] /\ filled'["A"] = filled["A"]
        /\ sinceB' = 0
    <3>1. arm7.half \in [Fifos -> Halves] /\ filled \in [Fifos -> Halves \cup {2}]
      BY <1>1 DEF SoundTypeOK, Arm7
    <3>2. HalfAsked(f) = 1 - arm7.apart /\ "A" \in Fifos /\ "B" \in Fifos
      BY <1>12 DEF HalfAsked, Fifos
    <3>3. QED
      BY <1>2, <1>3, <1>12, <3>1, <3>2
  <2>2. arm7.half["B"] \in {0, 1} /\ filled["B"] \in {0, 1, 2}
    BY <1>5 DEF Fifos
  <2>3. arm7.cr["B"].on
    BY <1>1, <1>3, <1>12 DEF Refilled
  <2>4. HalvesOfA'
    BY <1>1, <1>2, <2>1 DEF HalvesOfA
  <2>5. HalvesOfB'
    <3>1. filled'["B"] # 2 /\ arm7'.refill["B"] # 0
      BY <1>2, <1>3, <1>5, <1>12, <2>1
    <3>2. SUFFICES ASSUME <<"B", "turn">> \notin odd'
                   PROVE  /\ arm7'.half["B"] = arm7'.apart <=> sinceB' = 0
                          /\ filled'["B"] # arm7'.half["B"]
      BY <3>1 DEF HalvesOfB
    <3>3. <<"B", "turn">> \notin odd /\ sinceB = 1
      BY <1>4, <1>5, <1>12, <3>2
    <3>4. arm7'.half["B"] = arm7.apart
      BY <1>1, <1>5, <2>1, <2>2, <2>3, <3>3 DEF HalvesOfB
    <3>5. QED
      BY <1>5, <2>1, <3>4
  <2>6. QED
    BY <1>6, <1>7, <1>9, <1>10, <1>10a, <2>4, <2>5 DEF SoundInv
<1>13. QED
  BY <1>11, <1>12 DEF Fifos
-----------------------------------------------------------------------------
LEMMA InitSoundInv == SoundInit => SoundInv
<1> SUFFICES ASSUME SoundInit
             PROVE  SoundInv
  OBVIOUS
<1>1. /\ arm7 = SilentArm7 /\ asked = SilentArm7.reg /\ spoilt = {}
      /\ heard = [f \in Fifos |-> 0] /\ once = {} /\ odd = {}
      /\ filled = [f \in Fifos |-> 2] /\ refills = [f \in Fifos |-> 0]
      /\ sent = [f \in Fifos |-> [of |-> "none", piece |-> 0, due |-> 0, track |-> FALSE]]
      /\ sinceB = 0 /\ todo \in Setups /\ done = 0
  BY DEF SoundInit, Silent
<1>2. 0 \in Words /\ 0 \in 0 .. Halfword
  BY WordsAre, HalfwordIs
<1>3. /\ arm7.reg = [a \in Kept |-> 0] /\ arm7.takt = [f \in Fifos |-> 0]
      /\ arm7.rate = [f \in Fifos |-> 0]
      /\ arm7.cr = [f \in Fifos |-> [vol |-> 0, pan |-> 0, on |-> FALSE]]
      /\ arm7.refill = [f \in Fifos |-> 0] /\ arm7.half = [f \in Fifos |-> 0]
      /\ arm7.src = [f \in Fifos |-> 0] /\ arm7.apart = 0 /\ arm7.anew = {}
  BY <1>1 DEF SilentArm7
<1>4. arm7 \in Arm7
  <2>1. arm7.cr \in [Fifos -> Channel]
    BY <1>3 DEF Channel
  <2>2. /\ arm7.reg \in [Kept -> Words] /\ arm7.takt \in [Fifos -> {0, 1}]
        /\ arm7.rate \in [Fifos -> Words] /\ arm7.refill \in [Fifos -> 0 .. Halfword]
        /\ arm7.half \in [Fifos -> Halves] /\ arm7.src \in [Fifos -> Nat]
        /\ arm7.apart \in Halves /\ arm7.anew \in SUBSET Fifos
    BY <1>2, <1>3 DEF Halves
  <2>3. QED
    BY <1>1, <2>1, <2>2 DEF Arm7, SilentArm7
<1>5. SoundTypeOK
  <2>1. todo \in Seq(Kept \X Words)
    BY <1>1, SoundConstants
  <2>2. asked \in [Kept -> Words]
    BY <1>1, <1>3, <1>2
  <2>3. QED
    BY <1>1, <1>4, <2>1, <2>2 DEF SoundTypeOK, Halves, Sent
<1>6. CopiesKept
  BY <1>1 DEF CopiesKept
<1>7. \A m \in Nat \ {0} : Bit(0, m) = 0
  BY SMT DEF Bit
<1>8. Tuned(arm7)
  <2>1. \A r \in Kept : arm7.reg[r] = 0
    BY <1>3
  <2>2. \A f \in Fifos : /\ arm7.takt[f] = 0 /\ arm7.rate[f] = 0
                         /\ Clock(f) \in Nat \ {0}
    BY <1>3 DEF Clock
  <2>3. ReloadOfTimer[0 + 1] \in Kept /\ ControlOf \in Kept
    BY TimersKept, RegistersApart
  <2>4. QED
    BY <1>7, <2>1, <2>2, <2>3 DEF Tuned
<1>9. \A f \in Fifos : ~Sounds(arm7, f)
  <2>1. ASSUME NEW d \in Dmas
        PROVE  arm7.reg[d[2]] = 0
    <3>1. d[2] \in Kept
      BY DEF Dmas, Kept
    <3>2. QED
      BY <1>3, <3>1
  <2>2. \A f \in Fifos : ~Fed(arm7.reg, f)
    BY <2>1 DEF Fed, Feeds
  <2>3. QED
    BY <2>2 DEF Sounds, Plays
<1>10. \A f \in Fifos : /\ ~arm7.cr[f].on /\ arm7.cr[f].vol = 0
                        /\ arm7.refill[f] = 0 /\ arm7.src[f] = 0 /\ heard[f] = 0
                        /\ arm7.half[f] = 0 /\ filled[f] = 2
  BY <1>1, <1>3
<1>11. Refilled(arm7)
  BY <1>3, <1>9, <1>10 DEF Refilled, Fifos
<1>12. ASSUME NEW f \in Fifos
       PROVE  Played(f) /\ Paced(f) /\ Fetched(f) /\ AsLoud(f)
  <2>1. Played(f) /\ Paced(f) /\ Fetched(f)
    BY <1>9, <1>10 DEF Played, Paced, Fetched
  <2>2. AsLoud(f)
    <3>1. asked[ControlOf] = 0
      BY <1>1, <1>3, RegistersApart
    <3>2. Right(f) \in Nat \ {0} /\ Left(f) \in Nat \ {0} /\ Full(f) \in Nat \ {0}
      BY DEF Right, Left, Full
    <3>3. Bit(0, Right(f)) = 0 /\ Bit(0, Left(f)) = 0 /\ Bit(0, Full(f)) = 0
      BY <1>7, <3>2
    <3>4. QED
      BY <1>10, <3>1, <3>3 DEF AsLoud
  <2>3. QED
    BY <2>1, <2>2
<1>13. HalvesOfA /\ HalvesOfB
  BY <1>1, <1>3, <1>10 DEF HalvesOfA, HalvesOfB, Fifos
<1>14. \A f \in Fifos : Supplied(f)
  BY <1>1 DEF Supplied
<1>15. QED
  BY <1>5, <1>6, <1>8, <1>11, <1>12, <1>13, <1>14 DEF SoundInv

LEMMA StepKeepsSoundInv == SoundInv /\ [SoundNext]_soundVars => SoundInv'
<1> SUFFICES ASSUME SoundInv, [SoundNext]_soundVars
             PROVE  SoundInv'
  OBVIOUS
<1>1. todo \in Seq(Kept \X Words) /\ done \in Nat
  BY DEF SoundInv, SoundTypeOK
<1>2. CASE SetsUp
  <2>1. Head(todo) \in Kept \X Words /\ Tail(todo) \in Seq(Kept \X Words)
    BY <1>1, <1>2 DEF SetsUp
  <2>2. Head(todo)[1] \in Kept /\ Head(todo)[2] \in Words
    BY <2>1
  <2>3. /\ HistoryOf(Head(todo)[1], Head(todo)[2])
        /\ todo' = Tail(todo) /\ UNCHANGED <<filled, sent, refills, sinceB, done>>
    BY <1>2, FollowIsHistory DEF SetsUp
  <2>4. QED
    BY <1>1, <2>1, <2>2, <2>3, WriteKeepsInv
<1>3. ASSUME NEW w \in SoundWrites, GameWrites(w[1], w[2])
      PROVE  SoundInv'
  <2>1. w[1] \in Kept /\ w[2] \in Words
    BY SoundConstants
  <2>2. /\ HistoryOf(w[1], w[2])
        /\ done' = done + 1 /\ UNCHANGED <<filled, sent, refills, sinceB, todo>>
    BY <1>3, FollowIsHistory DEF GameWrites
  <2>3. QED
    BY <1>1, <2>1, <2>2, WriteKeepsInv
<1>4. ASSUME NEW w \in SoundBytes, GameWritesByte(w[1], w[2])
      PROVE  SoundInv'
  <2>1. w[1] \in {VolumeOf, VolumeOf + 1} /\ w[2] \in 0 .. 255
    BY SoundConstants
  <2>2. QED
    BY <1>4, <2>1, ByteKeepsInv
<1>5. ASSUME NEW f \in Fifos, Refill(f)
      PROVE  SoundInv'
  BY <1>5, RefillKeepsInv
<1>6. CASE UNCHANGED soundVars
  <2>1. /\ SoundTypeOK' /\ CopiesKept' /\ Tuned(arm7)' /\ Refilled(arm7)'
        /\ HalvesOfA' /\ HalvesOfB'
    BY <1>6 DEF SoundInv, soundVars, SoundTypeOK, CopiesKept, HalvesOfA, HalvesOfB
  <2>2. ASSUME NEW f \in Fifos
        PROVE  Played(f)' /\ Paced(f)' /\ Fetched(f)' /\ AsLoud(f)' /\ Supplied(f)'
    BY <1>6 DEF SoundInv, soundVars, Played, Paced, Fetched, AsLoud, Supplied
  <2>3. QED
    BY <2>1, <2>2 DEF SoundInv
<1>7. QED
  BY <1>2, <1>3, <1>4, <1>5, <1>6 DEF SoundNext

(* The inductive invariant holds for every sequence of the game's writes,  *)
(* whatever the setup, and of the refill timers' interrupts.               *)
THEOREM SoundInvariant == SoundSpec => []SoundInv
<1>1. QED
  BY InitSoundInv, StepKeepsSoundInv, PTL DEF SoundSpec

(* What the game asks of direct sound is what the DS plays (arm7/main.c):  *)
(* each FIFO that is fed, at its timer's rate, from where the GBA's DMA    *)
(* would be (B with A's data), the half that has been played refilled in   *)
(* time, and as loud; with the exceptions the parts of the property name.  *)
THEOREM SoundIsAsAsked == SoundSpec => []SoundsAsAsked
<1>1. SoundInv => SoundsAsAsked
  BY SoundInvSays
<1>2. QED
  BY <1>1, SoundInvariant, PTL
=============================================================================
