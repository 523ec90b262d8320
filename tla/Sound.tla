------------------------------- MODULE Sound --------------------------------
(* Direct sound on the ARM7 (arm7/main.c).  The ARM9 passes on what the    *)
(* game writes to the sound, DMA and timer registers; newvalwrite keeps    *)
(* copies of them and plays a FIFO of the GBA on a channel of the DS,      *)
(* which loops over a buffer of two halves.  A timer of the ARM7, meant to *)
(* expire whenever a half has been played, asks the ARM9 to refill one.    *)
(*                                                                         *)
(* Registers are named by their addresses.  The copies hold whole words;   *)
(* of a channel's control, its volume, its pan and whether it runs.        *)
(* The master switch and the bias, which are passed through, are left out. *)
EXTENDS Integers, Sequences
CONSTANTS
  Setups,          \* what the game writes first: sequences of <<register, word>>
  SoundWrites,     \* what it may write then: <<register, word>>
  SoundBytes,      \* and the bytes, to either half of SOUNDCNT_L: <<address, byte>>
  MaxSoundWrites,  \* bound: writes after the setup
  MaxRefills       \* bound: refills of each FIFO

Fifos == {"A", "B"}
Halves == {0, 1}
VolumeOf == \h80
ControlOf == \h82
(* Destination (low, high) and control of DMA 1 and 2; reload and control  *)
(* of timer 0 and 1.                                                       *)
Dmas == {<<\hC0, \hC2, \hC6>>, <<\hCC, \hCE, \hD2>>}
ReloadOfTimer == <<\h100, \h104>>
ControlOfTimer == <<\h102, \h106>>
Kept == {VolumeOf, ControlOf, \h100, \h102, \h104, \h106}
          \cup UNION {{d[1], d[2], d[3]} : d \in Dmas}
Halfword == 65536

Words == 0 .. Halfword - 1

ASSUME SoundConstants ==
  /\ Setups \subseteq Seq(Kept \X Words) /\ SoundWrites \subseteq Kept \X Words
  /\ SoundBytes \subseteq {VolumeOf, VolumeOf + 1} \X (0 .. 255)
  /\ MaxSoundWrites \in Nat /\ MaxRefills \in Nat

VARIABLES
  arm7,    \* the ARM7's variables and the sound hardware:
           \*   reg      the copies of the registers
           \*   takt     FIFO -> the timer that clocks it, tacktgeber_sound_FIFO_DMA_A and _B
           \*   rate     FIFO -> its channel's SCHANNEL_TIMER
           \*   cr       FIFO -> its channel's SCHANNEL_CR, [vol, pan, on]
           \*   refill   FIFO -> the DS timer's period, 0 while it is stopped
           \*   half     FIFO -> the half its channel plays
           \*   src      FIFO -> pieces of 16 bytes taken from the DMA's source
           \*   apart    dmaApart
           \*   anew     history: FIFOs whose channel began anew while their timer ran
  asked,   \* history: the registers as the GBA would hold them
  spoilt,  \* history: registers whose copy another register's write has changed
  heard,   \* history: FIFO -> pieces the GBA would have taken since its DMA began
  filled,  \* history: FIFO -> the half last refilled, 2 before the first
  sent,    \* history: FIFO -> what that half was filled with: whose source, "none"
           \* before A's is known; the piece of it; the one A's DMA would have
           \* fetched, and whether A was on its track
  once,    \* history: FIFOs whose sound was asked for
  odd,     \* history: what befell a FIFO: its rate changed ("rate"), its source was
           \* taken again ("source"), B was refilled without A ("turn"), A was cut
           \* off ("tone")
  refills, \* FIFO -> refills so far
  sinceB,  \* history: the refills of A since B's last, modulo 2
  todo,    \* what is left of the game's first writes
  done     \* writes since
soundVars == <<arm7, asked, spoilt, heard, filled, sent, once, odd, refills, sinceB, todo, done>>

(* The bit of a word that a mask names.                                    *)
Bit(w, mask) == (w \div mask) % 2
-----------------------------------------------------------------------------
(* updatevol(): the volume and the pan of the channels.                    *)
Right(f) == IF f = "A" THEN \h100 ELSE \h1000
Left(f) == 2 * Right(f)
Full(f) == IF f = "A" THEN \h4 ELSE \h8
Clock(f) == IF f = "A" THEN \h400 ELSE \h4000
Direct(h, f, cr) ==
  LET right == Bit(h, Right(f))
      left == Bit(h, Left(f))
  IN  [cr EXCEPT !.vol = (1 + Bit(h, Full(f))) * (right + left) * 31,
                 !.pan = CASE right = 1 /\ left = 1 -> 64
                           [] right = 1 /\ left = 0 -> 127
                           [] right = 0 /\ left = 1 -> 0
                           [] OTHER -> @]
(* The GBA's other channels 2 to 4 are never played, but FIFO A's control  *)
(* is overwritten with that of the last one that is enabled on a side.     *)
ToneRight == <<\h200, \h400, \h800>>
Tone(l, i) == Bit(l, ToneRight[i]) = 1 \/ Bit(l, 16 * ToneRight[i]) = 1
TonesOn(l) == \E i \in 1 .. 3 : Tone(l, i)
ToneShare(h) == CASE h % 4 = 1 -> 2 [] h % 4 = 2 -> 4 [] OTHER -> 1
ToneControl(l, h) ==
  LET i == CHOOSE k \in 1 .. 3 : Tone(l, k) /\ \A n \in k + 1 .. 3 : ~Tone(l, n)
      right == Bit(l, ToneRight[i])
  IN  [vol |-> (l % 8) * right * ToneShare(h) * 2,
       pan |-> IF right = 1 THEN 127 ELSE 0, on |-> FALSE]
updatevol(s) ==
  LET l == s.reg[VolumeOf]
      h == s.reg[ControlOf]
  IN  [s EXCEPT !.cr["A"] = IF TonesOn(l) THEN ToneControl(l, h) ELSE Direct(h, "A", @),
                !.cr["B"] = Direct(h, "B", @)]

(* updatetakt(): the channels play at the rate of their timers.            *)
updatetakt(s) ==
  [s EXCEPT !.rate = [f \in Fifos |-> s.reg[ReloadOfTimer[s.takt[f] + 1]]]]

(* checkstart(): a DMA feeds the FIFO and the FIFO's timer runs.  The      *)
(* period is passed as 16 bits; a timer that runs is left as it is, and    *)
(* nothing stops a channel or a timer again.                               *)
Port(f) == IF f = "A" THEN \hA0 ELSE \hA4
Feeds(reg, d, f) == reg[d[1]] = Port(f) /\ reg[d[2]] = \h400 /\ Bit(reg[d[3]], \h8000) = 1
Fed(reg, f) == \E d \in Dmas : Feeds(reg, d, f)
Plays(reg, takt, f) == Fed(reg, f) /\ Bit(reg[ControlOfTimer[takt + 1]], \h80) = 1
Period(rate) == Halfword - ((rate * 32) % Halfword)
checkstart(s) ==
  LET go == {f \in Fifos : Plays(s.reg, s.takt[f], f)}
  IN  [s EXCEPT !.cr = [f \in Fifos |-> [s.cr[f] EXCEPT !.on = @ \/ f \in go]],
                !.anew = @ \cup {f \in go : ~s.cr[f].on /\ s.refill[f] # 0},
                !.half = [f \in Fifos |-> IF f \in go /\ ~s.cr[f].on THEN 0 ELSE @[f]],
                !.refill = [f \in Fifos |-> IF f \in go /\ @[f] = 0
                                            THEN Period(s.rate[f]) ELSE @[f]],
                !.src = [f \in Fifos |-> IF f \in go THEN 0 ELSE @[f]]]
-----------------------------------------------------------------------------
(* newvalwrite(): the timers' cases run into each other, and the last one  *)
(* into the one of SOUNDCNT_L.                                             *)
Set(s, a, v) == [s EXCEPT !.reg[a] = v]
SoundCntL(s, v) == updatevol(Set(s, VolumeOf, v))
Timer1Control(s, v) == SoundCntL(checkstart(updatetakt(Set(s, \h106, v))), v)
Timer1Reload(s, v) == Timer1Control(updatetakt(Set(s, \h104, v)), v)
Timer0Control(s, v) == Timer1Reload(checkstart(updatetakt(Set(s, \h102, v))), v)
Timer0Reload(s, v) == Timer0Control(updatetakt(Set(s, \h100, v)), v)
(* Mutant: the case of SOUNDCNT_H forgets to follow the timers chosen.     *)
SoundCntHNoTakt(s, v) ==
  checkstart([updatevol(Set(s, ControlOf, v)) EXCEPT
                !.takt = [f \in Fifos |-> Bit(v, Clock(f))]])
SoundCntH(s, v) ==
  checkstart(updatetakt([updatevol(Set(s, ControlOf, v)) EXCEPT
                           !.takt = [f \in Fifos |-> Bit(v, Clock(f))]]))
(* The upper half of a destination has 11 bits, on the GBA as well.        *)
Held(a, v) == IF \E d \in Dmas : a = d[2] THEN v % \h800 ELSE v
newvalwrite(s, a, v) ==
  CASE \E d \in Dmas : a \in {d[1], d[2], d[3]} -> checkstart(Set(s, a, Held(a, v)))
    [] a = \h100 -> Timer0Reload(s, v)
    [] a = \h102 -> Timer0Control(s, v)
    [] a = \h104 -> Timer1Reload(s, v)
    [] a = \h106 -> Timer1Control(s, v)
    [] a = VolumeOf -> SoundCntL(s, v)
    [] a = ControlOf -> SoundCntH(s, v)
    [] OTHER -> s
-----------------------------------------------------------------------------
(* What the game wrote, and what became of it.                             *)
SpoiltBy(a) ==
  CASE a = \h100 -> {\h102, \h104, \h106, VolumeOf}
    [] a = \h102 -> {\h104, \h106, VolumeOf}
    [] a = \h104 -> {\h106, VolumeOf}
    [] a = \h106 -> {VolumeOf}
    [] OTHER -> {}
TaktAsked(reg, f) == Bit(reg[ControlOf], Clock(f))
Asked(reg, f) == Plays(reg, TaktAsked(reg, f), f)
(* The DMA's enable bit rises: the GBA takes its source.                   *)
Begins(reg, a, v, f) ==
  \E d \in Dmas : a = d[3] /\ Bit(v, \h8000) = 1 /\ Bit(reg[a], \h8000) = 0
                    /\ Feeds([reg EXCEPT ![a] = v], d, f)

SilentArm7 ==
  [reg |-> [a \in Kept |-> 0], takt |-> [f \in Fifos |-> 0],
   rate |-> [f \in Fifos |-> 0], cr |-> [f \in Fifos |-> [vol |-> 0, pan |-> 0, on |-> FALSE]],
   refill |-> [f \in Fifos |-> 0], half |-> [f \in Fifos |-> 0], src |-> [f \in Fifos |-> 0],
   apart |-> 0, anew |-> {}]
(* The history and the ARM7 after one write.                               *)
SoundStep(h, a, v) ==
  LET new == newvalwrite(h.arm7, a, v)
      old == h.arm7
      reg == [h.asked EXCEPT ![a] = Held(a, v)]
      late == {f \in Fifos : old.refill[f] # 0 /\ new.rate[f] # old.rate[f]}
      again == {f \in Fifos : old.src[f] # 0 /\ new.src[f] = 0 /\ ~Begins(h.asked, a, v, f)}
      cut == {f \in {"A"} : TonesOn(new.reg[VolumeOf]) /\ ~new.cr[f].on}
      bad == (h.spoilt \ {a}) \cup SpoiltBy(a)
  IN  [arm7 |-> new, asked |-> reg, spoilt |-> bad,
       heard |-> [f \in Fifos |-> IF Begins(h.asked, a, v, f) THEN 0 ELSE h.heard[f]],
       once |-> h.once \cup {f \in Fifos : Asked(reg, f)
                                \/ (ControlOfTimer[TaktAsked(reg, f) + 1] \in bad /\ Fed(reg, f))},
       odd |-> {o \in h.odd : o[2] # "tone" \/ ~new.cr["A"].on}
                 \cup (cut \X {"tone"}) \cup (late \X {"rate"}) \cup (again \X {"source"})]
SoundHistory == [arm7 |-> arm7, asked |-> asked, spoilt |-> spoilt, heard |-> heard,
                 once |-> once, odd |-> odd]
Follow(h) ==
  /\ arm7' = h.arm7 /\ asked' = h.asked /\ spoilt' = h.spoilt
  /\ heard' = h.heard /\ once' = h.once /\ odd' = h.odd
Silent == [arm7 |-> SilentArm7, asked |-> SilentArm7.reg, spoilt |-> {},
           heard |-> [f \in Fifos |-> 0], once |-> {}, odd |-> {}]
SoundInit ==
  /\ arm7 = Silent.arm7 /\ asked = Silent.asked /\ spoilt = Silent.spoilt
  /\ heard = Silent.heard /\ once = Silent.once /\ odd = Silent.odd
  /\ filled = [f \in Fifos |-> 2]
  /\ sent = [f \in Fifos |-> [of |-> "none", piece |-> 0, due |-> 0, track |-> FALSE]]
  /\ refills = [f \in Fifos |-> 0] /\ sinceB = 0
  /\ todo \in Setups /\ done = 0

(* CPUUpdateRegister: a halfword is kept and passed on.                    *)
SetsUp ==
  /\ todo # <<>> /\ todo' = Tail(todo)
  /\ Follow(SoundStep(SoundHistory, Head(todo)[1], Head(todo)[2]))
  /\ UNCHANGED <<filled, sent, refills, sinceB, done>>
GameWrites(a, v) ==
  /\ todo = <<>> /\ done < MaxSoundWrites /\ done' = done + 1
  /\ Follow(SoundStep(SoundHistory, a, v))
  /\ UNCHANGED <<filled, sent, refills, sinceB, todo>>
(* CPUWriteBytepu: a byte of SOUNDCNT_L is passed on as if it were the     *)
(* register, under its own address, which newvalwrite does not know when   *)
(* it is odd; the bytes of the other registers are put together first.     *)
GameWritesByte(at, b) ==
  LET old == asked[VolumeOf]
      whole == IF at = VolumeOf THEN 256 * (old \div 256) + b ELSE (old % 256) + 256 * b
  IN  /\ todo = <<>> /\ done < MaxSoundWrites /\ done' = done + 1
      /\ arm7' = newvalwrite(arm7, at, b)
      /\ asked' = [asked EXCEPT ![VolumeOf] = whole]
      /\ spoilt' = spoilt \cup {VolumeOf}
      /\ UNCHANGED <<heard, once, odd, filled, sent, refills, sinceB, todo>>

(* The registers that say whether a FIFO sounds are on the ARM7 as they     *)
(* were written, and its source was not taken again.                       *)
TimerOf(f) == TaktAsked(asked, f) + 1
Intact(f) == ControlOfTimer[TimerOf(f)] \notin spoilt
OnTrack(f) == Asked(asked, f) /\ Intact(f) /\ <<f, "source">> \notin odd

(* dmaAtimerinter and dmaBtimerinter: the ARM9 is sent a source with the   *)
(* number of the buffer's half in its low bits.  Both test dmaApart, and   *)
(* both send debugsrc1, which is A's: B's own pointer is only moved on.    *)
SourceSent == IF arm7.refill["A"] # 0 THEN "A" ELSE "none"
HalfAsked(f) == IF f = "A" THEN arm7.apart ELSE 1 - arm7.apart
Refill(f) ==
  /\ todo = <<>> /\ arm7.refill[f] # 0 /\ refills[f] < MaxRefills
  /\ arm7' = [arm7 EXCEPT !.src[f] = @ + 1,
                          !.apart = IF f = "A" THEN 1 - @ ELSE @,
                          !.half[f] = IF arm7.cr[f].on THEN 1 - @ ELSE @]
  /\ filled' = [filled EXCEPT ![f] = HalfAsked(f)]
  /\ sent' = [sent EXCEPT ![f] = [of |-> SourceSent, piece |-> arm7.src["A"],
                                  due |-> heard["A"], track |-> OnTrack("A")]]
  /\ heard' = [heard EXCEPT ![f] = @ + 1]
  /\ refills' = [refills EXCEPT ![f] = @ + 1]
  /\ sinceB' = IF f = "A" THEN 1 - sinceB ELSE 0
  /\ odd' = IF f = "B" /\ sinceB = 0 THEN odd \cup {<<"B", "turn">>} ELSE odd
  /\ UNCHANGED <<asked, spoilt, once, todo, done>>

SoundNext ==
  \/ SetsUp
  \/ \E w \in SoundWrites : GameWrites(w[1], w[2])
  \/ \E w \in SoundBytes : GameWritesByte(w[1], w[2])
  \/ \E f \in Fifos : Refill(f)
SoundSpec == SoundInit /\ [][SoundNext]_soundVars
-----------------------------------------------------------------------------
Channel == [vol : 0 .. 255, pan : 0 .. 127, on : BOOLEAN]
Arm7 ==
  [reg : [Kept -> Words], takt : [Fifos -> {0, 1}], rate : [Fifos -> Words],
   cr : [Fifos -> Channel], refill : [Fifos -> 0 .. Halfword], half : [Fifos -> Halves],
   src : [Fifos -> Nat], apart : Halves, anew : SUBSET Fifos]
Sent == [of : {"A", "none"}, piece : Nat, due : Nat, track : BOOLEAN]
Mishaps == Fifos \X {"rate", "source", "turn", "tone"}
SoundTypeOK ==
  /\ arm7 \in Arm7 /\ asked \in [Kept -> Words]
  /\ spoilt \subseteq Kept /\ once \subseteq Fifos /\ odd \subseteq Mishaps
  /\ filled \in [Fifos -> Halves \cup {2}] /\ heard \in [Fifos -> Nat]
  /\ sent \in [Fifos -> Sent]
  /\ refills \in [Fifos -> Nat] /\ sinceB \in {0, 1}
  /\ todo \in Seq(Kept \X Words) /\ done \in Nat

(* The parts of the promise, for one FIFO.                                 *)
(* It is played as soon as the game's registers ask for it, and never      *)
(* unasked; but SOUNDCNT_L with a tone on cuts FIFO A off, until something *)
(* is written that checkstart follows.                                     *)
StartsWhenAsked(f) ==
  /\ Asked(asked, f) /\ Intact(f) =>
       arm7.cr[f].on \/ <<f, "tone">> \in odd
  /\ arm7.cr[f].on => f \in once
(* At the rate of its timer, unless the other timer's write ran into it.   *)
AtItsRate(f) ==
  arm7.cr[f].on /\ ReloadOfTimer[TimerOf(f)] \notin spoilt =>
    arm7.rate[f] = asked[ReloadOfTimer[TimerOf(f)]]
(* The buffer's halves are asked for as fast as they are played, 16 samples *)
(* of two ticks each.  The 16 bits of the timer hold 2048 times 32 of them. *)
SamplesOfHalf == 16
InPace(f) == arm7.refill[f] = SamplesOfHalf * 2 * (Halfword - arm7.rate[f])
KeepsPace(f) ==
  arm7.refill[f] # 0 /\ <<f, "rate">> \notin odd /\ Halfword - arm7.rate[f] <= 2048 => InPace(f)
(* And the half that is refilled is the one that has been played; for B    *)
(* only while it takes turns with A.                                       *)
RefillsThePlayedHalf(f) ==
  filled[f] # 2 /\ arm7.cr[f].on /\ InPace(f)
  /\ f \notin arm7.anew /\ {<<f, "rate">>, <<f, "turn">>} \cap odd = {} =>
    filled[f] # arm7.half[f]
(* Its pointer is where the GBA's DMA would be.  But what it is filled     *)
(* with is, for B as for A, the piece that A's DMA would have fetched.     *)
FromItsSource(f) ==
  /\ OnTrack(f) => arm7.src[f] = heard[f]
  /\ sent[f].track => sent[f].of = "A" /\ sent[f].piece = sent[f].due
(* As loud as the game wants it; A only while no tone is on.               *)
AsLoud(f) ==
  f = "B" \/ ~TonesOn(arm7.reg[VolumeOf]) =>
    LET h == asked[ControlOf]
        sides == Bit(h, Right(f)) + Bit(h, Left(f))
    IN  /\ arm7.cr[f].vol = 31 * sides * (1 + Bit(h, Full(f)))
        /\ sides = 1 => arm7.cr[f].pan = 127 * Bit(h, Right(f))

(* What the game asks of direct sound is what the DS plays: the FIFOs that *)
(* are fed, at their timers' rate, each half of the buffer refilled in     *)
(* time with the data that follows (in FIFO B with A's), and as loud; with *)
(* the exceptions the parts name, each of which the code makes             *)
(* (arm7/main.c:250-267, 132-143, 546-555 and 664-665).                    *)
SoundsAsAsked ==
  \A f \in Fifos :
    /\ StartsWhenAsked(f) /\ AtItsRate(f) /\ KeepsPace(f)
    /\ RefillsThePlayedHalf(f) /\ FromItsSource(f) /\ AsLoud(f)
=============================================================================
