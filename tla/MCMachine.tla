----------------------------- MODULE MCMachine ------------------------------
(* The GBA's machine on the DS, for TLC: the DMA channels, the timers, the *)
(* lines and the video registers, and the ARM7's sound.  A behaviour is    *)
(* about one of them.                                                      *)
EXTENDS Dma, Timers, Lines, Lcd, Sound, TLC

VARIABLE device
machineVars == <<device, dmaVars, timerVars, lineVars, lcdVars, soundVars>>

MachineInit ==
  /\ DmaInit /\ TimersInit /\ LinesInit /\ LcdInit /\ SoundInit
  /\ device \in {"dma", "timers", "lines", "lcd", "sound"}
  /\ device # "lines" => plainLines
  /\ device # "sound" => todo = <<>>
MachineNext ==
  /\ \/ device = "dma" /\ DmaNext /\ UNCHANGED <<timerVars, lineVars, lcdVars, soundVars>>
     \/ device = "timers" /\ TimersNext /\ UNCHANGED <<dmaVars, lineVars, lcdVars, soundVars>>
     \/ device = "lines" /\ LinesNext /\ UNCHANGED <<dmaVars, timerVars, lcdVars, soundVars>>
     \/ device = "lcd" /\ LcdNext /\ UNCHANGED <<dmaVars, timerVars, lineVars, soundVars>>
     \/ device = "sound" /\ SoundNext /\ UNCHANGED <<dmaVars, timerVars, lineVars, lcdVars>>
  /\ UNCHANGED device
MachineSpec == MachineInit /\ [][MachineNext]_machineVars

(* A transfer begins at once, once at a V-blank, or at every H-blank.      *)
Ctl(when, w, i, repeat) ==
  [on |-> TRUE, when |-> when, width |-> w, sstep |-> i[1], dstep |-> i[2], repeat |-> repeat]
StepPairs == {<<0, 0>>, <<1, 0>>, <<2, 0>>, <<0, 1>>, <<0, 2>>, <<0, 3>>}
Controls ==
  {Idle, Ctl(1, 1, <<0, 0>>, FALSE), Ctl(2, 2, <<0, 3>>, TRUE)}
    \cup {Ctl(0, 1, i, FALSE) : i \in StepPairs}
    \cup {Ctl(0, 2, i, FALSE) : i \in {<<0, 0>>, <<1, 0>>, <<0, 2>>}}
    \cup {Ctl(2, 1, i, TRUE) : i \in {<<0, 0>>, <<1, 0>>, <<0, 2>>}}
(* Channel 3 copies from work memory, and from the image: the loaded part, *)
(* up to its edge, across it and beyond it.  Channel 0 feeds a register.   *)
MCGame ==
  3 :> [transfer |-> {<<35, 98, 2>>, <<130, 33, 1>>, <<130, 98, 2>>, <<131, 98, 1>>,
                      <<134, 33, 2>>, <<134, 98, 2>>, <<134, 354, 1>>,
                      <<34, 96, 0>>, <<130, 96, 0>>},
        control |-> Controls]
  @@ 0 :> [transfer |-> {<<34, 98, 1>>}, control |-> {Idle, Ctl(2, 1, <<0, 2>>, TRUE)}]

MCUsedTimers == 0 .. 2
(* The ends of the screen's and of the V-blank's lines.                    *)
MCReadAt == {0, 100, 191, 192, 228, 256, 261, 262}
(* A control of each class, a matrix of each layer, a window.              *)
MCLcdWrites ==
  ({<<"BG0", "CNT">>, Control, <<"BG3", "CNT">>, <<"BG2", "PA">>, <<"BG3", "PA">>}
     \X {{}, {0, 3}, {1}})
    \cup ({<<"", "WININ">>} \X {{}, {2}, {3, 10}})
MCDisplays ==
  {<<0, {8, 10}>>, <<1, {7}>>, <<2, {6}>>, <<3, {5, 10}>>, <<4, {4}>>, <<5, {4}>>}

(* Nothing is written first; or the DMA channels are turned to the FIFOs;  *)
(* or the sound is then started as well, stereo, from timer 0.             *)
Facing == <<<<\hC0, \hA0>>, <<\hC2, \h400>>, <<\hCC, \hA4>>, <<\hCE, \h400>>>>
MCSetups ==
  {<<>>, Facing, Facing \o <<<<\h82, \hA90E>>, <<\hC6, \hB600>>, <<\hD2, \hB600>>,
                       <<\h100, \hFB80>>, <<\h102, \h80>>>>}
(* A reload of a fast rate with the bit that enables a timer in it, and    *)
(* one of a slow rate; each side and timer; tones on and off.              *)
MCSoundWrites ==
  ({\hC6, \hD2} \X {0, \hB600}) \cup ({\h82} \X {\hA90E, \hED0E, \h3305})
    \cup ({\h100} \X {\hFB80, \hF700}) \cup {<<\h104, \hFC00>>}
    \cup ({\h102, \h106} \X {0, \h80}) \cup ({\h80} \X {0, \hFF77})
MCSoundBytes == {<<\h80, \h77>>, <<\h81, 0>>}
=============================================================================
