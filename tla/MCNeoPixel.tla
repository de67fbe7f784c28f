-------------------------------- MODULE MCNeoPixel --------------------------------
\* Model-checking instances of NeoPixelEsp and NeoPixelPi: a build is for one of
\* the two targets.
EXTENDS NeoPixelEsp, Sequences

CONSTANTS Targets,
          NUM_DATA_WORDS, PiCounts, Garbage, Channel, Brightness, MaxCalls

\* The bits of a strip fit into the words of the waveform; colours are bytes, and
\* nobody asks for more than 100 percent, which set_brightness takes with a message.
ASSUME StripAssumption ==
  /\ NUM_DATA_WORDS \in Nat /\ MaxCalls \in Nat /\ Garbage \subseteq Nat
  /\ PiCounts \subseteq {n \in Nat : 72 * n <= 32 * NUM_DATA_WORDS}
  /\ Channel \subseteq 0 .. 255 /\ Brightness \subseteq 0 .. 100

VARIABLES target,
          LEDBuffer, numLEDs, brightness_global, PWMWaveform, length, sample, dma,
          wire, pi_pc, slept, calls

piVars == <<LEDBuffer, numLEDs, brightness_global, PWMWaveform, length, sample, dma,
            wire, pi_pc, slept, calls>>
all == <<target, vars, piVars>>

OneToEight == 1 .. 8

Pi == INSTANCE NeoPixelPi WITH pc <- pi_pc, Counts <- PiCounts

MCInit == Init /\ Pi!Init /\ target \in Targets /\ (target = "esp32" => numLEDs = 0)

Esp32 == target = "esp32" /\ Next /\ UNCHANGED <<target, piVars>>
Pi3 == target = "pi" /\ Pi!Next /\ UNCHANGED <<target, vars>>

MCSpec == /\ MCInit /\ [][Esp32 \/ Pi3]_all
          /\ WF_vars(Task) /\ WF_vars(Transmitter) /\ WF_vars(Interrupt)

(* When set_color of the Raspberry Pi returns, the transfer is over and    *)
(* the strip shows the first numLEDs pixels of the buffer.                 *)
StripShowsBuffer == Pi!StripShowsBuffer
===================================================================================
