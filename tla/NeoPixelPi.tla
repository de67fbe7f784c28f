--------------------------------- MODULE NeoPixelPi ---------------------------------
(***************************************************************************)
(* NeoPixel of driver_pi/NeoPixel.cpp: each colour bit becomes three bits  *)
(* on the wire, 110 or 100, which a DMA channel feeds word by word to the  *)
(* PWM serialiser.  set_color changes one pixel and sends all of them; it  *)
(* returns after a sleep as long as the largest transfer takes.            *)
(*                                                                         *)
(* numLEDs is never assigned: it is whatever the memory of the object held *)
(* before, 0 for an object with static storage.  A number beyond the       *)
(* buffer makes show() leave the vector, after which anything may happen.  *)
(***************************************************************************)
EXTENDS Naturals, Sequences

CONSTANTS NUM_DATA_WORDS,   \* words of PWMWaveform and of ctl->sample
          Counts,           \* the arguments neo_count in use
          Garbage,          \* what numLEDs may hold
          Channel,          \* the values of r, g and b in use
          Brightness,       \* the arguments of set_brightness, in percent
          MaxCalls          \* bound: calls of set_color and set_brightness

\* Each LED takes 72 bits on the wire and a word has 32; the model is of strips
\* that fit, 72 * n <= 32 * NUM_DATA_WORDS for the numbers n of LEDs in Counts.

VARIABLES LEDBuffer, numLEDs, brightness_global,
          PWMWaveform,    \* for each word the bits that are set, 0 the first on the wire
          length,         \* cbp->length in words
          sample,         \* ctl->sample, what the DMA channel reads
          dma,            \* the words it has still to send, from sample[0] on
          wire,           \* the bits sent since the transfer began
          pc,
          slept,          \* time since the transfer began, in words
          calls

vars == <<LEDBuffer, numLEDs, brightness_global, PWMWaveform, length, sample, dma,
          wire, pc, slept, calls>>

Words == 0 .. NUM_DATA_WORDS - 1
Black == [r |-> 0, g |-> 0, b |-> 0]

Init == /\ numLEDs \in Garbage
        /\ LEDBuffer = <<>> /\ brightness_global = 100
        /\ PWMWaveform = [w \in Words |-> {}] /\ sample = [w \in Words |-> {}]
        /\ length = 0 /\ dma = 0 /\ wire = <<>>
        /\ pc = "off" /\ slept = 0 /\ calls = 0

----------------------------------------------------------------------------
\* ((numLEDs * 2.25) + 1) * 4 bytes, no more than sample holds, in whole words.
DmaWords(n) == LET words == (9 * n + 4) \div 4
               IN  IF words > NUM_DATA_WORDS THEN NUM_DATA_WORDS ELSE words

\* init: the rest of it maps the registers and sets up the DMA channel, the
\* PWM and its clock.
init(neo_count) ==
  /\ pc = "off"
  /\ LEDBuffer' = [k \in 1 .. neo_count |-> Black]
  /\ brightness_global' = 100
  /\ PWMWaveform' = [w \in Words |-> {}]
  /\ length' = DmaWords(numLEDs)
  /\ pc' = "idle"
  /\ UNCHANGED <<numLEDs, sample, dma, wire, slept, calls>>

set_brightness(percent) ==
  /\ pc = "idle" /\ calls < MaxCalls
  /\ brightness_global' = percent /\ calls' = calls + 1
  /\ UNCHANGED <<LEDBuffer, numLEDs, PWMWaveform, length, sample, dma, wire, pc, slept>>

\* LEDBuffer[index] = RGB2Color(r, g, b); an index beyond numLEDs only prints.
set_color(index, color) ==
  /\ pc = "idle" /\ calls < MaxCalls /\ index \in DOMAIN LEDBuffer
  /\ LEDBuffer' = [LEDBuffer EXCEPT ![index] = color]
  /\ calls' = calls + 1
  /\ pc' = IF numLEDs > Len(LEDBuffer) THEN "undefined" ELSE "show"
  /\ UNCHANGED <<numLEDs, brightness_global, PWMWaveform, length, sample, dma, wire, slept>>

\* A factor of at most 1, and the conversion back to a byte.
Dimmed(c) == LET by(x) == (x * brightness_global) \div 100
             IN  [r |-> by(c.r), g |-> by(c.g), b |-> by(c.b)]

Bit(x, j) == (x \div 2^j) % 2
\* colorBits: green, red and blue, each from its highest bit on.
ColorBit(c, j) == IF j >= 16 THEN Bit(c.g, j - 16)
                  ELSE IF j >= 8 THEN Bit(c.r, j - 8) ELSE Bit(c.b, j)

\* Wire bit number p of the pixels in leds: 110 for a 1 and 100 for a 0.
WireBit(leds, p) ==
  LET led == leds[1 + p \div 72]
      j == 23 - (p % 72) \div 3
  IN  CASE p % 3 = 0 -> 1
        [] p % 3 = 1 -> ColorBit(led, j)
        [] p % 3 = 2 -> 0

\* A deviation: bits that were set before stay set.
SetBitsOnly(old, leds, n) ==
  [w \in Words |-> {x \in 0 .. 31 :
     x \in old[w] \/ (32 * w + x < 72 * n /\ WireBit(leds, 32 * w + x) = 1)}]

\* setPWMBit for every wire bit of the first n pixels; the others stay.
Encoded(old, leds, n) ==
  [w \in Words |-> {x \in 0 .. 31 :
     IF 32 * w + x < 72 * n THEN WireBit(leds, 32 * w + x) = 1 ELSE x \in old[w]}]

\* show up to the start of the transfer.
Show ==
  /\ pc = "show"
  /\ LEDBuffer' = [k \in DOMAIN LEDBuffer |->
                     IF k <= numLEDs THEN Dimmed(LEDBuffer[k]) ELSE LEDBuffer[k]]
  /\ PWMWaveform' = Encoded(PWMWaveform, LEDBuffer', numLEDs)
  /\ sample' = [w \in Words |-> IF w < length THEN PWMWaveform'[w] ELSE sample[w]]
  /\ dma' = length /\ wire' = <<>> /\ slept' = 0
  /\ pc' = "sleep"
  /\ UNCHANGED <<numLEDs, brightness_global, length, calls>>

\* The DMA channel sends a word while set_color sleeps; it runs on its own, but
\* at a rate that usleep counts on.
Send ==
  /\ pc = "sleep" /\ slept < NUM_DATA_WORDS
  /\ slept' = slept + 1
  /\ IF dma = 0 THEN UNCHANGED <<dma, wire>>
     ELSE /\ dma' = dma - 1
          /\ wire' = wire \o [x \in 1 .. 32 |->
                       IF x - 1 \in sample[length - dma] THEN 1 ELSE 0]
  /\ UNCHANGED <<LEDBuffer, numLEDs, brightness_global, PWMWaveform, length, sample,
                 pc, calls>>

Return ==
  /\ pc = "sleep" /\ slept = NUM_DATA_WORDS
  /\ pc' = "idle"
  /\ UNCHANGED <<LEDBuffer, numLEDs, brightness_global, PWMWaveform, length, sample,
                 dma, wire, slept, calls>>

Colors == [r : Channel, g : Channel, b : Channel]

Next == \/ \E n \in Counts : init(n)
        \/ \E percent \in Brightness : set_brightness(percent)
        \/ \E index \in DOMAIN LEDBuffer, color \in Colors : set_color(index, color)
        \/ Show \/ Send \/ Return

Spec == Init /\ [][Next]_vars

----------------------------------------------------------------------------
\* The pixels a strip makes of the bits on the wire: three bits are a 1 when the
\* second is high, and 24 of them are the green, red and blue of the next pixel.
Received(bits, k) ==
  LET at(c, j) == bits[72 * (k - 1) + 3 * (8 * c + 7 - j) + 2] * 2^j
      byte(c) == at(c,0) + at(c,1) + at(c,2) + at(c,3) + at(c,4) + at(c,5) + at(c,6) + at(c,7)
  IN  [g |-> byte(0), r |-> byte(1), b |-> byte(2)]

(* When set_color returns, the transfer is over and the strip shows the    *)
(* first numLEDs pixels of the buffer; what the waveform held before, the  *)
(* bounds of the words and the cut-off of the length do not show.          *)
StripShowsBuffer ==
  (pc = "idle" /\ wire # <<>>) =>
    /\ dma = 0
    /\ Len(wire) >= 72 * numLEDs
    /\ \A k \in 1 .. numLEDs : Received(wire, k) = LEDBuffer[k]
=====================================================================================
