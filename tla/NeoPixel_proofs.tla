----------------------------- MODULE NeoPixel_proofs -----------------------------
(***************************************************************************)
(* Proofs about the two drivers of the LED strip: NeoPixelEsp for strips   *)
(* of any length and halves of any size that a strip never fills exactly,  *)
(* NeoPixelPi, as MCNeoPixel instantiates it, for strips of any length     *)
(* that fit into the waveform, any colours and any history of calls.       *)
(***************************************************************************)
EXTENDS MCNeoPixel, TLAPS

----------------------------------------------------------------------------
(* The strip of the ESP32.                                                 *)

SlotType == [pulses : {"byte", "last", "zero", "junk"}, byte : Nat]

\* Half h holds the bytes from base on.
Filled(h, base) == \A s \in Slots : mem[h][s] = At(base + s, ws2812_len)
Cut(n) == IF n > ws2812_len THEN ws2812_len ELSE n

Typed ==
  /\ PIXEL_COUNT \in Nat /\ pc \in Steps
  /\ ws2812_len \in Nat /\ ws2812_pos \in Nat /\ ws2812_half \in Halves
  /\ mem \in [Halves -> [Slots -> SlotType]]
  /\ tx_on \in BOOLEAN /\ tx \in [half : Halves, slot : Slots]
  /\ tx_thr_event \in BOOLEAN /\ tx_end \in BOOLEAN
  /\ handler \in {"idle", "clearThr", "clearEnd"}
  /\ sent \in Nat

Lengths == /\ PIXEL_COUNT \in Counts \cup {0}
           /\ pc # "idle" => /\ PIXEL_COUNT # 0 /\ ws2812_buffer
                             /\ ws2812_len # SLOTS

\* What is pending belongs to the call that sleeps.
Pending ==
  /\ tx_thr_event \/ tx_on \/ handler = "clearThr" => pc = "take"
  /\ handler = "clearThr" => tx_thr_event
  /\ handler = "clearEnd" => tx_end /\ ~tx_thr_event
  /\ tx_end /\ handler # "clearEnd" => pc = "take" /\ ~tx_on /\ sent = ws2812_len

Semaphore ==
  /\ pc = "start" => ws2812_sem = "empty"
  /\ pc = "take" => ws2812_sem \in {"empty", "given"}
  /\ ws2812_sem = "given" => /\ pc = "take" /\ ~tx_on /\ ~tx_thr_event
                             /\ sent = ws2812_len
                             /\ tx_end => handler = "clearEnd"
  /\ pc \in {"delete", "null", "free"} => sent = ws2812_len

\* The two halves before the start: a short strip needs only one of them.
Ready == /\ Filled(0, 0)
         /\ ws2812_len > SLOTS => /\ Filled(1, SLOTS)
                                  /\ ws2812_half = 0 /\ ws2812_pos = Cut(2 * SLOTS)

Setup == /\ pc = "copy1" => ws2812_pos = 0 /\ ws2812_half = 0
         /\ pc = "copy2" => /\ Filled(0, 0)
                            /\ ws2812_half = 1 /\ ws2812_pos = Cut(SLOTS)
         /\ pc \in {"create", "start"} => Ready

\* While it is sent: the half being sent began at byte base.  If the event of
\* the half before is not served yet, the other half is due for base + SLOTS;
\* otherwise it holds those bytes and this half is next.
Walking ==
  LET base == sent - tx.slot
  IN  /\ base \in Nat /\ sent <= ws2812_len
      /\ Filled(tx.half, base)
      /\ ws2812_len < SLOTS => base = 0 /\ ~tx_thr_event
      /\ ws2812_len > SLOTS =>
           IF tx_thr_event /\ handler = "idle"
             THEN ws2812_half = 1 - tx.half /\ ws2812_pos = Cut(base + SLOTS)
             ELSE /\ Filled(1 - tx.half, base + SLOTS)
                  /\ ws2812_half = tx.half /\ ws2812_pos = Cut(base + 2 * SLOTS)

Inv == Typed /\ Lengths /\ Pending /\ Semaphore /\ Setup /\ (tx_on => Walking)

LEMMA AtType == ASSUME NEW n \in Nat, NEW len \in Nat
                PROVE  /\ At(n, len) \in SlotType
                       /\ At(n, len) = Nothing <=> n >= len
BY DEF At, Byte, Nothing, SlotType

\* What a copy does when base is the next byte, or lies behind the last one.
LEMMA CopyEffect ==
  ASSUME Typed, NEW base \in Nat, ws2812_pos = Cut(base), ws2812_copy,
         ws2812_len' = ws2812_len
  PROVE  /\ mem' \in [Halves -> [Slots -> SlotType]]
         /\ \A s \in Slots : mem'[ws2812_half][s] = At(base + s, ws2812_len)
         /\ mem'[1 - ws2812_half] = mem[1 - ws2812_half]
         /\ ws2812_half' = 1 - ws2812_half /\ ws2812_half' \in Halves
         /\ ws2812_pos' = Cut(base + SLOTS) /\ ws2812_pos' \in Nat
<1> USE SlotsAssumption DEF Halves, Slots
<1>1. /\ ws2812_len \in Nat /\ ws2812_pos \in Nat /\ ws2812_half \in Halves
      /\ mem \in [Halves -> [Slots -> SlotType]]
  BY DEF Typed
<1>2. \A s \in Slots : /\ At(ws2812_pos + s, ws2812_len) = At(base + s, ws2812_len)
                       /\ At(ws2812_pos + s, ws2812_len) \in SlotType
  <2> SUFFICES ASSUME NEW s \in Slots
               PROVE  /\ At(ws2812_pos + s, ws2812_len) = At(base + s, ws2812_len)
                      /\ At(ws2812_pos + s, ws2812_len) \in SlotType
    OBVIOUS
  <2>1. CASE base <= ws2812_len
    BY <1>1, <2>1, AtType DEF Cut
  <2>2. CASE base > ws2812_len
    BY <1>1, <2>2, AtType DEF Cut
  <2> QED
    BY <1>1, <2>1, <2>2
<1>3. mem' = [mem EXCEPT ![ws2812_half] =
                [s \in Slots |-> At(ws2812_pos + s, ws2812_len)]]
  BY DEF ws2812_copy
<1>4. mem' \in [Halves -> [Slots -> SlotType]]
  BY <1>1, <1>2, <1>3
<1>5. /\ \A s \in Slots : mem'[ws2812_half][s] = At(base + s, ws2812_len)
      /\ mem'[1 - ws2812_half] = mem[1 - ws2812_half]
  BY <1>1, <1>2, <1>3
<1>6. /\ ws2812_half' = 1 - ws2812_half /\ ws2812_half' \in Halves
      /\ ws2812_pos' = Cut(base + SLOTS) /\ ws2812_pos' \in Nat
  BY <1>1 DEF ws2812_copy, Cut
<1> QED
  BY <1>4, <1>5, <1>6

LEMMA InitInv == Init => Inv
<1> SUFFICES ASSUME Init PROVE Inv
  OBVIOUS
<1>1. mem \in [Halves -> [Slots -> SlotType]]
  BY DEF Init, SlotType, Junk
<1>2. tx \in [half : Halves, slot : Slots]
  BY SlotsAssumption DEF Init, Halves, Slots
<1>3. Typed
  BY <1>1, <1>2 DEF Init, Typed, Steps, Halves
<1> QED
  BY <1>3 DEF Init, Inv, Lengths, Pending, Semaphore, Setup

\* A restart of the chip.
LEMMA RestartInits == SetColorWithoutMemory => Init'
BY DEF SetColorWithoutMemory, Init

LEMMA RestartKeeps == SetColorWithoutMemory => Inv'
BY RestartInits, InitInv, PTL

----------------------------------------------------------------------------
\* The steps of the task that touch neither the memory nor the transmitter.
LEMMA TaskKeeps ==
  ASSUME Inv, \/ \E n \in Counts : InitNeoPixel(n)
              \/ SetColor \/ Reset \/ CreateSemaphore \/ Take
              \/ DeleteSemaphore \/ NullSemaphore \/ Free
  PROVE  Inv'
<1> USE CountsAssumption, SlotsAssumption DEF Inv
<1>1. mem' = mem /\ tx_on' = tx_on /\ tx' = tx /\ handler' = handler /\ sent' = sent
      /\ tx_thr_event' = tx_thr_event /\ tx_end' = tx_end /\ ~tx_on'
  BY DEF InitNeoPixel, SetColor, Reset, CreateSemaphore, Take, DeleteSemaphore,
     NullSemaphore, Free, Step, copyVars, txVars, Pending, Semaphore, Lengths
<1>2. Typed'
  <2>1. PIXEL_COUNT' \in Nat /\ ws2812_len' \in Nat
    BY DEF InitNeoPixel, SetColor, Reset, CreateSemaphore, Take, DeleteSemaphore,
       NullSemaphore, Free, Step, Typed
  <2>2. pc' \in Steps /\ ws2812_pos' \in Nat /\ ws2812_half' \in Halves
    BY DEF InitNeoPixel, SetColor, Reset, CreateSemaphore, Take, DeleteSemaphore,
       NullSemaphore, Free, Step, copyVars, Typed, Steps, Halves
  <2> QED
    BY <1>1, <2>1, <2>2 DEF Typed
<1>3. Lengths'
  BY DEF InitNeoPixel, SetColor, Reset, CreateSemaphore, Take, DeleteSemaphore,
     NullSemaphore, Free, Step, Lengths, Typed
<1>4. Pending'
  BY <1>1 DEF InitNeoPixel, SetColor, Reset, CreateSemaphore, Take, DeleteSemaphore,
     NullSemaphore, Free, Step, Pending, Semaphore, Lengths
<1>5. Semaphore'
  BY <1>1 DEF InitNeoPixel, SetColor, Reset, CreateSemaphore, Take, DeleteSemaphore,
     NullSemaphore, Free, Step, Pending, Semaphore, Lengths
<1>6. Setup'
  BY <1>1 DEF InitNeoPixel, SetColor, Reset, CreateSemaphore, Take, DeleteSemaphore,
     NullSemaphore, Free, Step, copyVars, Setup, Ready, Filled, Cut, Lengths
<1> QED
  BY <1>1, <1>2, <1>3, <1>4, <1>5, <1>6

\* The two copies before the start.
LEMMA CopiesKeep ==
  ASSUME Inv, FirstCopy \/ SecondCopy
  PROVE  Inv'
<1> USE SlotsAssumption DEF Halves, Slots
<1>1. Typed /\ Lengths /\ Pending /\ Semaphore /\ Setup
  BY DEF Inv
<1>2. /\ UNCHANGED <<PIXEL_COUNT, handler, ws2812_buffer, ws2812_len, ws2812_sem,
                     tx_on, tx, tx_thr_event, tx_end, sent>>
      /\ pc \in {"copy1", "copy2"} /\ pc' \in {"copy2", "create"}
  BY DEF FirstCopy, SecondCopy, Step, txVars
<1>3. Lengths' /\ Pending' /\ Semaphore' /\ ~tx_on'
  BY <1>1, <1>2 DEF Lengths, Pending, Semaphore
<1>4. CASE FirstCopy
  <2>1. ws2812_pos = Cut(0) /\ ws2812_half = 0 /\ pc' = "copy2"
    BY <1>1, <1>4 DEF FirstCopy, Step, Setup, Cut, Typed
  <2>2. /\ mem' \in [Halves -> [Slots -> SlotType]]
        /\ \A s \in Slots : mem'[0][s] = At(0 + s, ws2812_len)
        /\ ws2812_half' = 1 /\ ws2812_pos' = Cut(0 + SLOTS) /\ ws2812_pos' \in Nat
    BY <1>1, <1>2, <1>4, <2>1, CopyEffect DEF FirstCopy
  <2>3. Typed'
    BY <1>1, <1>2, <2>1, <2>2 DEF Typed, Steps
  <2>4. Setup'
    BY <1>2, <2>1, <2>2 DEF Setup, Filled, Cut
  <2> QED
    BY <1>3, <2>3, <2>4 DEF Inv
<1>5. CASE SecondCopy
  <2>1. /\ Filled(0, 0) /\ ws2812_half = 1 /\ ws2812_pos = Cut(SLOTS)
        /\ pc' = "create" /\ ws2812_len # SLOTS
    BY <1>1, <1>5 DEF SecondCopy, Step, Setup, Lengths
  <2>2. CASE ws2812_pos < ws2812_len
    <3>1. /\ mem' \in [Halves -> [Slots -> SlotType]]
          /\ \A s \in Slots : mem'[1][s] = At(SLOTS + s, ws2812_len)
          /\ mem'[0] = mem[0]
          /\ ws2812_half' = 0 /\ ws2812_pos' = Cut(SLOTS + SLOTS) /\ ws2812_pos' \in Nat
      BY <1>1, <1>2, <1>5, <2>1, <2>2, CopyEffect DEF SecondCopy
    <3>2. Typed'
      BY <1>1, <1>2, <2>1, <3>1 DEF Typed, Steps
    <3>3. Filled(0, 0)' /\ Filled(1, SLOTS)'
      BY <1>2, <2>1, <3>1 DEF Filled
    <3>4. ws2812_pos' = Cut(2 * SLOTS)'
      BY <1>1, <1>2, <3>1 DEF Cut
    <3>5. Setup'
      BY <2>1, <3>1, <3>3, <3>4 DEF Setup, Ready
    <3> QED
      BY <1>3, <3>2, <3>5 DEF Inv
  <2>3. CASE ~(ws2812_pos < ws2812_len)
    <3>1. UNCHANGED copyVars /\ ws2812_len < SLOTS
      BY <1>1, <1>5, <2>1, <2>3 DEF SecondCopy, Cut, Typed
    <3>2. Typed'
      BY <1>1, <1>2, <2>1, <3>1 DEF Typed, Steps, copyVars
    <3>3. Setup'
      BY <1>1, <1>2, <2>1, <3>1 DEF Setup, Ready, Filled, Typed, copyVars
    <3> QED
      BY <1>3, <3>2, <3>3 DEF Inv
  <2> QED
    BY <2>2, <2>3
<1> QED
  BY <1>4, <1>5

LEMMA StartKeeps ==
  ASSUME Inv, Start
  PROVE  Inv'
<1> USE SlotsAssumption DEF Halves, Slots
<1>1. Typed /\ Lengths /\ Pending /\ Semaphore /\ Setup
  BY DEF Inv
<1>2. /\ pc = "start" /\ pc' = "take" /\ sent' = 0 /\ ~tx_thr_event
      /\ tx_on' = TRUE /\ tx' = [half |-> 0, slot |-> 0]
      /\ UNCHANGED <<PIXEL_COUNT, handler, ws2812_buffer, ws2812_len, ws2812_sem,
                     ws2812_pos, ws2812_half, mem, tx_thr_event, tx_end>>
  BY <1>1 DEF Start, Step, copyVars, Pending
<1>3. /\ tx_on' /\ tx'.half = 0 /\ tx'.slot = 0
      /\ tx' \in [half : Halves, slot : Slots]
  BY <1>2
<1>4. Typed'
  BY <1>1, <1>2, <1>3 DEF Typed, Steps
<1>5. Lengths' /\ Pending' /\ Semaphore' /\ Setup'
  BY <1>1, <1>2 DEF Lengths, Pending, Semaphore, Setup
<1>6. Walking'
  BY <1>1, <1>2, <1>3 DEF Setup, Ready, Walking, Filled, Cut, Typed, Lengths
<1> QED
  BY <1>4, <1>5, <1>6 DEF Inv

LEMMA SendKeeps ==
  ASSUME Inv, SendSlot
  PROVE  Inv'
<1> USE SlotsAssumption DEF Halves, Slots
<1>1. Typed /\ Lengths /\ Pending /\ Semaphore /\ Walking /\ tx_on /\ pc = "take"
  BY DEF Inv, SendSlot, Pending
<1>2. /\ UNCHANGED <<PIXEL_COUNT, pc, handler, ws2812_buffer, ws2812_len, ws2812_sem,
                     ws2812_pos, ws2812_half, mem, tx_on, tx_end>>
      /\ sent' = sent + 1
      /\ mem[tx.half][tx.slot] # Nothing
  BY DEF SendSlot, taskVars, copyVars
<1>3. tx.half \in Halves /\ tx.slot \in Slots /\ sent \in Nat /\ ws2812_len \in Nat
  BY <1>1 DEF Typed
<1> DEFINE base == sent - tx.slot
<1>4. base \in Nat /\ base + tx.slot = sent /\ sent < ws2812_len
  <2>1. base \in Nat /\ base + tx.slot = sent
    BY <1>1, <1>3 DEF Walking
  <2>2. mem[tx.half][tx.slot] = At(sent, ws2812_len)
    BY <1>1, <1>3, <2>1 DEF Walking, Filled
  <2> QED
    BY <1>2, <1>3, <2>1, <2>2, AtType
<1>5. Lengths' /\ Semaphore' /\ Setup'
  BY <1>1, <1>2, <1>4 DEF Lengths, Semaphore, Setup
<1>6. CASE tx.slot < SLOTS - 1
  <2>1. /\ tx' = [tx EXCEPT !.slot = tx.slot + 1]
        /\ tx_thr_event' = tx_thr_event
    BY <1>6 DEF SendSlot
  <2>2. /\ tx_on' /\ tx'.half = tx.half /\ tx'.slot = tx.slot + 1
        /\ tx' \in [half : Halves, slot : Slots]
    <3>1. tx \in [half : Halves, slot : Slots] /\ tx_on' = tx_on
      BY <1>1, <1>2 DEF Typed
    <3>2. tx.slot + 1 \in Slots
      BY <1>3, <1>6
    <3>3. tx' \in [half : Halves, slot : Slots]
      BY <2>1, <3>1, <3>2
    <3>4. tx'.half = tx.half /\ tx'.slot = tx.slot + 1
      BY <2>1, <3>1
    <3> QED
      BY <1>1, <3>1, <3>3, <3>4
  <2>3. Typed'
    BY <1>1, <1>2, <1>3, <2>1, <2>2 DEF Typed
  <2>4. Pending'
    BY <1>1, <1>2, <2>1 DEF Pending
  <2>5. sent' - tx'.slot = base /\ sent' <= ws2812_len
    BY <1>2, <1>3, <1>4, <2>2
  <2>6. Walking'
    BY <1>1, <1>2, <1>4, <2>1, <2>2, <2>5 DEF Walking, Filled, Cut
  <2> QED
    BY <1>5, <2>3, <2>4, <2>6 DEF Inv
<1>7. CASE ~(tx.slot < SLOTS - 1)
  <2>1. /\ tx' = [tx EXCEPT !.half = 1 - tx.half, !.slot = 0]
        /\ ~tx_thr_event /\ handler = "idle" /\ tx_thr_event' = TRUE
        /\ tx.slot = SLOTS - 1
    BY <1>3, <1>7 DEF SendSlot
  <2>2. /\ tx_on' /\ tx'.half = 1 - tx.half /\ tx'.slot = 0
        /\ tx' \in [half : Halves, slot : Slots]
    <3>1. tx \in [half : Halves, slot : Slots] /\ tx_on' = tx_on
      BY <1>1, <1>2 DEF Typed
    <3>2. 1 - tx.half \in Halves /\ 0 \in Slots
      BY <1>3
    <3>3. tx' \in [half : Halves, slot : Slots]
      BY <2>1, <3>1, <3>2
    <3>4. tx'.half = 1 - tx.half /\ tx'.slot = 0
      BY <2>1, <3>1
    <3> QED
      BY <1>1, <3>1, <3>3, <3>4
  <2>3. Typed'
    BY <1>1, <1>2, <1>3, <2>1, <2>2 DEF Typed
  <2>4. Pending'
    BY <1>1, <1>2, <2>1 DEF Pending
  <2>5. ws2812_len > SLOTS
    BY <1>1, <1>3, <1>4, <2>1 DEF Walking, Lengths
  <2>6. /\ sent' - tx'.slot = base + SLOTS /\ sent' <= ws2812_len
        /\ base + SLOTS \in Nat
    BY <1>2, <1>3, <1>4, <2>1, <2>2
  <2>7. /\ Filled(1 - tx.half, base + SLOTS)
        /\ ws2812_half = tx.half /\ ws2812_pos = Cut(base + 2 * SLOTS)
    BY <1>1, <2>1, <2>5 DEF Walking
  <2>8. Filled(tx.half, sent - tx.slot)'
    BY <1>2, <2>2, <2>6, <2>7 DEF Filled
  <2>9. /\ ws2812_half' = 1 - tx'.half
        /\ ws2812_pos' = Cut((base + SLOTS) + SLOTS)
    BY <1>2, <1>3, <1>4, <2>2, <2>7 DEF Cut
  <2>10. Walking'
    BY <1>2, <2>1, <2>2, <2>5, <2>6, <2>8, <2>9, <1>3 DEF Walking, Cut
  <2> QED
    BY <1>5, <2>3, <2>4, <2>10 DEF Inv
<1> QED
  BY <1>6, <1>7

LEMMA EndKeeps ==
  ASSUME Inv, EndOfTransmission
  PROVE  Inv'
<1> USE SlotsAssumption DEF Halves, Slots
<1>1. Typed /\ Lengths /\ Pending /\ Semaphore /\ Walking /\ tx_on /\ pc = "take"
  BY DEF Inv, EndOfTransmission, Pending
<1>2. /\ UNCHANGED <<PIXEL_COUNT, pc, handler, ws2812_buffer, ws2812_len, ws2812_sem,
                     ws2812_pos, ws2812_half, mem, tx_thr_event, sent>>
      /\ mem[tx.half][tx.slot] = Nothing
      /\ tx_on' = FALSE /\ tx' = tx /\ tx_end' = TRUE /\ handler # "clearEnd"
  BY DEF EndOfTransmission, taskVars, copyVars
<1>3. tx' \in [half : Halves, slot : Slots] /\ ~tx_on'
  BY <1>1, <1>2 DEF Typed
<1>4. sent = ws2812_len
  <2>1. mem[tx.half][tx.slot] = At(sent, ws2812_len)
    BY <1>1 DEF Walking, Filled, Typed
  <2> QED
    BY <1>1, <1>2, <2>1, AtType DEF Walking, Typed
<1>5. Typed'
  BY <1>1, <1>2, <1>3 DEF Typed
<1>6. Lengths' /\ Pending' /\ Semaphore' /\ Setup'
  BY <1>1, <1>2, <1>3, <1>4 DEF Lengths, Pending, Semaphore, Setup
<1> QED
  BY <1>3, <1>5, <1>6 DEF Inv

LEMMA RefillKeeps ==
  ASSUME Inv, InterruptThr
  PROVE  Inv'
<1> USE SlotsAssumption DEF Halves, Slots
<1>1. Typed /\ Lengths /\ Pending /\ Semaphore /\ pc = "take"
  BY DEF Inv, InterruptThr, Pending
<1>2. /\ UNCHANGED <<PIXEL_COUNT, pc, ws2812_buffer, ws2812_len, ws2812_sem, tx_on,
                     tx, tx_thr_event, tx_end, sent>>
      /\ handler = "idle" /\ handler' = "clearThr" /\ tx_thr_event /\ ws2812_copy
  BY DEF InterruptThr, taskVars, txVars
<1>3. Lengths' /\ Pending' /\ Semaphore' /\ Setup'
  BY <1>1, <1>2 DEF Lengths, Pending, Semaphore, Setup
<1>4. CASE ~tx_on
  <2>1. \A s \in Slots : At(ws2812_pos + s, ws2812_len) \in SlotType
    BY <1>1, AtType DEF Typed
  <2>2. /\ mem' \in [Halves -> [Slots -> SlotType]]
        /\ ws2812_half' \in Halves /\ ws2812_pos' \in Nat
    <3>1. mem \in [Halves -> [Slots -> SlotType]] /\ ws2812_half \in Halves
      BY <1>1 DEF Typed
    <3>2. mem' = [mem EXCEPT ![ws2812_half] =
                    [s \in Slots |-> At(ws2812_pos + s, ws2812_len)]]
      BY <1>2 DEF ws2812_copy
    <3>3. mem' \in [Halves -> [Slots -> SlotType]]
      BY <2>1, <3>1, <3>2
    <3>4. ws2812_half' \in Halves /\ ws2812_pos' \in Nat
      BY <1>1, <1>2 DEF Typed, ws2812_copy
    <3> QED
      BY <3>3, <3>4
  <2>3. Typed'
    BY <1>1, <1>2, <2>2 DEF Typed
  <2> QED
    BY <1>2, <1>3, <1>4, <2>3 DEF Inv
<1>5. CASE tx_on
  <2> DEFINE base == sent - tx.slot
  <2>1. Walking /\ base \in Nat /\ ws2812_len > SLOTS
    BY <1>1, <1>2, <1>5 DEF Inv, Walking, Lengths, Typed
  <2>2. ws2812_half = 1 - tx.half /\ ws2812_pos = Cut(base + SLOTS)
    BY <1>2, <2>1 DEF Walking
  <2>3. base + SLOTS \in Nat /\ tx.half \in Halves /\ tx.slot \in Slots
    BY <1>1, <2>1 DEF Typed
  <2>4. /\ mem' \in [Halves -> [Slots -> SlotType]]
        /\ \A s \in Slots : mem'[1 - tx.half][s] = At((base + SLOTS) + s, ws2812_len)
        /\ mem'[tx.half] = mem[tx.half]
        /\ ws2812_half' = tx.half /\ ws2812_half' \in Halves
        /\ ws2812_pos' = Cut(base + SLOTS + SLOTS) /\ ws2812_pos' \in Nat
    <3>1. /\ mem' \in [Halves -> [Slots -> SlotType]]
          /\ \A s \in Slots :
               mem'[ws2812_half][s] = At((base + SLOTS) + s, ws2812_len)
          /\ mem'[1 - ws2812_half] = mem[1 - ws2812_half]
          /\ ws2812_half' = 1 - ws2812_half /\ ws2812_half' \in Halves
          /\ ws2812_pos' = Cut((base + SLOTS) + SLOTS) /\ ws2812_pos' \in Nat
      BY <1>1, <1>2, <2>2, <2>3, CopyEffect
    <3>2. 1 - (1 - tx.half) = tx.half
      BY <2>3
    <3> QED
      BY <2>2, <3>1, <3>2
  <2>5. Typed'
    BY <1>1, <1>2, <2>4 DEF Typed
  <2>6. Filled(tx.half, base)' /\ Filled(1 - tx.half, base + SLOTS)'
    BY <1>2, <2>1, <2>4 DEF Walking, Filled
  <2>7. ws2812_pos' = Cut(base + 2 * SLOTS)'
    BY <1>2, <2>1, <2>4 DEF Cut
  <2>8. Walking'
    BY <1>2, <2>1, <2>4, <2>6, <2>7 DEF Walking
  <2> QED
    BY <1>3, <2>5, <2>8 DEF Inv
<1> QED
  BY <1>4, <1>5

LEMMA HandlerKeeps ==
  ASSUME Inv, ClearThr \/ InterruptEnd \/ ClearEnd
  PROVE  Inv'
<1>1. Typed /\ Lengths /\ Pending /\ Semaphore /\ Setup
  BY DEF Inv
<1>2. UNCHANGED <<PIXEL_COUNT, pc, ws2812_buffer, ws2812_len, ws2812_pos, ws2812_half,
                  mem, tx_on, tx, sent>>
  BY DEF ClearThr, InterruptEnd, ClearEnd, taskVars, copyVars, txVars
<1>3. Typed'
  BY <1>1, <1>2 DEF ClearThr, InterruptEnd, ClearEnd, txVars, Typed
<1>4. Lengths'
  BY <1>1, <1>2 DEF Lengths
<1>5. Pending'
  BY <1>1, <1>2 DEF ClearThr, InterruptEnd, ClearEnd, txVars, Pending
<1>6. Semaphore'
  BY <1>1, <1>2 DEF ClearThr, InterruptEnd, ClearEnd, txVars, Semaphore, Pending
<1>7. Setup'
  BY <1>1, <1>2 DEF Setup, Ready, Filled, Cut
<1>8. tx_on => Walking'
  BY <1>1, <1>2 DEF ClearThr, InterruptEnd, ClearEnd, txVars, Inv, Walking, Filled, Cut,
     Pending
<1> QED
  BY <1>2, <1>3, <1>4, <1>5, <1>6, <1>7, <1>8 DEF Inv

LEMMA StepInv ==
  ASSUME Inv, [Next]_vars
  PROVE  Inv'
<1>1. CASE UNCHANGED vars
  BY <1>1 DEF vars, taskVars, copyVars, txVars, Inv, Typed, Lengths, Pending, Semaphore,
     Setup, Ready, Walking, Filled, Cut
<1>2. CASE Next
  BY <1>2, RestartKeeps, TaskKeeps, CopiesKeep, StartKeeps, SendKeeps, EndKeeps,
     RefillKeeps, HandlerKeeps DEF Next, Task, Transmitter, Interrupt
<1> QED
  BY <1>1, <1>2

\* The strip receives the bytes of the buffer, each once and in order, and
\* the end behind the last one.
THEOREM SendsTheBuffer == Spec => []NextByteReady
<1>1. Inv => NextByteReady
  <2> SUFFICES ASSUME Inv, tx_on PROVE mem[tx.half][tx.slot] = At(sent, ws2812_len)
    BY DEF NextByteReady
  <2>1. tx.slot \in Slots /\ sent \in Nat
    BY DEF Inv, Typed
  <2>2. (sent - tx.slot) + tx.slot = sent
    BY SlotsAssumption, <2>1 DEF Slots
  <2> QED
    BY <2>1, <2>2 DEF Inv, Walking, Filled
<1> QED
  BY <1>1, InitInv, StepInv, PTL DEF Spec

\* The interrupt handler works only for the call that sleeps.
THEOREM HandlerIsInsideCall == Spec => []HandlerInsideCall
<1>1. Inv => HandlerInsideCall
  BY DEF Inv, Lengths, Pending, Semaphore, HandlerInsideCall
<1> QED
  BY <1>1, InitInv, StepInv, PTL DEF Spec

----------------------------------------------------------------------------
(* The type invariant says more than Typed: the memory holds only bytes of  *)
(* the buffer as long as the buffer has its length, so that length changes  *)
(* once after a start of the chip, from 0.                                  *)

Content(len) == {Junk, Nothing} \cup {Byte(n, len) : n \in 0 .. len}

Ranged == /\ ws2812_buffer \in BOOLEAN
          /\ ws2812_sem \in {"null", "empty", "given", "deleted"}
          /\ ws2812_len \in {0, 3 * PIXEL_COUNT}
          /\ pc # "idle" => ws2812_len = 3 * PIXEL_COUNT
          /\ ws2812_pos <= ws2812_len /\ sent <= ws2812_len
          /\ mem \in [Halves -> [Slots -> Content(ws2812_len)]]

LEMMA AtContent == ASSUME NEW n \in Nat, NEW len \in Nat
                   PROVE  At(n, len) \in Content(len)
<1>1. CASE n < len
  BY <1>1 DEF At, Content
<1>2. CASE ~(n < len)
  BY <1>2 DEF At, Content
<1> QED
  BY <1>1, <1>2

\* Of a buffer that is not allocated yet the memory holds nothing.
LEMMA ContentGrows == ASSUME NEW n \in Nat \ {0}
                      PROVE  Content(0) \subseteq Content(3 * n)
<1>1. Byte(0, 0) = Byte(0, 3 * n)
  BY DEF Byte
<1>2. 0 \in 0 .. 3 * n /\ 0 .. 0 = {0}
  OBVIOUS
<1> QED
  BY <1>1, <1>2 DEF Content

LEMMA CopyRanged ==
  ASSUME Typed, Ranged, ws2812_copy, UNCHANGED ws2812_len
  PROVE  /\ mem' \in [Halves -> [Slots -> Content(ws2812_len)]]
         /\ ws2812_pos' <= ws2812_len'
<1> USE SlotsAssumption DEF Halves, Slots
<1>1. /\ ws2812_len \in Nat /\ ws2812_pos \in Nat /\ ws2812_half \in Halves
      /\ mem \in [Halves -> [Slots -> Content(ws2812_len)]]
  BY DEF Typed, Ranged
<1>2. \A s \in Slots : At(ws2812_pos + s, ws2812_len) \in Content(ws2812_len)
  BY <1>1, AtContent
<1>3. mem' = [mem EXCEPT ![ws2812_half] =
                [s \in Slots |-> At(ws2812_pos + s, ws2812_len)]]
  BY DEF ws2812_copy
<1>4. mem' \in [Halves -> [Slots -> Content(ws2812_len)]]
  BY <1>1, <1>2, <1>3
<1>5. ws2812_pos' <= ws2812_len'
  BY <1>1 DEF ws2812_copy
<1> QED
  BY <1>4, <1>5

LEMMA InitRanged == Init => Ranged
<1> SUFFICES ASSUME Init PROVE Ranged
  OBVIOUS
<1>1. Junk \in Content(ws2812_len)
  BY DEF Content
<1>2. mem \in [Halves -> [Slots -> Content(ws2812_len)]]
  BY <1>1 DEF Init
<1>3. ws2812_buffer \in BOOLEAN
  BY Zenon DEF Init
<1>4. /\ ws2812_sem = "null" /\ pc = "idle"
      /\ ws2812_len = 0 /\ ws2812_pos = 0 /\ sent = 0
  BY DEF Init
<1> QED
  BY <1>2, <1>3, <1>4 DEF Ranged

LEMMA RestartRanged == SetColorWithoutMemory => Ranged'
BY RestartInits, InitRanged, PTL

LEMMA StepRanged ==
  ASSUME Inv, Ranged, [Next]_vars
  PROVE  Ranged'
<1>1. Typed /\ Lengths /\ Pending /\ Semaphore
  BY DEF Inv
<1>2. ASSUME NEW n \in Counts, InitNeoPixel(n) PROVE Ranged'
  BY <1>1, <1>2, CountsAssumption DEF InitNeoPixel, copyVars, txVars, Ranged, Lengths
<1>3. CASE SetColor
  <2>1. /\ pc = "idle" /\ PIXEL_COUNT \in Nat \ {0}
        /\ UNCHANGED <<PIXEL_COUNT, ws2812_pos, mem, ws2812_sem, sent>>
        /\ ws2812_len' = 3 * PIXEL_COUNT /\ ws2812_buffer' = TRUE
    BY <1>1, <1>3 DEF SetColor, Step, copyVars, txVars, Typed
  <2>2. ws2812_pos' <= ws2812_len' /\ sent' <= ws2812_len'
    BY <1>1, <2>1 DEF Ranged, Typed
  <2>3. Content(ws2812_len) \subseteq Content(ws2812_len')
    BY <2>1, ContentGrows DEF Ranged
  <2>4. mem' \in [Halves -> [Slots -> Content(ws2812_len')]]
    BY <2>1, <2>3 DEF Ranged
  <2> QED
    BY <2>1, <2>2, <2>4 DEF Ranged
<1>4. CASE FirstCopy \/ (SecondCopy /\ ws2812_pos < ws2812_len)
  <2>1. /\ ws2812_copy /\ pc # "idle"
        /\ UNCHANGED <<PIXEL_COUNT, ws2812_buffer, ws2812_len, ws2812_sem, sent>>
    BY <1>4 DEF FirstCopy, SecondCopy, Step, txVars
  <2> QED
    BY <1>1, <2>1, CopyRanged DEF Ranged
<1>5. CASE InterruptThr
  <2>1. /\ ws2812_copy
        /\ UNCHANGED <<PIXEL_COUNT, pc, ws2812_buffer, ws2812_len, ws2812_sem, sent>>
    BY <1>5 DEF InterruptThr, taskVars, txVars
  <2> QED
    BY <1>1, <2>1, CopyRanged DEF Ranged
<1>6. CASE SendSlot
  <2>1. /\ mem[tx.half][tx.slot] # Nothing /\ sent' = sent + 1 /\ Walking
        /\ UNCHANGED <<taskVars, copyVars, ws2812_sem>>
    BY <1>6 DEF SendSlot, Inv
  <2>2. tx.half \in Halves /\ tx.slot \in Slots /\ sent \in Nat /\ ws2812_len \in Nat
    BY <1>1 DEF Typed
  <2>3. (sent - tx.slot) + tx.slot = sent
    BY SlotsAssumption, <2>2 DEF Slots
  <2>4. mem[tx.half][tx.slot] = At(sent, ws2812_len)
    BY <2>1, <2>2, <2>3 DEF Walking, Filled
  <2>5. sent + 1 <= ws2812_len
    BY <2>1, <2>2, <2>4, AtType
  <2> QED
    BY <2>1, <2>5 DEF Ranged, taskVars, copyVars
<1>7. CASE Reset \/ Start
  BY <1>1, <1>7 DEF Reset, Start, Step, copyVars, txVars, Ranged, Typed
<1>8. CASE \/ SecondCopy /\ ~(ws2812_pos < ws2812_len)
           \/ CreateSemaphore \/ Take \/ DeleteSemaphore \/ NullSemaphore \/ Free
  BY <1>8 DEF SecondCopy, CreateSemaphore, Take, DeleteSemaphore, NullSemaphore, Free,
     Step, copyVars, txVars, Ranged
<1>9. CASE EndOfTransmission \/ ClearThr \/ InterruptEnd \/ ClearEnd
  BY <1>9 DEF EndOfTransmission, ClearThr, InterruptEnd, ClearEnd, taskVars, copyVars,
     txVars, Ranged
<1>10. CASE UNCHANGED vars
  BY <1>10 DEF vars, taskVars, copyVars, txVars, Ranged
<1> QED
  BY RestartRanged, <1>2, <1>3, <1>4, <1>5, <1>6, <1>7, <1>8, <1>9, <1>10
     DEF Next, Task, Transmitter, Interrupt

\* Every variable keeps its type: the position and the number of bytes sent
\* never pass the length of the buffer, and the memory holds nothing but bytes
\* of a buffer of that length, ends and what it held at power-on.
THEOREM TypeCorrect == Spec => []TypeOK
<1>1. Inv /\ Ranged => TypeOK
  <2> SUFFICES ASSUME Inv, Ranged PROVE TypeOK
    OBVIOUS
  <2>1. Typed /\ Lengths
    BY DEF Inv
  <2>2. /\ PIXEL_COUNT \in Counts \cup {0} /\ pc \in Steps /\ ws2812_half \in Halves
        /\ tx_on \in BOOLEAN /\ tx \in [half : Halves, slot : Slots]
        /\ tx_thr_event \in BOOLEAN /\ tx_end \in BOOLEAN
        /\ handler \in {"idle", "clearThr", "clearEnd"}
    BY <2>1 DEF Typed, Lengths
  <2>3. ws2812_pos \in 0 .. ws2812_len /\ sent \in 0 .. ws2812_len
    BY <2>1 DEF Typed, Ranged
  <2>4. mem \in [Halves -> [Slots -> {Junk, Nothing} \cup
                                     {Byte(n, ws2812_len) : n \in 0 .. ws2812_len}]]
    BY DEF Ranged, Content
  <2> QED
    BY <2>2, <2>3, <2>4 DEF Ranged, TypeOK
<1>2. Inv /\ Ranged /\ [Next]_vars => Inv' /\ Ranged'
  BY StepInv, StepRanged
<1> QED
  BY <1>1, <1>2, InitInv, InitRanged, PTL DEF Spec

----------------------------------------------------------------------------
(* The strip of the Raspberry Pi.                                          *)

Bytes == 0 .. 255
Pixel == [r : Bytes, g : Bytes, b : Bytes]

\* The bits of the first numLEDs pixels are set in the words of the sample.
Sampled == \A w \in Nat, x \in 0 .. 31 : 32 * w + x < 72 * numLEDs =>
             (x \in sample[w] <=> Pi!WireBit(LEDBuffer, 32 * w + x) = 1)
\* What was sent are these bits, in their order.
SentSoFar == /\ wire \in Seq({0, 1})
             /\ Len(wire) = 32 * (length - dma)
             /\ \A p \in Nat : p < 72 * numLEDs /\ p < Len(wire) =>
                  wire[p + 1] = Pi!WireBit(LEDBuffer, p)

PiTyped ==
  /\ numLEDs \in Nat /\ brightness_global \in 0 .. 100
  /\ pi_pc \in {"off", "idle", "show", "sleep", "undefined"}
  /\ length \in 0 .. NUM_DATA_WORDS /\ slept \in 0 .. NUM_DATA_WORDS
  /\ LEDBuffer \in Seq(Pixel)
  /\ Len(LEDBuffer) \in PiCounts \cup {0}

\* The words cover the strip, and set_color goes on only with a number of LEDs
\* that the buffer has.
Covers == /\ pi_pc = "off" => wire = <<>>
          /\ pi_pc # "off" => length = Pi!DmaWords(numLEDs)
          /\ pi_pc \in {"show", "sleep"} \/ wire # <<>> => numLEDs <= Len(LEDBuffer)

\* The transfer keeps pace with the sleep.
Transfer ==
  pi_pc = "sleep" \/ (pi_pc = "idle" /\ wire # <<>>) =>
    /\ dma = IF slept < length THEN length - slept ELSE 0
    /\ Sampled /\ SentSoFar
    /\ pi_pc = "idle" => slept = NUM_DATA_WORDS

PiInv == PiTyped /\ Covers /\ Transfer

LEMMA BitIsBit == ASSUME NEW x \in Bytes, NEW j \in 0 .. 7
                  PROVE  Pi!Bit(x, j) \in {0, 1}
<1>1. j \in {0, 1, 2, 3, 4, 5, 6, 7}
  OBVIOUS
<1>2. \A y \in Nat : y % 2 \in {0, 1}
  OBVIOUS
<1> QED BY <1>1, <1>2 DEF Pi!Bit, Bytes

\* The eight bits of a byte make the byte.
LEMMA BitsMakeByte ==
  ASSUME NEW x \in Bytes
  PROVE  Pi!Bit(x, 0) * 2^0 + Pi!Bit(x, 1) * 2^1 + Pi!Bit(x, 2) * 2^2
         + Pi!Bit(x, 3) * 2^3 + Pi!Bit(x, 4) * 2^4 + Pi!Bit(x, 5) * 2^5
         + Pi!Bit(x, 6) * 2^6 + Pi!Bit(x, 7) * 2^7 = x
BY DEF Pi!Bit, Bytes

LEMMA Split == ASSUME NEW p \in Nat
               PROVE  /\ p \div 72 \in Nat /\ p % 72 \in 0 .. 71
                      /\ p = 72 * (p \div 72) + (p % 72)
                      /\ (p % 72) \div 3 \in 0 .. 23 /\ p % 3 \in {0, 1, 2}
OBVIOUS

LEMMA InWords == ASSUME NEW p \in Nat
               PROVE  p \div 32 \in Nat /\ p % 32 \in 0 .. 31 /\ p = 32 * (p \div 32) + (p % 32)
OBVIOUS

LEMMA DimmedByte == ASSUME NEW x \in Bytes, NEW y \in 0 .. 100
                    PROVE  (x * y) \div 100 \in Bytes
<1>1. x * y <= 255 * 100 /\ x * y \in Nat
  BY DEF Bytes
<1> QED BY <1>1 DEF Bytes

LEMMA EnoughWords ==
  ASSUME NEW n \in PiCounts \cup {0}, NEW leds \in 0 .. n
  PROVE  /\ Pi!DmaWords(leds) \in 0 .. NUM_DATA_WORDS
         /\ 72 * leds <= 32 * Pi!DmaWords(leds)
<1>1. 32 * ((9 * leds + 4) \div 4) >= 72 * leds /\ (9 * leds + 4) \div 4 \in Nat
  OBVIOUS
<1>2. n \in Nat /\ 72 * n <= 32 * NUM_DATA_WORDS /\ NUM_DATA_WORDS \in Nat
  BY StripAssumption
<1> QED BY <1>1, <1>2 DEF Pi!DmaWords

LEMMA WireBitIsBit ==
  ASSUME NEW leds \in Seq(Pixel), NEW p \in Nat, p < 72 * Len(leds)
  PROVE  Pi!WireBit(leds, p) \in {0, 1}
<1> DEFINE k == p \div 72
           i == (p % 72) \div 3
           j == 23 - i
<1>1. k \in Nat /\ k < Len(leds) /\ i \in 0 .. 23 /\ p % 3 \in {0, 1, 2}
  BY Split
<1>2. leds[1 + k] \in Pixel
  BY <1>1
<1>3. ASSUME NEW c \in Pixel PROVE Pi!ColorBit(c, j) \in {0, 1}
  <2>1. c.r \in Bytes /\ c.g \in Bytes /\ c.b \in Bytes
    BY DEF Pixel
  <2> HIDE DEF i
  <2>2. CASE j >= 16
    BY <1>1, <2>1, <2>2, BitIsBit DEF Pi!ColorBit
  <2>3. CASE j < 16 /\ j >= 8
    BY <1>1, <2>1, <2>3, BitIsBit DEF Pi!ColorBit
  <2>4. CASE j < 8
    BY <1>1, <2>1, <2>4, BitIsBit DEF Pi!ColorBit
  <2> QED BY <1>1, <2>2, <2>3, <2>4
<1>4. Pi!ColorBit(leds[1 + k], j) \in {0, 1}
  BY <1>2, <1>3
<1>5. Pi!WireBit(leds, p) = CASE p % 3 = 0 -> 1
                              [] p % 3 = 1 -> Pi!ColorBit(leds[1 + k], j)
                              [] p % 3 = 2 -> 0
  BY DEF Pi!WireBit
<1> HIDE DEF k, i, j
<1> QED BY <1>1, <1>4, <1>5


----------------------------------------------------------------------------
\* The second of the three wire bits for bit j of colour c of pixel k, 0 the green,
\* 1 the red and 2 the blue colour.
SecondBit(k, c, j) == 72 * (k - 1) + 3 * (8 * c + 7 - j) + 1
ColorOf(led, c) == IF c = 0 THEN led.g ELSE IF c = 1 THEN led.r ELSE led.b

LEMMA SecondOfThree ==
  ASSUME NEW leds \in Seq(Pixel), NEW k \in 1 .. Len(leds), NEW c \in 0 .. 2,
         NEW j \in 0 .. 7
  PROVE  Pi!WireBit(leds, SecondBit(k, c, j)) = Pi!Bit(ColorOf(leds[k], c), j)
<1> DEFINE i == 8 * c + 7 - j
           p == SecondBit(k, c, j)
<1>1. i \in 0 .. 23 /\ k - 1 \in Nat
  OBVIOUS
<1>2. p = 72 * (k - 1) + 3 * i + 1
  BY DEF SecondBit
<1>3. 23 - i = 16 - 8 * c + j
  OBVIOUS
<1> HIDE DEF i, p
<1>4. p \in Nat /\ p \div 72 = k - 1 /\ (p % 72) \div 3 = i /\ p % 3 = 1
  <2> DEFINE m == k - 1
  <2>1. m \in Nat /\ p = 72 * m + 3 * i + 1
    BY <1>1, <1>2
  <2> HIDE DEF m
  <2>2. p \in Nat /\ p \div 72 = m /\ (p % 72) \div 3 = i /\ p % 3 = 1
    BY <1>1, <2>1
  <2> QED BY <2>2 DEF m
<1>5. Pi!WireBit(leds, p) = Pi!ColorBit(leds[k], 23 - i)
  <2>1. 1 + p \div 72 = k
    BY <1>4
  <2> QED BY <1>4, <2>1 DEF Pi!WireBit
<1>6. c \in {0, 1, 2}
  OBVIOUS
<1>7. CASE c = 0
  <2>1. 23 - i >= 16 /\ 23 - i - 16 = j
    BY <1>3, <1>7
  <2> QED BY <1>4, <1>5, <1>7, <2>1 DEF p, Pi!ColorBit, ColorOf
<1>8. CASE c = 1
  <2>1. 23 - i < 16 /\ 23 - i >= 8 /\ 23 - i - 8 = j
    BY <1>3, <1>8
  <2>2. ~(23 - i >= 16)
    BY <2>1, <1>1
  <2> QED BY <1>4, <1>5, <1>8, <2>1, <2>2 DEF p, Pi!ColorBit, ColorOf
<1>9. CASE c = 2
  <2>1. 23 - i = j
    BY <1>3, <1>9
  <2>2. ~(23 - i >= 16) /\ ~(23 - i >= 8)
    BY <2>1, <1>1
  <2> QED BY <1>4, <1>5, <1>9, <2>1, <2>2 DEF p, Pi!ColorBit, ColorOf
<1> QED BY <1>6, <1>7, <1>8, <1>9

\* A strip that gets the wire bits of leds shows them.
LEMMA StripDecodes ==
  ASSUME NEW leds \in Seq(Pixel), NEW bits, NEW k \in 1 .. Len(leds),
         \A p \in 72 * (k - 1) .. 72 * k - 1 : bits[p + 1] = Pi!WireBit(leds, p)
  PROVE  Pi!Received(bits, k) = leds[k]
<1> DEFINE at(c, j) == bits[72 * (k - 1) + 3 * (8 * c + 7 - j) + 2] * 2^j
           byte(c) == at(c,0) + at(c,1) + at(c,2) + at(c,3) + at(c,4) + at(c,5) + at(c,6)
                      + at(c,7)
           of(c) == ColorOf(leds[k], c)
<1>1. leds[k] \in Pixel
  OBVIOUS
<1>2. \A c \in 0 .. 2 : of(c) \in Bytes
  BY <1>1 DEF Pixel, ColorOf
<1>3. ASSUME NEW c \in 0 .. 2, NEW j \in 0 .. 7
      PROVE  at(c, j) = Pi!Bit(of(c), j) * 2^j
  <2>1. SecondBit(k, c, j) \in 72 * (k - 1) .. 72 * k - 1
    BY DEF SecondBit
  <2>2. SecondBit(k, c, j) + 1 = 72 * (k - 1) + 3 * (8 * c + 7 - j) + 2
    BY DEF SecondBit
  <2>3. bits[72 * (k - 1) + 3 * (8 * c + 7 - j) + 2] = Pi!WireBit(leds, SecondBit(k, c, j))
    BY <2>1, <2>2
  <2> QED BY <2>3, SecondOfThree
<1>4. ASSUME NEW c \in 0 .. 2
      PROVE  byte(c) = of(c)
  <2>1. byte(c) = Pi!Bit(of(c), 0) * 2^0 + Pi!Bit(of(c), 1) * 2^1 + Pi!Bit(of(c), 2) * 2^2
         + Pi!Bit(of(c), 3) * 2^3 + Pi!Bit(of(c), 4) * 2^4 + Pi!Bit(of(c), 5) * 2^5
         + Pi!Bit(of(c), 6) * 2^6 + Pi!Bit(of(c), 7) * 2^7
    <3> HIDE DEF at, of
    <3> QED BY <1>3
  <2> HIDE DEF byte, of
  <2> QED BY <1>2, <2>1, BitsMakeByte
<1>5. Pi!Received(bits, k) = [g |-> byte(0), r |-> byte(1), b |-> byte(2)]
  BY DEF Pi!Received
<1>6. byte(0) = leds[k].g /\ byte(1) = leds[k].r /\ byte(2) = leds[k].b
  <2> HIDE DEF byte
  <2> QED BY <1>4 DEF ColorOf
<1> HIDE DEF byte
<1> QED BY <1>1, <1>5, <1>6 DEF Pixel


----------------------------------------------------------------------------
LEMMA StripInit == Pi!Init => PiInv
BY StripAssumption DEF Pi!Init, PiInv, PiTyped, Covers, Transfer

LEMMA StripSetup ==
  ASSUME PiInv, NEW n \in PiCounts, Pi!init(n)
  PROVE  PiInv'
<1>1. n \in Nat /\ LEDBuffer' \in Seq(Pixel) /\ Len(LEDBuffer') = n
  BY StripAssumption DEF Pi!init, Pi!Black, Pixel, Bytes
<1>2. Pi!DmaWords(numLEDs) \in 0 .. NUM_DATA_WORDS
  BY StripAssumption DEF PiInv, PiTyped, Pi!DmaWords
<1>3. PiTyped'
  BY <1>1, <1>2 DEF PiInv, PiTyped, Pi!init
<1>4. Covers' /\ Transfer'
  <2>1. wire = <<>> /\ wire' = <<>> /\ pi_pc' = "idle" /\ numLEDs' = numLEDs
        /\ length' = Pi!DmaWords(numLEDs)
    BY DEF PiInv, Covers, Pi!init
  <2>2. Pi!DmaWords(numLEDs)' = Pi!DmaWords(numLEDs')
    BY DEF Pi!DmaWords
  <2> QED BY <2>1, <2>2 DEF Covers, Transfer
<1> QED BY <1>3, <1>4 DEF PiInv

\* Sampled and SentSoFar only depend on these variables.
LEMMA SampledSame ==
  ASSUME LEDBuffer' = LEDBuffer, numLEDs' = numLEDs, sample' = sample, Sampled
  PROVE  Sampled'
<1>1. \A p : Pi!WireBit(LEDBuffer, p)' = Pi!WireBit(LEDBuffer', p)
  BY DEF Pi!WireBit, Pi!ColorBit, Pi!Bit
<1> QED BY <1>1 DEF Sampled

LEMMA SentSame ==
  ASSUME LEDBuffer' = LEDBuffer, numLEDs' = numLEDs, length' = length, dma' = dma,
         wire' = wire, SentSoFar
  PROVE  SentSoFar'
<1>1. \A p : Pi!WireBit(LEDBuffer, p)' = Pi!WireBit(LEDBuffer', p)
  BY DEF Pi!WireBit, Pi!ColorBit, Pi!Bit
<1> QED BY <1>1 DEF SentSoFar

LEMMA StripCall ==
  ASSUME PiInv, NEW index \in DOMAIN LEDBuffer, NEW color \in Pi!Colors,
         Pi!set_color(index, color)
  PROVE  PiInv'
<1>1. color \in Pixel
  <2>1. color \in [r : Channel, g : Channel, b : Channel] /\ Channel \subseteq Bytes
    BY StripAssumption DEF Pi!Colors, Bytes
  <2> HIDE DEF Bytes
  <2> QED BY <2>1 DEF Pixel
<1>2. LEDBuffer' \in Seq(Pixel) /\ Len(LEDBuffer') = Len(LEDBuffer)
  BY <1>1 DEF PiInv, PiTyped, Pi!set_color
<1>3. PiTyped'
  BY <1>2 DEF PiInv, PiTyped, Pi!set_color
<1>4. Covers'
  BY <1>2 DEF PiInv, PiTyped, Covers, Pi!set_color, Pi!DmaWords
<1>5. Transfer'
  BY DEF Transfer, Pi!set_color
<1> QED BY <1>3, <1>4, <1>5 DEF PiInv

LEMMA StripShow == ASSUME PiInv, Pi!Show PROVE PiInv'
<1>1. numLEDs \in Nat /\ numLEDs <= Len(LEDBuffer) /\ length = Pi!DmaWords(numLEDs)
      /\ LEDBuffer \in Seq(Pixel) /\ Len(LEDBuffer) \in PiCounts \cup {0}
      /\ length \in 0 .. NUM_DATA_WORDS /\ NUM_DATA_WORDS \in Nat
  BY StripAssumption DEF PiInv, PiTyped, Covers, Pi!Show
<1>2. LEDBuffer' \in Seq(Pixel) /\ Len(LEDBuffer') = Len(LEDBuffer)
  <2>1. \A c \in Pixel : Pi!Dimmed(c) \in Pixel
    BY DimmedByte DEF Pi!Dimmed, Pixel, PiInv, PiTyped
  <2>2. DOMAIN LEDBuffer = 1 .. Len(LEDBuffer) /\ Len(LEDBuffer) \in Nat
    BY <1>1
  <2>3. \A k \in 1 .. Len(LEDBuffer) : LEDBuffer[k] \in Pixel
    BY <1>1
  <2>4. LEDBuffer' = [k \in 1 .. Len(LEDBuffer) |->
                        IF k <= numLEDs THEN Pi!Dimmed(LEDBuffer[k]) ELSE LEDBuffer[k]]
    BY <2>2 DEF Pi!Show
  <2> QED BY <2>1, <2>2, <2>3, <2>4
<1>3. PiTyped'
  BY <1>1, <1>2 DEF PiInv, PiTyped, Pi!Show
<1>4. Covers'
  BY <1>1, <1>2 DEF PiInv, Covers, Pi!Show, Pi!DmaWords
<1>5. 72 * numLEDs <= 32 * length
  <2>1. Len(LEDBuffer) \in Nat /\ numLEDs \in 0 .. Len(LEDBuffer)
    BY <1>1
  <2> QED BY <1>1, <2>1, EnoughWords
<1>6. Sampled'
  <2>0. /\ numLEDs' = numLEDs
        /\ \A p : Pi!WireBit(LEDBuffer, p)' = Pi!WireBit(LEDBuffer', p)
    BY DEF Pi!Show, Pi!WireBit, Pi!ColorBit, Pi!Bit
  <2> SUFFICES ASSUME NEW w \in Nat, NEW x \in 0 .. 31, 32 * w + x < 72 * numLEDs
               PROVE  x \in sample'[w] <=> Pi!WireBit(LEDBuffer', 32 * w + x) = 1
    BY <2>0 DEF Sampled
  <2>1. w < length /\ w \in Pi!Words
    BY <1>1, <1>5 DEF Pi!Words
  <2>2. sample'[w] = PWMWaveform'[w]
    BY <2>1 DEF Pi!Show
  <2>3. PWMWaveform' = Pi!Encoded(PWMWaveform, LEDBuffer', numLEDs)
    BY DEF Pi!Show
  <2> QED BY <2>1, <2>2, <2>3 DEF Pi!Encoded
<1>7. Transfer'
  <2>1. dma' = length /\ slept' = 0 /\ wire' = <<>> /\ length' = length /\ pi_pc' = "sleep"
    BY DEF Pi!Show
  <2>2. SentSoFar'
    BY <1>1, <2>1 DEF SentSoFar
  <2> QED BY <1>1, <1>6, <2>1, <2>2 DEF Transfer
<1> QED BY <1>3, <1>4, <1>7 DEF PiInv

LEMMA Joined ==
  ASSUME NEW s \in Seq({0, 1}), NEW t \in Seq({0, 1})
  PROVE  /\ s \o t \in Seq({0, 1})
         /\ Len(s \o t) = Len(s) + Len(t) /\ Len(s) \in Nat
         /\ \A i \in 1 .. Len(t) : (s \o t)[Len(s) + i] = t[i]
OBVIOUS

LEMMA StripSend == ASSUME PiInv, Pi!Send PROVE PiInv'
<1>1. /\ dma = IF slept < length THEN length - slept ELSE 0
      /\ Sampled /\ wire \in Seq({0, 1}) /\ Len(wire) = 32 * (length - dma)
      /\ \A p \in Nat : p < 72 * numLEDs /\ p < Len(wire) =>
                  wire[p + 1] = Pi!WireBit(LEDBuffer, p)
      /\ numLEDs \in Nat /\ numLEDs <= Len(LEDBuffer) /\ LEDBuffer \in Seq(Pixel)
      /\ length \in 0 .. NUM_DATA_WORDS /\ slept \in 0 .. NUM_DATA_WORDS
      /\ NUM_DATA_WORDS \in Nat
  BY StripAssumption DEF PiInv, PiTyped, Covers, Transfer, SentSoFar, Pi!Send
<1>2. /\ LEDBuffer' = LEDBuffer /\ numLEDs' = numLEDs /\ sample' = sample
      /\ length' = length /\ slept' = slept + 1 /\ slept < NUM_DATA_WORDS
      /\ pi_pc = "sleep" /\ pi_pc' = "sleep"
      /\ brightness_global' = brightness_global
  BY DEF Pi!Send
<1>3. PiTyped'
  BY <1>1, <1>2 DEF PiInv, PiTyped
<1>4. Covers'
  BY <1>1, <1>2 DEF PiInv, Covers, Pi!DmaWords
<1>5. Sampled'
  BY <1>1, <1>2, SampledSame
<1>6. \A p : Pi!WireBit(LEDBuffer, p)' = Pi!WireBit(LEDBuffer', p)
  BY DEF Pi!WireBit, Pi!ColorBit, Pi!Bit
<1>7. CASE dma = 0
  <2>1. dma' = 0 /\ wire' = wire
    BY <1>7 DEF Pi!Send
  <2>2. SentSoFar'
    BY <1>1, <1>2, <1>7, <2>1 DEF SentSoFar
  <2> QED BY <1>1, <1>2, <1>3, <1>4, <1>5, <1>7, <2>1, <2>2 DEF PiInv, Transfer
<1>8. CASE dma # 0
  <2> DEFINE w == length - dma
             word == [x \in 1 .. 32 |-> IF x - 1 \in sample[w] THEN 1 ELSE 0]
  <2>1. dma' = dma - 1 /\ wire' = wire \o word
    BY <1>8 DEF Pi!Send
  <2>2. w = slept /\ w \in Nat /\ Len(wire) = 32 * w /\ dma \in Nat
    BY <1>1, <1>8
  <2>3. word \in Seq({0, 1}) /\ Len(word) = 32
    OBVIOUS
  <2>4. \A x \in 1 .. 32 : word[x] = IF x - 1 \in sample[w] THEN 1 ELSE 0
    OBVIOUS
  <2> HIDE DEF word, w
  <2>5. /\ wire' \in Seq({0, 1}) /\ Len(wire') = 32 * w + 32
        /\ \A i \in 1 .. 32 : wire'[Len(wire) + i] = word[i]
    <3>1. wire \in Seq({0, 1})
      BY <1>1
    <3>2. /\ wire \o word \in Seq({0, 1})
          /\ Len(wire \o word) = Len(wire) + Len(word)
          /\ \A i \in 1 .. Len(word) : (wire \o word)[Len(wire) + i] = word[i]
      BY <3>1, <2>3, Joined
    <3> QED BY <2>1, <2>2, <2>3, <3>2
  <2>6. Len(wire') = 32 * (length' - dma')
    <3>1. length \in Nat /\ length - (dma - 1) = w + 1
      BY <1>1, <2>2 DEF w
    <3>2. length' - dma' = w + 1
      BY <1>2, <2>1, <3>1
    <3>3. 32 * (w + 1) = 32 * w + 32
      BY <2>2
    <3> QED BY <2>5, <3>2, <3>3
  <2>7. ASSUME NEW p \in Nat, p < 72 * numLEDs, p < Len(wire')
        PROVE  wire'[p + 1] = Pi!WireBit(LEDBuffer, p)
    <3>1. CASE p < Len(wire)
      <4>1. wire'[p + 1] = wire[p + 1]
        BY <1>1, <2>1, <2>3, <3>1
      <4> QED BY <1>1, <2>7, <3>1, <4>1
    <3>2. CASE ~(p < Len(wire))
      <4> DEFINE x == p - 32 * w
      <4>1. x \in 0 .. 31 /\ p = 32 * w + x
        BY <2>2, <2>5, <2>7, <3>2
      <4>2. wire'[p + 1] = word[x + 1]
        <5>1. p + 1 = Len(wire) + (x + 1) /\ x + 1 \in 1 .. 32
          BY <2>2, <4>1
        <5> HIDE DEF x
        <5>2. wire'[Len(wire) + (x + 1)] = word[x + 1]
          BY <2>5, <5>1
        <5> QED BY <5>1, <5>2
      <4>3. x + 1 \in 1 .. 32 /\ (x + 1) - 1 = x
        BY <4>1
      <4> HIDE DEF x
      <4>4. word[x + 1] = IF x \in sample[w] THEN 1 ELSE 0
        BY <2>4, <4>3
      <4>5. x \in sample[w] <=> Pi!WireBit(LEDBuffer, p) = 1
        BY <1>1, <2>2, <2>7, <4>1 DEF Sampled
      <4>6. Pi!WireBit(LEDBuffer, p) \in {0, 1}
        <5>1. p < 72 * Len(LEDBuffer)
          BY <1>1, <2>7
        <5> QED BY <1>1, <5>1, WireBitIsBit
      <4> QED BY <4>2, <4>4, <4>5, <4>6
    <3> QED BY <3>1, <3>2
  <2>8. SentSoFar'
    BY <1>2, <1>6, <2>5, <2>6, <2>7 DEF SentSoFar
  <2>9. dma' = IF slept' < length' THEN length' - slept' ELSE 0
    BY <1>1, <1>2, <2>1, <2>2, <1>8
  <2> QED BY <1>2, <1>3, <1>4, <1>5, <2>8, <2>9 DEF PiInv, Transfer
<1> QED BY <1>7, <1>8

LEMMA StripReturn == ASSUME PiInv, Pi!Return PROVE PiInv'
<1>1. /\ LEDBuffer' = LEDBuffer /\ numLEDs' = numLEDs /\ sample' = sample
      /\ length' = length /\ slept' = slept /\ slept = NUM_DATA_WORDS /\ dma' = dma
      /\ wire' = wire /\ pi_pc = "sleep" /\ pi_pc' = "idle"
      /\ brightness_global' = brightness_global
  BY DEF Pi!Return
<1>2. PiTyped' /\ Covers'
  BY <1>1 DEF PiInv, PiTyped, Covers, Pi!DmaWords
<1>3. Transfer'
  BY <1>1, SampledSame, SentSame DEF PiInv, PiTyped, Transfer
<1> QED BY <1>2, <1>3 DEF PiInv

LEMMA StripStep == ASSUME PiInv, [Esp32 \/ Pi3]_all PROVE PiInv'
<1>1. CASE UNCHANGED piVars
  BY <1>1, SampledSame, SentSame DEF piVars, PiInv, PiTyped, Covers, Transfer,
                                     Pi!DmaWords
<1>2. ASSUME NEW n \in PiCounts, Pi!init(n) PROVE PiInv'
  BY <1>2, StripSetup
<1>3. ASSUME NEW percent \in Brightness, Pi!set_brightness(percent) PROVE PiInv'
  <2>1. percent \in 0 .. 100
    BY StripAssumption
  <2> QED BY <1>3, <2>1, SampledSame, SentSame
          DEF Pi!set_brightness, PiInv, PiTyped, Covers, Transfer, Pi!DmaWords
<1>4. ASSUME NEW index \in DOMAIN LEDBuffer, NEW color \in Pi!Colors,
             Pi!set_color(index, color)
      PROVE  PiInv'
  BY <1>4, StripCall
<1> QED BY <1>1, <1>2, <1>3, <1>4, StripShow, StripSend, StripReturn
        DEF Esp32, Pi3, all, Pi!Next

LEMMA StripShown == PiInv => StripShowsBuffer
<1> SUFFICES ASSUME PiInv, pi_pc = "idle", wire # <<>>
             PROVE  /\ dma = 0
                    /\ Len(wire) >= 72 * numLEDs
                    /\ \A k \in 1 .. numLEDs : Pi!Received(wire, k) = LEDBuffer[k]
  BY DEF StripShowsBuffer, Pi!StripShowsBuffer
<1>1. /\ dma = IF slept < length THEN length - slept ELSE 0
      /\ slept = NUM_DATA_WORDS
      /\ Len(wire) = 32 * (length - dma)
      /\ \A p \in Nat : p < 72 * numLEDs /\ p < Len(wire) =>
                  wire[p + 1] = Pi!WireBit(LEDBuffer, p)
      /\ numLEDs \in Nat /\ numLEDs <= Len(LEDBuffer) /\ LEDBuffer \in Seq(Pixel)
      /\ length \in 0 .. NUM_DATA_WORDS /\ length = Pi!DmaWords(numLEDs)
      /\ Len(LEDBuffer) \in PiCounts \cup {0} /\ NUM_DATA_WORDS \in Nat
  BY StripAssumption DEF PiInv, PiTyped, Covers, Transfer, SentSoFar
<1>2. dma = 0 /\ Len(wire) = 32 * length
  BY <1>1
<1>3. 72 * numLEDs <= 32 * length
  <2>1. Len(LEDBuffer) \in Nat /\ numLEDs \in 0 .. Len(LEDBuffer)
    BY <1>1
  <2> QED BY <1>1, <2>1, EnoughWords
<1>4. Len(wire) >= 72 * numLEDs
  BY <1>1, <1>2, <1>3
<1>5. ASSUME NEW k \in 1 .. numLEDs PROVE Pi!Received(wire, k) = LEDBuffer[k]
  <2>1. k \in 1 .. Len(LEDBuffer)
    BY <1>1
  <2>2. ASSUME NEW p \in 72 * (k - 1) .. 72 * k - 1
        PROVE  wire[p + 1] = Pi!WireBit(LEDBuffer, p)
    <3>1. p \in Nat /\ p < 72 * numLEDs /\ p < Len(wire)
      BY <1>1, <1>2, <1>3
    <3> QED BY <1>1, <3>1
  <2> QED BY <1>1, <2>1, <2>2, StripDecodes
<1> QED BY <1>2, <1>4, <1>5

(* When set_color of the Raspberry Pi returns, the DMA transfer is over     *)
(* and the strip has received the first numLEDs pixels of the buffer, for   *)
(* strips of any length, all colours and every history of calls: the        *)
(* pattern of three bits, the words and the cut-off of the transfer leave   *)
(* no pixel out, and no bit of an earlier call shows.                       *)
THEOREM StripShows == MCSpec => []StripShowsBuffer
<1>1. MCInit => PiInv
  BY StripInit DEF MCInit
<1>2. PiInv /\ [Esp32 \/ Pi3]_all => PiInv'
  BY StripStep
<1> QED BY <1>1, <1>2, StripShown, PTL DEF MCSpec


(* What is proved of NeoPixelEsp for Spec holds of the program that the     *)
(* runs check, whichever of the two targets it is built for.                *)
THEOREM EspInProgram == MCSpec => [](TypeOK /\ NextByteReady /\ HandlerInsideCall)
<1>1. MCInit => Init
  BY DEF MCInit
<1>2. [Esp32 \/ Pi3]_all => [Next]_vars
  BY DEF Esp32, Pi3, all
<1>3. MCSpec => Spec
  BY <1>1, <1>2, PTL DEF MCSpec, Spec
<1> QED BY <1>3, TypeCorrect, SendsTheBuffer, HandlerIsInsideCall, PTL
==================================================================================
