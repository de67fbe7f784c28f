------------------------------- MODULE NeoPixelEsp -------------------------------
(***************************************************************************)
(* NeoPixel of driver_esp32: a strip of WS2812 LEDs behind the RMT         *)
(* peripheral.  set_color fills the two halves of the RMT memory, starts   *)
(* the transmitter and sleeps on a semaphore.  The transmitter walks round *)
(* the memory until it meets a pulse of length zero; after each half it    *)
(* raises an interrupt whose handler puts the next bytes into the half     *)
(* that was just sent.  Task, handler and transmitter run concurrently and *)
(* share the ws2812_ variables without a lock.                             *)
(*                                                                         *)
(* A byte of the buffer takes eight pulses, a slot here, and is named by   *)
(* its position in the buffer; which colour it holds does not matter.      *)
(***************************************************************************)
EXTENDS Naturals

CONSTANTS Counts,       \* the numbers of LEDs passed to init
          SLOTS         \* bytes in one half of the memory: MAX_PULSES / 8

\* The three bytes of each LED never fill exactly one half, which is four bytes
\* long: after them the second half would still hold an earlier transmission.
\* Only one task at a time is in set_color.
ASSUME CountsAssumption == Counts \subseteq Nat \ {0}
ASSUME SlotsAssumption  == SLOTS \in Nat \ {0} /\ \A n \in Counts : 3 * n # SLOTS

VARIABLES
  PIXEL_COUNT,            \* 0 before init
  pc,                     \* where the task is in set_color
  ws2812_buffer,          \* whether the buffer is allocated
  ws2812_len, ws2812_pos, ws2812_half,
  ws2812_sem,             \* "null", "empty", "given" or "deleted"
  mem,                    \* the two halves of RMTMEM.chan[0]
  tx_on, tx,              \* the transmitter: is it on, and the slot it is at
  tx_thr_event, tx_end,   \* RMT.int_st
  handler,                \* where ws2812_handleInterrupt is
  sent                    \* history: slots sent since tx_start

taskVars == <<PIXEL_COUNT, pc, ws2812_buffer, ws2812_len>>
copyVars == <<ws2812_pos, ws2812_half, mem>>
txVars   == <<tx_on, tx, tx_thr_event, tx_end, sent>>
vars == <<taskVars, copyVars, ws2812_sem, txVars, handler>>

Halves == {0, 1}
Slots  == 0 .. SLOTS - 1
Steps  == {"idle", "reset", "copy1", "copy2", "create", "start", "take", "delete",
           "null", "free"}

\* Byte n of a buffer of len bytes; the last one carries the reset pause.
\* Nothing ends a transmission, Junk is what the memory holds at power-on.
Byte(n, len) == [pulses |-> IF n = len - 1 THEN "last" ELSE "byte", byte |-> n]
Nothing      == [pulses |-> "zero", byte |-> 0]
Junk         == [pulses |-> "junk", byte |-> 0]
At(n, len)   == IF n < len THEN Byte(n, len) ELSE Nothing

Init == /\ PIXEL_COUNT = 0 /\ pc = "idle"
        /\ ws2812_buffer = FALSE /\ ws2812_len = 0 /\ ws2812_pos = 0 /\ ws2812_half = 0
        /\ ws2812_sem = "null"
        /\ mem = [h \in Halves |-> [s \in Slots |-> Junk]]
        /\ tx_on = FALSE /\ tx = [half |-> 0, slot |-> 0]
        /\ tx_thr_event = FALSE /\ tx_end = FALSE /\ handler = "idle"
        /\ sent = 0

----------------------------------------------------------------------------
(* Deviations that the properties must notice; Next does not use them.     *)

CopySameHalf ==
  /\ mem' = [mem EXCEPT ![ws2812_half] = [s \in Slots |-> At(ws2812_pos + s, ws2812_len)]]
  /\ ws2812_pos' = IF ws2812_len - ws2812_pos > SLOTS THEN ws2812_pos + SLOTS
                                                      ELSE ws2812_len
  /\ UNCHANGED ws2812_half

CopyNoLimit ==
  /\ mem' = [mem EXCEPT ![ws2812_half] = [s \in Slots |-> At(ws2812_pos + s, ws2812_len)]]
  /\ ws2812_half' = 1 - ws2812_half
  /\ ws2812_pos' = ws2812_pos + SLOTS

\* The handler looks at tx_end first.
InterruptEndFirst ==
  /\ handler = "idle" /\ tx_end /\ ws2812_sem # "null"
  /\ ws2812_sem' = "given" /\ handler' = "clearEnd"
  /\ UNCHANGED <<taskVars, copyVars, txVars>>

\* The handler clears both events.
ClearBoth ==
  /\ handler = "clearThr" /\ handler' = "idle"
  /\ tx_thr_event' = FALSE /\ tx_end' = FALSE
  /\ UNCHANGED <<taskVars, copyVars, ws2812_sem, tx_on, tx, sent>>

----------------------------------------------------------------------------
\* ws2812_copy: the next bytes into the half whose turn it is, zeros behind
\* the last one.
ws2812_copy ==
  /\ mem' = [mem EXCEPT ![ws2812_half] = [s \in Slots |-> At(ws2812_pos + s, ws2812_len)]]
  /\ ws2812_half' = 1 - ws2812_half
  /\ ws2812_pos' = IF ws2812_len - ws2812_pos > SLOTS THEN ws2812_pos + SLOTS
                                                      ELSE ws2812_len

InitNeoPixel(n) ==
  /\ PIXEL_COUNT = 0 /\ PIXEL_COUNT' = n
  /\ UNCHANGED <<pc, ws2812_buffer, ws2812_len, copyVars, ws2812_sem, txVars, handler>>

----------------------------------------------------------------------------
(* The task in set_color.                                                  *)

Step(from, to) == /\ pc = from /\ pc' = to
                  /\ UNCHANGED <<PIXEL_COUNT, handler>>

SetColor == /\ PIXEL_COUNT > 0 /\ Step("idle", "reset")
            /\ ws2812_len' = PIXEL_COUNT * 3
            /\ ws2812_buffer' = TRUE
            /\ UNCHANGED <<copyVars, ws2812_sem, txVars>>

\* malloc fails: the first store through the null pointer raises an exception,
\* by which the chip starts anew as in Init.
SetColorWithoutMemory ==
  /\ PIXEL_COUNT > 0 /\ pc = "idle"
  /\ PIXEL_COUNT' = 0 /\ pc' = "idle"
  /\ ws2812_buffer' = FALSE /\ ws2812_len' = 0 /\ ws2812_pos' = 0 /\ ws2812_half' = 0
  /\ ws2812_sem' = "null"
  /\ mem' = [h \in Halves |-> [s \in Slots |-> Junk]]
  /\ tx_on' = FALSE /\ tx' = [half |-> 0, slot |-> 0]
  /\ tx_thr_event' = FALSE /\ tx_end' = FALSE /\ handler' = "idle"
  /\ sent' = 0

Reset == /\ Step("reset", "copy1")
         /\ ws2812_pos' = 0 /\ ws2812_half' = 0
         /\ UNCHANGED <<ws2812_buffer, ws2812_len, mem, ws2812_sem, txVars>>

FirstCopy == /\ Step("copy1", "copy2")
             /\ ws2812_copy
             /\ UNCHANGED <<ws2812_buffer, ws2812_len, ws2812_sem, txVars>>

SecondCopy == /\ Step("copy2", "create")
              /\ IF ws2812_pos < ws2812_len THEN ws2812_copy ELSE UNCHANGED copyVars
              /\ UNCHANGED <<ws2812_buffer, ws2812_len, ws2812_sem, txVars>>

CreateSemaphore == /\ Step("create", "start")
                   /\ ws2812_sem' = "empty"
                   /\ UNCHANGED <<ws2812_buffer, ws2812_len, copyVars, txVars>>

Start == /\ Step("start", "take")
         /\ tx_on' = TRUE /\ tx' = [half |-> 0, slot |-> 0]
         /\ sent' = 0
         /\ UNCHANGED <<ws2812_buffer, ws2812_len, copyVars, ws2812_sem, tx_thr_event,
                        tx_end>>

Take == /\ ws2812_sem = "given"
        /\ Step("take", "delete")
        /\ ws2812_sem' = "empty"
        /\ UNCHANGED <<ws2812_buffer, ws2812_len, copyVars, txVars>>

DeleteSemaphore == /\ Step("delete", "null")
                   /\ ws2812_sem' = "deleted"
                   /\ UNCHANGED <<ws2812_buffer, ws2812_len, copyVars, txVars>>

NullSemaphore == /\ Step("null", "free")
                 /\ ws2812_sem' = "null"
                 /\ UNCHANGED <<ws2812_buffer, ws2812_len, copyVars, txVars>>

Free == /\ Step("free", "idle")
        /\ ws2812_buffer' = FALSE
        /\ UNCHANGED <<ws2812_len, copyVars, ws2812_sem, txVars>>

Task == \/ Reset \/ FirstCopy \/ SecondCopy \/ CreateSemaphore \/ Start
        \/ Take \/ DeleteSemaphore \/ NullSemaphore \/ Free

----------------------------------------------------------------------------
(* The transmitter.  The handler has the time of one half, 40 us, for its  *)
(* work: the transmitter does not finish a half before the event of the    *)
(* half before is dealt with, and does not end while the handler clears    *)
(* the end of the transmission before.                                     *)

SendSlot ==
  /\ tx_on /\ mem[tx.half][tx.slot] # Nothing
  /\ IF tx.slot < SLOTS - 1
       THEN /\ tx' = [tx EXCEPT !.slot = @ + 1]
            /\ UNCHANGED tx_thr_event
       ELSE /\ ~tx_thr_event /\ handler = "idle"
            /\ tx' = [tx EXCEPT !.half = 1 - @, !.slot = 0]
            /\ tx_thr_event' = TRUE
  /\ sent' = sent + 1
  /\ UNCHANGED <<taskVars, copyVars, ws2812_sem, tx_on, tx_end, handler>>

EndOfTransmission ==
  /\ tx_on /\ mem[tx.half][tx.slot] = Nothing
  /\ handler # "clearEnd"
  /\ tx_on' = FALSE
  /\ tx_end' = TRUE
  /\ UNCHANGED <<taskVars, copyVars, ws2812_sem, tx, tx_thr_event, sent, handler>>

Transmitter == SendSlot \/ EndOfTransmission

----------------------------------------------------------------------------
(* ws2812_handleInterrupt.  The interrupt line stays active, and the       *)
(* handler runs again, while one of the two events is not cleared.         *)

InterruptThr == /\ handler = "idle" /\ tx_thr_event
                /\ ws2812_copy
                /\ handler' = "clearThr"
                /\ UNCHANGED <<taskVars, ws2812_sem, txVars>>

ClearThr == /\ handler = "clearThr" /\ handler' = "idle"
            /\ tx_thr_event' = FALSE
            /\ UNCHANGED <<taskVars, copyVars, ws2812_sem, tx_on, tx, tx_end, sent>>

InterruptEnd == /\ handler = "idle" /\ ~tx_thr_event /\ tx_end /\ ws2812_sem # "null"
                /\ ws2812_sem' = "given"
                /\ handler' = "clearEnd"
                /\ UNCHANGED <<taskVars, copyVars, txVars>>

ClearEnd == /\ handler = "clearEnd" /\ handler' = "idle"
            /\ tx_end' = FALSE
            /\ UNCHANGED <<taskVars, copyVars, ws2812_sem, tx_on, tx, tx_thr_event,
                           sent>>

Interrupt == InterruptThr \/ ClearThr \/ InterruptEnd \/ ClearEnd

Next == \/ \E n \in Counts : InitNeoPixel(n)
        \/ SetColor \/ SetColorWithoutMemory \/ Task \/ Transmitter \/ Interrupt

Spec == Init /\ [][Next]_vars

\* Hardware does not stop, interrupts are served, and the task runs.
FairSpec == Spec /\ WF_vars(Task) /\ WF_vars(Transmitter) /\ WF_vars(Interrupt)

----------------------------------------------------------------------------
TypeOK ==
  /\ PIXEL_COUNT \in Counts \cup {0}
  /\ pc \in Steps
  /\ ws2812_buffer \in BOOLEAN
  /\ ws2812_len \in {0, 3 * PIXEL_COUNT}
  /\ ws2812_pos \in 0 .. ws2812_len /\ ws2812_half \in Halves
  /\ ws2812_sem \in {"null", "empty", "given", "deleted"}
  /\ mem \in [Halves -> [Slots -> {Junk, Nothing} \cup
                                  {Byte(n, ws2812_len) : n \in 0 .. ws2812_len}]]
  /\ tx_on \in BOOLEAN /\ tx \in [half : Halves, slot : Slots]
  /\ tx_thr_event \in BOOLEAN /\ tx_end \in BOOLEAN
  /\ handler \in {"idle", "clearThr", "clearEnd"}
  /\ sent \in 0 .. ws2812_len

(* What the transmitter is about to send is the next byte of the buffer,    *)
(* and the end behind the last one: the halves are refilled in turn, none   *)
(* twice, none too late, and no pulse of an earlier transmission is left    *)
(* behind the last byte.                                                    *)
NextByteReady == tx_on => mem[tx.half][tx.slot] = At(sent, ws2812_len)

(* The handler reads the buffer and gives the semaphore only while          *)
(* set_color sleeps, so that neither is freed yet; when set_color goes on,  *)
(* all bytes are sent and no event is left for the next call.               *)
HandlerInsideCall ==
  /\ tx_thr_event \/ tx_end \/ handler = "clearThr" =>
       \/ pc = "take" /\ ws2812_buffer /\ ws2812_sem \in {"empty", "given"}
       \/ ~tx_thr_event /\ handler = "clearEnd"
  /\ pc \in {"delete", "null", "free"} =>
       sent = ws2812_len /\ ~tx_on /\ ~tx_thr_event

(* set_color, which waits without a timeout, returns.                       *)
SetColorReturns == (pc # "idle") ~> (pc = "idle")
=================================================================================
