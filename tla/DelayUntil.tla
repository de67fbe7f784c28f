--------------------------------- MODULE DelayUntil ---------------------------------
(***************************************************************************)
(* DelayUntil of driver_esp32/task.cpp and driver_pi/task.cpp: a task that *)
(* calls wait_for once in each round, to run at a fixed period.            *)
(*                                                                         *)
(* The ESP32 counts ticks in a 32-bit counter that wraps, here at WRAP,    *)
(* and compares them before it calls vTaskDelayUntil; the steady clock of  *)
(* the Raspberry Pi does not wrap.  "now" is the true time from which the  *)
(* clock of the target is read, in the unit that the target counts: ticks  *)
(* on the ESP32, milliseconds on the Raspberry Pi.                         *)
(***************************************************************************)
EXTENDS Naturals

CONSTANTS WRAP,      \* number of values of the tick counter: 2^32
          TICK_MS,   \* milliseconds in a tick: portTICK_PERIOD_MS
          Waits,     \* the arguments of wait_for in use, in milliseconds; from one
                     \* tick, as vTaskDelayUntil asserts, to less than a wrap
          MaxTime    \* bound: the model stops here

\* pdMS_TO_TICKS rounds down.
pdMS_TO_TICKS(ms) == ms \div TICK_MS

VARIABLES target,     \* the target of the build
          now,
          last,       \* the true time that last_wake_tick stands for
          call,       \* when wait_for was called
          wait,       \* its argument in the unit of the clock
          wake,       \* when the scheduler will wake the task
          sleeping

vars == <<target, now, last, call, wait, wake, sleeping>>

xTaskGetTickCount == now % WRAP
last_wake_tick == last % WRAP

\* DelayUntil::DelayUntil() reads the clock.
Init == /\ target \in {"esp32", "pi"}
        /\ now \in 0 .. WRAP - 1
        /\ last = now /\ call = now /\ wake = now
        /\ wait = 0
        /\ sleeping = FALSE

\* How long vTaskDelayUntil puts the task to sleep, in terms of the two values
\* of the counter: not at all when the time to wake has passed already.
vTaskDelayUntil(prev, t) ==
  LET timeToWake == (prev + t) % WRAP
      count == xTaskGetTickCount
      shouldDelay == IF count < prev THEN timeToWake < prev /\ timeToWake > count
                                     ELSE timeToWake < prev \/ timeToWake > count
  IN  IF shouldDelay THEN (timeToWake + WRAP - count) % WRAP ELSE 0

\* A deviation: the comparison is the wrong way round.
SeemsEarly(t) == (last_wake_tick + t) % WRAP > xTaskGetTickCount

\* The first line of wait_for: the next wake-up seems to have passed.
SeemsLate(t) == (last_wake_tick + t) % WRAP < xTaskGetTickCount

\* ESP32: start again from here if it seems late, then vTaskDelayUntil.
WaitForEsp(ms) ==
  LET t == pdMS_TO_TICKS(ms)
      from == IF SeemsLate(t) THEN now ELSE last
  IN  /\ target = "esp32"
      /\ wake' = now + vTaskDelayUntil(from % WRAP, t)
      /\ last' = from + t
      /\ wait' = t

\* A deviation: after a late call the Raspberry Pi sleeps from its last wake-up on.
WaitForPiKeepsLast(ms) ==
  /\ target = "pi"
  /\ last' = IF last + ms < now THEN now + ms ELSE last + ms + ms
  /\ wake' = last'
  /\ wait' = ms

\* Raspberry Pi: go on at once when late, else one period after the last time.
WaitForPi(ms) ==
  /\ target = "pi"
  /\ last' = IF last + ms < now THEN now ELSE last + ms
  /\ wake' = last'
  /\ wait' = ms

wait_for(ms) ==
  /\ ~sleeping
  /\ WaitForEsp(ms) \/ WaitForPi(ms)
  /\ call' = now
  /\ sleeping' = TRUE
  /\ UNCHANGED <<target, now>>

\* The scheduler runs the task again, at the time asked for or later.
Wake == /\ sleeping /\ wake <= now
        /\ sleeping' = FALSE
        /\ UNCHANGED <<target, now, last, call, wait, wake>>

Tick == /\ now < MaxTime
        /\ now' = now + 1
        /\ UNCHANGED <<target, last, call, wait, wake, sleeping>>

Next == Tick \/ Wake \/ \E ms \in Waits : wait_for(ms)

Spec == Init /\ [][Next]_vars

----------------------------------------------------------------------------
(* However late a task is, and wherever the tick counter wraps, wait_for   *)
(* never asks for a sleep longer than its argument.                        *)
NeverOversleeps == wake <= call + wait

(* The period is kept: a call that is made before the next wake-up is due  *)
(* sleeps until exactly one period after the last one was due, unless the  *)
(* ESP32's counter wraps in between.                                       *)
Steady ==
  [][LET due == last + wait' IN
     (sleeping' /\ ~sleeping /\ now <= due
        /\ (target = "esp32" => last \div WRAP = due \div WRAP))
       => wake' = due]_vars
=====================================================================================
