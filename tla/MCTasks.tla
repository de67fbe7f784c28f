---------------------------------- MODULE MCTasks ----------------------------------
(***************************************************************************)
(* What task.hpp and task.cpp offer to the tasks of a program, one part at *)
(* a time: the event bits of the Raspberry Pi, its queue with both forms   *)
(* of pop, and the periodic wake-up of both targets.                       *)
(***************************************************************************)
EXTENDS MCTaskQuePi

CONSTANTS WRAP, TICK_MS, Waits, MaxTime

\* A wait is for a tick at least, as vTaskDelayUntil asserts, and for less than a
\* turn of the tick counter.
ASSUME PeriodAssumption == /\ WRAP \in Nat \ {0} /\ TICK_MS \in Nat \ {0}
                           /\ Waits \subseteq Nat
                           /\ \A ms \in Waits : ms \div TICK_MS \in 1 .. WRAP - 1

VARIABLES part,
          cond_bits, lock, event_pc, arg, rest, reg, on, calls,
          target, now, last, call, wait, wake, sleeping

event == <<cond_bits, lock, event_pc, arg, rest, reg, on, calls>>
delay == <<target, now, last, call, wait, wake, sleeping>>
all == <<part, vars, event, delay>>

\* Two threads that set and clear two bits, beside two that wait.
Event == INSTANCE TaskEventVarPi WITH
           pc <- event_pc, Setters <- {a, b}, Waiters <- {c, d},
           Masks <- {{0}, {1}, {0, 1}}, MaxCalls <- 2
Delay == INSTANCE DelayUntil

MCInit == /\ part \in {"event", "queue", "delay"}
          /\ Init /\ Event!Init /\ Delay!Init
          /\ part # "delay" => target = "pi" /\ now = 0

Queue == part = "queue" /\ Next /\ UNCHANGED <<part, event, delay>>
EventBits == part = "event" /\ Event!Next /\ UNCHANGED <<part, vars, delay>>
Period == part = "delay" /\ Delay!Next /\ UNCHANGED <<part, vars, event>>

MCSpec == /\ MCInit /\ [][Queue \/ EventBits \/ Period]_all
          /\ Event!Fairness

(* A set releases every thread that waits on one of its bits, the threads  *)
(* that came while it was busy with a lower bit included.                  *)
SetReleasesWaiters == Event!SetReleasesWaiters

(* However late a task is, and wherever the tick counter wraps, wait_for   *)
(* never asks for a sleep longer than its argument.                        *)
NeverOversleeps == Delay!NeverOversleeps

(* A call of wait_for before the next wake-up is due sleeps until exactly  *)
(* one period after the last, unless the ESP32's counter wraps in between. *)
Steady == Delay!Steady
====================================================================================
