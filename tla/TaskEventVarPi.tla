------------------------------ MODULE TaskEventVarPi ------------------------------
(***************************************************************************)
(* TaskEventVar of driver_pi/task.hpp: an emulation of event bits with one *)
(* mutex cv_m[i] and one condition variable cv[i] for each bit i.          *)
(*                                                                         *)
(* set handles the bits of its argument one after the other and holds only *)
(* the mutex of the bit at hand, while it updates all of cond_bits; clear  *)
(* holds none.  The load and the store of an update are therefore steps of *)
(* their own.  A wait looks at the lowest bit of its argument only, and    *)
(* waits without looking at cond_bits at all.                              *)
(***************************************************************************)
EXTENDS Naturals, FiniteSets

CONSTANTS Setters,      \* threads that call set and clear
          Waiters,      \* threads that call wait_for and wait_for_one
          Masks,        \* the arguments in use: non-empty sets of bits below 8
          Spurious,     \* whether cv[i] wakes threads that nobody notified
          MaxCalls      \* bound: calls of set and clear

Threads == Setters \cup Waiters
Bits == UNION Masks
None == 99              \* no thread, no bit

VARIABLES cond_bits,    \* the emulated bits
          lock,         \* lock[i]: the setter that holds cv_m[i]
          pc,
          arg,          \* the argument of the call a thread is in
          rest,         \* the bits a set has still to handle
          reg,          \* what a thread has computed from cond_bits, not yet stored
          on,           \* the bit whose cv a thread waits on
          calls         \* number of calls of set and clear so far

vars == <<cond_bits, lock, pc, arg, rest, reg, on, calls>>

Init == /\ cond_bits = {}
        /\ lock = [i \in Bits |-> None]
        /\ pc = [t \in Threads |-> "idle"]
        /\ arg = [t \in Threads |-> {}]
        /\ rest = [t \in Threads |-> {}]
        /\ reg = [t \in Threads |-> {}]
        /\ on = [t \in Threads |-> None]
        /\ calls = 0

Lowest(b) == CHOOSE i \in b : \A j \in b : i <= j
Go(t, step) == pc' = [pc EXCEPT ![t] = step]
WaitsOn(i) == {t \in Threads : pc[t] = "wait" /\ on[t] = i}

----------------------------------------------------------------------------
\* A call of set enters the loop over the bits of its argument.
CallSet(t, b) ==
  /\ t \in Setters /\ pc[t] = "idle" /\ calls < MaxCalls
  /\ calls' = calls + 1
  /\ arg' = [arg EXCEPT ![t] = b]
  /\ rest' = [rest EXCEPT ![t] = b]
  /\ Go(t, "set")
  /\ UNCHANGED <<cond_bits, lock, reg, on>>

SetLock(t) ==
  LET i == Lowest(rest[t]) IN
  /\ pc[t] = "set" /\ lock[i] = None
  /\ lock' = [lock EXCEPT ![i] = t]
  /\ Go(t, "load")
  /\ UNCHANGED <<cond_bits, arg, rest, reg, on, calls>>

\* cond_bits = cond_bits | bits, in two steps.
SetLoad(t) ==
  /\ pc[t] = "load"
  /\ reg' = [reg EXCEPT ![t] = cond_bits \cup arg[t]]
  /\ Go(t, "store")
  /\ UNCHANGED <<cond_bits, lock, arg, rest, on, calls>>

SetStore(t) ==
  /\ pc[t] = "store"
  /\ cond_bits' = reg[t]
  /\ Go(t, "notify")
  /\ UNCHANGED <<lock, arg, rest, reg, on, calls>>

\* A deviation: notify_one in place of notify_all.
SetNotifyOne(t) ==
  LET i == Lowest(rest[t]) IN
  /\ pc[t] = "notify"
  /\ \E awake \in SUBSET WaitsOn(i) :
       /\ Cardinality(awake) = (IF WaitsOn(i) = {} THEN 0 ELSE 1)
       /\ pc' = [w \in Threads |->
                   IF w \in awake THEN "woken"
                   ELSE IF w # t THEN pc[w]
                   ELSE IF rest[t] = {i} THEN "idle" ELSE "set"]
  /\ lock' = [lock EXCEPT ![i] = None]
  /\ rest' = [rest EXCEPT ![t] = @ \ {i}]
  /\ UNCHANGED <<cond_bits, arg, reg, on, calls>>

\* cv[i].notify_all(), then the guard releases the mutex and the loop goes on.
SetNotify(t) ==
  LET i == Lowest(rest[t]) IN
  /\ pc[t] = "notify"
  /\ pc' = [w \in Threads |->
              IF w \in WaitsOn(i) THEN "woken"
              ELSE IF w # t THEN pc[w]
              ELSE IF rest[t] = {i} THEN "idle" ELSE "set"]
  /\ lock' = [lock EXCEPT ![i] = None]
  /\ rest' = [rest EXCEPT ![t] = @ \ {i}]
  /\ UNCHANGED <<cond_bits, arg, reg, on, calls>>

\* clear does nothing unless is_set, which holds if any of the bits is set.
CallClear(t, b) ==
  /\ t \in Setters /\ pc[t] = "idle" /\ calls < MaxCalls
  /\ cond_bits \cap b # {}
  /\ calls' = calls + 1
  /\ arg' = [arg EXCEPT ![t] = b]
  /\ Go(t, "clear")
  /\ UNCHANGED <<cond_bits, lock, rest, reg, on>>

ClearLoad(t) ==
  /\ pc[t] = "clear"
  /\ reg' = [reg EXCEPT ![t] = cond_bits \ arg[t]]
  /\ Go(t, "clearStore")
  /\ UNCHANGED <<cond_bits, lock, arg, rest, on, calls>>

ClearStore(t) ==
  /\ pc[t] = "clearStore"
  /\ cond_bits' = reg[t]
  /\ Go(t, "idle")
  /\ UNCHANGED <<lock, arg, rest, reg, on, calls>>

\* wait_for and wait_for_one: lock the mutex of the lowest bit and wait, which
\* gives the mutex back.
WaitFor(t, b) ==
  LET i == Lowest(b) IN
  /\ t \in Waiters /\ pc[t] = "idle" /\ lock[i] = None
  /\ arg' = [arg EXCEPT ![t] = b]
  /\ on' = [on EXCEPT ![t] = i]
  /\ Go(t, "wait")
  /\ UNCHANGED <<cond_bits, lock, rest, reg, calls>>

SpuriousWakeup(t) ==
  /\ Spurious /\ pc[t] = "wait"
  /\ Go(t, "woken")
  /\ UNCHANGED <<cond_bits, lock, arg, rest, reg, on, calls>>

\* The timeout of the timed forms; they return false.
WaitTimeout(t) ==
  /\ pc[t] = "wait" /\ lock[on[t]] = None
  /\ on' = [on EXCEPT ![t] = None]
  /\ Go(t, "idle")
  /\ UNCHANGED <<cond_bits, lock, arg, rest, reg, calls>>

\* The woken thread has the mutex again and returns true at once.
WaitReturn(t) ==
  /\ pc[t] = "woken" /\ lock[on[t]] = None
  /\ on' = [on EXCEPT ![t] = None]
  /\ Go(t, "idle")
  /\ UNCHANGED <<cond_bits, lock, arg, rest, reg, calls>>

SetStep(t) == SetLock(t) \/ SetLoad(t) \/ SetStore(t) \/ SetNotify(t)
ClearStep(t) == ClearLoad(t) \/ ClearStore(t)

Next == \E t \in Threads :
          \/ \E b \in Masks : CallSet(t, b) \/ CallClear(t, b) \/ WaitFor(t, b)
          \/ SetStep(t) \/ ClearStep(t)
          \/ SpuriousWakeup(t) \/ WaitTimeout(t) \/ WaitReturn(t)

Spec == Init /\ [][Next]_vars

\* Setters and woken threads are scheduled again.  Timeouts are not forced: an
\* untimed wait has none.
Fairness == \A t \in Threads : /\ WF_vars(SetStep(t))
                              /\ WF_vars(ClearStep(t))
                              /\ WF_vars(WaitReturn(t))

----------------------------------------------------------------------------
(* A set releases every thread that waits on one of its bits, the threads  *)
(* that came while it was busy with a lower bit included.                  *)
SetReleasesWaiters ==
  \A s \in Setters, t \in Waiters : \A i \in Bits :
    (i \in rest[s] /\ t \in WaitsOn(i)) ~> pc[t] = "idle"

(* When nobody is in set or clear, no thread waits for a bit that is set.  *)
WaitSeesBit ==
  (\A s \in Setters : pc[s] = "idle") =>
    \A t \in Waiters : pc[t] = "wait" => on[t] \notin cond_bits
===================================================================================
