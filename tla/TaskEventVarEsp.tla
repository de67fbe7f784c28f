----------------------------- MODULE TaskEventVarEsp -----------------------------
(***************************************************************************)
(* TaskEventVar of driver_esp32/task.hpp, a thin layer over a FreeRTOS     *)
(* event group.  FreeRTOS itself is not part of the repository: SetBits    *)
(* and WaitBits say what the class relies on.  Setting bits wakes, in one  *)
(* pass, every task whose wait they satisfy; only then the bits those      *)
(* waits asked for are cleared (the class always passes clearOnExit).      *)
(***************************************************************************)
EXTENDS Naturals, FiniteSets

CONSTANTS Tasks,        \* tasks that may wait
          Bits          \* the bits in use

VARIABLES bits,         \* the event group
          wait,         \* what each task is blocked on; mask {} if on nothing
          ret           \* what the last xEventGroupWaitBits of a task returned

eventVars == <<bits, wait, ret>>

NoWait == [mask |-> {}, all |-> FALSE]

EventTypeOK == /\ bits \subseteq Bits
               /\ wait \in [Tasks -> [mask : SUBSET Bits, all : BOOLEAN]]
               /\ ret \in [Tasks -> SUBSET Bits]

EventInit == /\ bits = {}
             /\ wait = [t \in Tasks |-> NoWait]
             /\ ret = [t \in Tasks |-> {}]

Blocked(t) == wait[t] # NoWait

Satisfied(w, value) == /\ w.mask # {}
                       /\ IF w.all THEN w.mask \subseteq value
                                   ELSE w.mask \cap value # {}

SetBits(b) ==
  LET value == bits \cup b
      awake == {t \in Tasks : Satisfied(wait[t], value)}
  IN  /\ bits' = value \ UNION {wait[t].mask : t \in awake}
      /\ wait' = [t \in Tasks |-> IF t \in awake THEN NoWait ELSE wait[t]]
      /\ ret' = [t \in Tasks |-> IF t \in awake THEN value ELSE ret[t]]

ClearBits(b) == bits' = bits \ b /\ UNCHANGED <<wait, ret>>

WaitBits(t, w) ==
  IF Satisfied(w, bits)
    THEN /\ ret' = [ret EXCEPT ![t] = bits]
         /\ bits' = bits \ w.mask
         /\ UNCHANGED wait
    ELSE /\ wait' = [wait EXCEPT ![t] = w]
         /\ UNCHANGED <<bits, ret>>

\* The wait ends because its time is over.
WaitTimeout(t) == /\ wait' = [wait EXCEPT ![t] = NoWait]
                  /\ ret' = [ret EXCEPT ![t] = bits]
                  /\ UNCHANGED bits

\* The operations of the class.
set(b) == SetBits(b)
clear(b) == ClearBits(b)
wait_for(t, b) == WaitBits(t, [mask |-> b, all |-> TRUE])
wait_for_one(t, b) == WaitBits(t, [mask |-> b, all |-> FALSE])
==================================================================================
