---------------------------------- MODULE Fifo ----------------------------------
(***************************************************************************)
(* What a TaskQue promises the tasks on its two ends: an unbounded FIFO    *)
(* channel.  Elements are named by the order in which they were pushed, so *)
(* the n-th element that comes out has to be the number n: none is lost,   *)
(* none is delivered twice and none overtakes another.                     *)
(***************************************************************************)
EXTENDS Naturals, Sequences

CONSTANT MaxPush        \* how many elements are pushed (bounds the model)

VARIABLES sent,         \* number of elements pushed so far
          received      \* the elements popped, in the order of the pops

vars == <<sent, received>>

Init == sent = 0 /\ received = <<>>

Send == /\ sent < MaxPush
        /\ sent' = sent + 1
        /\ UNCHANGED received

Receive == /\ Len(received) < sent
           /\ received' = Append(received, Len(received) + 1)
           /\ UNCHANGED sent

Next == Send \/ Receive

Spec == Init /\ [][Next]_vars
=================================================================================
