------------------------------- MODULE TaskQuePi -------------------------------
(***************************************************************************)
(* TaskQue<T> of driver_pi/task.hpp: a std::queue guarded by mutex_, and a *)
(* condition variable cond_ on which the two forms of pop wait.            *)
(*                                                                         *)
(* Everything pop and push do while they hold mutex_ is one step.  What    *)
(* happens without the mutex is a step of its own: the notify_one() that   *)
(* push issues after mlock.unlock(), the wake-up of a waiter, and the      *)
(* moment at which the woken thread has the mutex again.                   *)
(*                                                                         *)
(* The timed pop does not look at the queue again after its wait, so it    *)
(* may call front() and pop() of an empty std::queue.  That is undefined   *)
(* behaviour, and no meaning is given to it: every thread ends in the      *)
(* label "undefined" and the model stops, so that a property speaks of the *)
(* program until then, and one of them of whether that can happen.         *)
(***************************************************************************)
EXTENDS Naturals, Sequences, FiniteSets

CONSTANTS Producers,     \* threads that call push
          Poppers,       \* threads that call pop(item)
          TimedPoppers,  \* threads that call pop(item, timeout_ms)
          Spurious,      \* whether cond_ wakes threads that nobody notified
          MaxPush        \* bound: calls of push

ASSUME RoleAssumption == IsFiniteSet(Producers \cup Poppers \cup TimedPoppers)
ASSUME BoundAssumption == MaxPush \in Nat /\ Spurious \in BOOLEAN

Threads == Producers \cup Poppers \cup TimedPoppers

VARIABLES queue,    \* queue_: the elements, each named by the number of its push
          pc,       \* where each thread is inside push or pop
          pushes,   \* number of calls of push so far
          taken     \* what the successful pops have handed out, in order

vars == <<queue, pc, pushes, taken>>

PC == {"idle", "notify", "wait", "woken", "timedWait", "timedWoken", "undefined"}

Init == /\ queue = <<>>
        /\ pc = [t \in Threads |-> "idle"]
        /\ pushes = 0
        /\ taken = <<>>

----------------------------------------------------------------------------
At(label) == {t \in Threads : pc[t] = label}

\* Threads inside cond_.wait or cond_.wait_until.
Waiting == At("wait") \cup At("timedWait")

Awake(label) == IF label = "wait" THEN "woken" ELSE "timedWoken"

\* queue_.empty()
Empty == queue = <<>>

Go(t, label) == pc' = [pc EXCEPT ![t] = label]

\* *item = queue_.front(); queue_.pop(); and return true.
Take(t) ==
  \/ /\ queue # <<>>
     /\ taken' = Append(taken, Head(queue))
     /\ queue' = Tail(queue)
     /\ Go(t, "idle")
     /\ UNCHANGED pushes
  \/ /\ queue = <<>>
     /\ pc' = [u \in Threads |-> "undefined"]
     /\ UNCHANGED <<queue, pushes, taken>>

----------------------------------------------------------------------------
(* Deviations from the code that the properties must notice; no action of  *)
(* Next uses them.                                                         *)

\* push puts the element at the front.
PushInFront(t) ==
  /\ t \in Producers /\ pc[t] = "idle" /\ pushes < MaxPush
  /\ pushes' = pushes + 1
  /\ queue' = <<pushes + 1>> \o queue
  /\ Go(t, "notify")
  /\ UNCHANGED taken

\* push does not notify.
PushSilently(t) ==
  /\ t \in Producers /\ pc[t] = "idle" /\ pushes < MaxPush
  /\ pushes' = pushes + 1
  /\ queue' = Append(queue, pushes + 1)
  /\ UNCHANGED <<pc, taken>>

\* push notifies only when the queue was empty before.
NotifyOneIfFirst(t) ==
  /\ pc[t] = "notify"
  /\ \/ (Waiting = {} \/ Len(queue) # 1) /\ Go(t, "idle")
     \/ \E w \in Waiting :
          Len(queue) = 1 /\ pc' = [pc EXCEPT ![t] = "idle", ![w] = Awake(pc[w])]
  /\ UNCHANGED <<queue, pushes, taken>>

\* The timed pop waits on cond_ without its timeout.
TimedPopWaitUntimed(t) ==
  /\ t \in TimedPoppers /\ pc[t] = "idle" /\ Empty
  /\ Go(t, "wait")
  /\ UNCHANGED <<queue, pushes, taken>>

\* The timed pop takes the element off before it sees that it is too late.
TimedPopExpireTakes(t) ==
  /\ pc[t] \in {"timedWait", "timedWoken"}
  /\ Go(t, "idle")
  /\ queue' = IF queue = <<>> THEN queue ELSE Tail(queue)
  /\ UNCHANGED <<pushes, taken>>

\* pop(item) tests with if instead of while.
PopTakeNoRecheck(t) ==
  /\ (t \in Poppers /\ pc[t] = "idle" /\ ~Empty) \/ pc[t] = "woken"
  /\ Take(t)

----------------------------------------------------------------------------
\* queue_.push(*item) under mutex_, which is then unlocked.
Push(t) ==
  /\ t \in Producers /\ pc[t] = "idle" /\ pushes < MaxPush
  /\ pushes' = pushes + 1
  /\ queue' = Append(queue, pushes + 1)
  /\ Go(t, "notify")
  /\ UNCHANGED taken

\* cond_.notify_one(): wakes one waiter, or nobody when nobody waits.
NotifyOne(t) ==
  /\ pc[t] = "notify"
  /\ \/ Waiting = {} /\ Go(t, "idle")
     \/ \E w \in Waiting :
          pc' = [pc EXCEPT ![t] = "idle", ![w] = Awake(pc[w])]
  /\ UNCHANGED <<queue, pushes, taken>>

\* A wake-up of cond_ that no notify_one() caused.
SpuriousWakeup(t) ==
  /\ Spurious
  /\ t \in Waiting
  /\ Go(t, Awake(pc[t]))
  /\ UNCHANGED <<queue, pushes, taken>>

\* pop(item) holds mutex_ and stands at the head of its while loop.
AtPop(t) == (t \in Poppers /\ pc[t] = "idle") \/ pc[t] = "woken"

PopWait(t) ==
  /\ AtPop(t) /\ Empty
  /\ Go(t, "wait")
  /\ UNCHANGED <<queue, pushes, taken>>

PopTake(t) ==
  /\ AtPop(t) /\ ~Empty
  /\ Take(t)

\* pop(item, timeout_ms) tests the queue once, before it waits.
TimedPopWait(t) ==
  /\ t \in TimedPoppers /\ pc[t] = "idle" /\ Empty
  /\ Go(t, "timedWait")
  /\ UNCHANGED <<queue, pushes, taken>>

TimedPopTake(t) ==
  /\ t \in TimedPoppers /\ pc[t] = "idle" /\ ~Empty
  /\ Take(t)

\* wait_until returned no_timeout: take without another look at the queue.
TimedPopResume(t) ==
  /\ pc[t] = "timedWoken"
  /\ Take(t)

\* wait_until returned timeout.  It compares the clock with the deadline
\* after it has the mutex again, so a thread that was notified and got the
\* mutex too late also ends here: pop returns false.
TimedPopExpire(t) ==
  /\ pc[t] \in {"timedWait", "timedWoken"}
  /\ Go(t, "idle")
  /\ UNCHANGED <<queue, pushes, taken>>

Next == \/ \E t \in Threads : \/ Push(t) \/ NotifyOne(t) \/ SpuriousWakeup(t)
                             \/ PopWait(t) \/ PopTake(t)
        \/ \E t \in TimedPoppers : \/ TimedPopWait(t) \/ TimedPopTake(t)
                                  \/ TimedPopResume(t) \/ TimedPopExpire(t)

Spec == Init /\ [][Next]_vars

\* A thread inside a call is scheduled again; nobody is obliged to call.
FairSpec == /\ Spec
            /\ \A t \in Threads :
                 /\ WF_vars(NotifyOne(t))
                 /\ WF_vars(pc[t] = "woken" /\ (PopWait(t) \/ PopTake(t)))
                 /\ WF_vars(TimedPopExpire(t))

----------------------------------------------------------------------------
(* Each variable has its type, and a thread is where its calls can lead it: *)
(* pop(item) alone waits without a timeout, push alone notifies.           *)
TypeOK == /\ queue \in Seq(1 .. MaxPush)
          /\ pc \in [Threads -> PC]
          /\ At("notify") \subseteq Producers
          /\ At("wait") \cup At("woken") \subseteq Poppers
          /\ At("timedWait") \cup At("timedWoken") \subseteq TimedPoppers
          /\ pushes \in 0 .. MaxPush
          /\ taken \in Seq(1 .. MaxPush)

(* A pop that returns true hands out an element: front() and pop() are     *)
(* never called on an empty std::queue.                                    *)
PopsReturnElements == At("undefined") = {}

(* No element is stranded: as long as pop(item) is the only consumer, a    *)
(* thread waits only while every element in the queue is matched by a      *)
(* notification still to be issued or a thread that is already awake.      *)
NoStrandedItem ==
  TimedPoppers = {} /\ Waiting # {} =>
    Len(queue) <= Cardinality(At("notify")) + Cardinality(At("woken"))

(* ... so the consumers never all sleep beside a filled queue for good.    *)
WaitersServed ==
  (Waiting # {} /\ queue # <<>>) ~> (Waiting = {} \/ queue = <<>>)

(* The queue is a FIFO channel: whichever form of pop takes them, elements *)
(* leave in the order of their pushes, none is lost, also not by a timed   *)
(* pop that gives up, and none leaves twice.  This holds of the program    *)
(* until a pop of an empty queue, after which nothing can be claimed.      *)
Channel == INSTANCE Fifo WITH sent <- pushes, received <- taken
IsFifo == Channel!Spec
=================================================================================
