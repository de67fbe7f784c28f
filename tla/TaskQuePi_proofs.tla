---------------------------- MODULE TaskQuePi_proofs ----------------------------
(***************************************************************************)
(* Proofs about TaskQuePi for every set of threads and every bound.        *)
(***************************************************************************)
EXTENDS TaskQuePi, SequenceTheorems, FiniteSetTheorems, TLAPS

\* push on a std::queue.
LEMMA AppendStep ==
  ASSUME TypeOK, pushes < MaxPush
  PROVE  LET q == Append(queue, pushes + 1)
         IN  /\ q \in Seq(1 .. MaxPush)
             /\ Len(q) = Len(queue) + 1
             /\ \A i \in 1 .. Len(queue) : q[i] = queue[i]
             /\ q[Len(queue) + 1] = pushes + 1
<1>1. pushes + 1 \in 1 .. MaxPush
  BY BoundAssumption DEF TypeOK
<1> QED
  BY <1>1, AppendProperties DEF TypeOK

\* front and pop of a queue that is not empty.
LEMMA TakeElement ==
  ASSUME TypeOK, NEW t \in Threads, Take(t), queue # <<>>
  PROVE  /\ queue' \in Seq(1 .. MaxPush)
         /\ taken' \in Seq(1 .. MaxPush)
         /\ Len(queue) \in Nat \ {0}
         /\ Len(queue') = Len(queue) - 1
         /\ \A i \in 1 .. Len(queue') : queue'[i] = queue[i + 1]
         /\ taken' = Append(taken, queue[1])
         /\ Len(taken') = Len(taken) + 1
         /\ \A i \in 1 .. Len(taken) : taken'[i] = taken[i]
         /\ taken'[Len(taken) + 1] = queue[1]
         /\ Go(t, "idle")
         /\ pushes' = pushes
<1>1. /\ queue \in Seq(1 .. MaxPush) /\ taken \in Seq(1 .. MaxPush)
      /\ taken' = Append(taken, Head(queue)) /\ queue' = Tail(queue)
      /\ Go(t, "idle") /\ pushes' = pushes
  BY DEF TypeOK, Take
<1>2. /\ Head(queue) \in 1 .. MaxPush
      /\ queue' \in Seq(1 .. MaxPush)
      /\ Len(queue') = Len(queue) - 1
      /\ \A i \in 1 .. Len(queue') : queue'[i] = queue[i + 1]
  BY <1>1, HeadTailProperties
<1>3. Len(queue) \in Nat \ {0} /\ Head(queue) = queue[1]
  BY <1>1, EmptySeq
<1>4. /\ taken' \in Seq(1 .. MaxPush)
      /\ Len(taken') = Len(taken) + 1
      /\ \A i \in 1 .. Len(taken) : taken'[i] = taken[i]
      /\ taken'[Len(taken) + 1] = Head(queue)
  BY <1>1, <1>2, AppendProperties
<1> QED
  BY <1>1, <1>2, <1>3, <1>4

\* front and pop of an empty queue.
LEMMA TakeNothing ==
  ASSUME NEW t \in Threads, Take(t), queue = <<>>
  PROVE  /\ pc' = [u \in Threads |-> "undefined"]
         /\ UNCHANGED <<queue, pushes, taken>>
BY DEF Take

(***************************************************************************)
(* The data and the labels of the type invariant.  A thread that moves to  *)
(* a label that its role allows keeps the labels in order.                 *)
(***************************************************************************)
DataOK == /\ queue \in Seq(1 .. MaxPush)
          /\ pushes \in 0 .. MaxPush
          /\ taken \in Seq(1 .. MaxPush)

Allowed(t, label) ==
  /\ label \in PC
  /\ label = "notify" => t \in Producers
  /\ label \in {"wait", "woken"} => t \in Poppers
  /\ label \in {"timedWait", "timedWoken"} => t \in TimedPoppers

LabelsOK == /\ pc \in [Threads -> PC]
            /\ \A t \in Threads : Allowed(t, pc[t])

LEMMA TypeParts == TypeOK <=> DataOK /\ LabelsOK
<1>1. TypeOK => DataOK /\ LabelsOK
  BY DEF TypeOK, DataOK, LabelsOK, Allowed, At
<1>2. DataOK /\ LabelsOK => TypeOK
  BY DEF TypeOK, DataOK, LabelsOK, Allowed, At
<1> QED
  BY <1>1, <1>2

LEMMA MoveKeepsLabels ==
  ASSUME LabelsOK, NEW t \in Threads, NEW label, Allowed(t, label), Go(t, label)
  PROVE  LabelsOK'
BY DEF LabelsOK, Allowed, Go

\* A notification moves the notifier and one waiter.
LEMMA WakingKeepsLabels ==
  ASSUME LabelsOK, NEW t \in Threads, NEW w \in Waiting,
         pc' = [pc EXCEPT ![t] = "idle", ![w] = Awake(pc[w])]
  PROVE  LabelsOK'
<1>1. w \in Threads /\ Allowed(w, Awake(pc[w])) /\ Allowed(t, "idle")
  BY DEF LabelsOK, Allowed, Waiting, At, Awake, PC
<1> QED
  BY <1>1 DEF LabelsOK, Allowed

\* Taking keeps the types, whether there is an element or not.
LEMMA TakeKeepsType ==
  ASSUME TypeOK, NEW t \in Threads, Take(t)
  PROVE  TypeOK'
<1>1. DataOK /\ LabelsOK
  BY TypeParts
<1>2. CASE queue = <<>>
  <2>1. pc' = [u \in Threads |-> "undefined"] /\ UNCHANGED <<queue, pushes, taken>>
    BY <1>2, TakeNothing
  <2>2. DataOK' /\ LabelsOK'
    BY <1>1, <2>1 DEF DataOK, LabelsOK, Allowed, PC
  <2> QED
    BY <2>2, TypeParts, PTL
<1>3. CASE queue # <<>>
  <2>1. DataOK' /\ Go(t, "idle")
    BY <1>1, <1>3, TakeElement DEF DataOK
  <2>2. LabelsOK'
    BY <1>1, <2>1, MoveKeepsLabels DEF Allowed, PC
  <2> QED
    BY <2>1, <2>2, TypeParts, PTL
<1> QED
  BY <1>2, <1>3

\* The steps that only move threads.
LEMMA MovesKeepLabels ==
  ASSUME LabelsOK, NEW t \in Threads,
         \/ NotifyOne(t) \/ SpuriousWakeup(t) \/ PopWait(t)
         \/ (t \in TimedPoppers /\ (TimedPopWait(t) \/ TimedPopExpire(t)))
  PROVE  LabelsOK' /\ UNCHANGED <<queue, pushes, taken>>
<1>1. CASE NotifyOne(t)
  <2>1. CASE Waiting = {} /\ Go(t, "idle")
    BY <1>1, <2>1, MoveKeepsLabels DEF NotifyOne, Allowed, PC
  <2>2. CASE \E w \in Waiting : pc' = [pc EXCEPT ![t] = "idle", ![w] = Awake(pc[w])]
    BY <1>1, <2>2, WakingKeepsLabels DEF NotifyOne
  <2> QED
    BY <1>1, <2>1, <2>2 DEF NotifyOne
<1>2. CASE SpuriousWakeup(t)
  <2>1. Allowed(t, Awake(pc[t])) /\ Go(t, Awake(pc[t]))
    BY <1>2 DEF SpuriousWakeup, LabelsOK, Allowed, Waiting, At, Awake, PC
  <2> QED
    BY <1>2, <2>1, MoveKeepsLabels DEF SpuriousWakeup
<1>3. CASE PopWait(t)
  <2>1. Allowed(t, "wait") /\ Go(t, "wait")
    BY <1>3 DEF PopWait, AtPop, LabelsOK, Allowed, PC
  <2> QED
    BY <1>3, <2>1, MoveKeepsLabels DEF PopWait
<1>4. CASE t \in TimedPoppers /\ TimedPopWait(t)
  BY <1>4, MoveKeepsLabels DEF TimedPopWait, Allowed, PC
<1>5. CASE t \in TimedPoppers /\ TimedPopExpire(t)
  BY <1>5, MoveKeepsLabels DEF TimedPopExpire, Allowed, PC
<1> QED
  BY <1>1, <1>2, <1>3, <1>4, <1>5

\* The type invariant of the queue is inductive.
LEMMA TypeInductive ==
  ASSUME TypeOK, [Next]_vars
  PROVE  TypeOK'
<1>0. DataOK /\ LabelsOK
  BY TypeParts
<1>1. CASE UNCHANGED vars
  BY <1>1 DEF TypeOK, vars, At
<1>2. ASSUME NEW t \in Threads, Push(t)
      PROVE  TypeOK'
  <2>1. pushes' \in 0 .. MaxPush
    BY <1>0, <1>2, BoundAssumption DEF DataOK, Push
  <2>2. queue' \in Seq(1 .. MaxPush)
    BY <1>2, AppendStep DEF Push
  <2>3. DataOK'
    BY <1>0, <1>2, <2>1, <2>2 DEF DataOK, Push
  <2>4. LabelsOK'
    BY <1>0, <1>2, MoveKeepsLabels DEF Push, Allowed, PC
  <2> QED
    BY <2>3, <2>4, TypeParts, PTL
<1>3. ASSUME NEW t \in Threads,
             \/ NotifyOne(t) \/ SpuriousWakeup(t) \/ PopWait(t)
             \/ (t \in TimedPoppers /\ (TimedPopWait(t) \/ TimedPopExpire(t)))
      PROVE  TypeOK'
  <2>1. DataOK' /\ LabelsOK'
    BY <1>0, <1>3, MovesKeepLabels DEF DataOK
  <2> QED
    BY <2>1, TypeParts, PTL
<1>4. ASSUME NEW t \in Threads, PopTake(t) \/ TimedPopTake(t) \/ TimedPopResume(t)
      PROVE  TypeOK'
  BY <1>4, TakeKeepsType DEF PopTake, TimedPopTake, TimedPopResume
<1> QED
  BY <1>1, <1>2, <1>3, <1>4 DEF Next, Threads

LEMMA TypeInit == Init => TypeOK
BY BoundAssumption DEF Init, TypeOK, PC, At

\* Every variable keeps its type and every thread is where its calls can lead it,
\* whoever calls which form of pop.
THEOREM TypeCorrect == Spec => []TypeOK
BY TypeInit, TypeInductive, PTL DEF Spec

----------------------------------------------------------------------------
(***************************************************************************)
(* The refinement needs to know what is in the queue: the elements that    *)
(* follow the ones handed out.                                             *)
(***************************************************************************)
FifoInv == /\ TypeOK
           /\ Len(taken) + Len(queue) = pushes
           /\ \A i \in 1 .. Len(taken) : taken[i] = i
           /\ \A i \in 1 .. Len(queue) : queue[i] = Len(taken) + i

\* The part of the invariant that speaks of the elements.
LEMMA ElementsKept ==
  ASSUME FifoInv, NEW t \in Threads, Take(t), queue # <<>>
  PROVE  /\ taken' = Append(taken, Len(taken) + 1)
         /\ Len(taken) < pushes
         /\ pushes' = pushes
         /\ Len(taken') + Len(queue') = pushes'
         /\ \A i \in 1 .. Len(taken') : taken'[i] = i
         /\ \A i \in 1 .. Len(queue') : queue'[i] = Len(taken') + i
<1>1. TypeOK /\ Len(taken) \in Nat /\ Len(queue) \in Nat
  BY DEF FifoInv, TypeOK
<1>2. /\ Len(queue) \in Nat \ {0}
      /\ Len(queue') = Len(queue) - 1
      /\ \A i \in 1 .. Len(queue') : queue'[i] = queue[i + 1]
      /\ taken' = Append(taken, queue[1])
      /\ Len(taken') = Len(taken) + 1
      /\ \A i \in 1 .. Len(taken) : taken'[i] = taken[i]
      /\ taken'[Len(taken) + 1] = queue[1]
      /\ pushes' = pushes
  BY <1>1, TakeElement
<1>3. queue[1] = Len(taken) + 1
  BY <1>1, <1>2 DEF FifoInv
<1>4. \A i \in 1 .. Len(taken') : taken'[i] = i
  BY <1>1, <1>2, <1>3 DEF FifoInv
<1>5. \A i \in 1 .. Len(queue') : queue'[i] = Len(taken') + i
  BY <1>1, <1>2 DEF FifoInv
<1> QED
  BY <1>1, <1>2, <1>3, <1>4, <1>5 DEF FifoInv

\* A push is a step of the channel.
LEMMA PushStep ==
  ASSUME FifoInv, TypeOK', NEW t \in Threads, Push(t)
  PROVE  FifoInv' /\ Channel!Send
<1>1. /\ queue' = Append(queue, pushes + 1)
      /\ pushes' = pushes + 1 /\ taken' = taken
      /\ pushes < MaxPush
  BY DEF Push
<1>2. /\ Len(queue') = Len(queue) + 1
      /\ \A i \in 1 .. Len(queue) : queue'[i] = queue[i]
      /\ queue'[Len(queue) + 1] = pushes + 1
  BY <1>1, AppendStep DEF FifoInv
<1>3. Len(taken) \in Nat /\ Len(queue) \in Nat /\ pushes \in Nat
  BY DEF FifoInv, TypeOK
<1>4. ASSUME NEW i \in 1 .. Len(queue')
      PROVE  queue'[i] = Len(taken') + i
  <2>1. CASE i = Len(queue) + 1
    <3>1. pushes = Len(taken) + Len(queue)
      BY <1>3 DEF FifoInv
    <3>2. queue'[i] = pushes + 1 /\ Len(taken') = Len(taken)
      BY <1>1, <1>2, <2>1
    <3> QED
      BY <1>3, <2>1, <3>1, <3>2
  <2>2. CASE i \in 1 .. Len(queue)
    BY <1>1, <1>2, <2>2 DEF FifoInv
  <2> QED
    BY <1>2, <1>3, <2>1, <2>2
<1>5. FifoInv'
  BY <1>1, <1>2, <1>3, <1>4 DEF FifoInv
<1> QED
  BY <1>1, <1>5 DEF Channel!Send

\* Each step keeps the invariant and is a step of the channel, or a stutter.
LEMMA FifoStep ==
  ASSUME FifoInv, [Next]_vars
  PROVE  FifoInv' /\ [Channel!Next]_(Channel!vars)
<1> USE DEF Channel!vars
<1>1. TypeOK /\ TypeOK'
  BY TypeInductive DEF FifoInv
<1>2. ASSUME UNCHANGED <<queue, pushes, taken>>
      PROVE  FifoInv' /\ [Channel!Next]_(Channel!vars)
  BY <1>1, <1>2 DEF FifoInv
<1>3. ASSUME NEW t \in Threads, Push(t)
      PROVE  FifoInv' /\ [Channel!Next]_(Channel!vars)
  BY <1>1, <1>3, PushStep DEF Channel!Next
<1>4. ASSUME NEW t \in Threads, Take(t)
      PROVE  FifoInv' /\ [Channel!Next]_(Channel!vars)
  <2>1. CASE queue = <<>>
    BY <1>2, <1>4, <2>1, TakeNothing
  <2>2. CASE queue # <<>>
    <3>1. FifoInv'
      BY <1>1, <1>4, <2>2, ElementsKept DEF FifoInv
    <3>2. Channel!Receive
      BY <1>4, <2>2, ElementsKept DEF Channel!Receive
    <3> QED
      BY <3>1, <3>2 DEF Channel!Next
  <2> QED
    BY <2>1, <2>2
<1>5. CASE UNCHANGED vars
  BY <1>2, <1>5 DEF vars
<1>6. ASSUME NEW t \in Threads,
             NotifyOne(t) \/ SpuriousWakeup(t) \/ PopWait(t)
               \/ TimedPopWait(t) \/ TimedPopExpire(t)
      PROVE  FifoInv' /\ [Channel!Next]_(Channel!vars)
  BY <1>2, <1>6 DEF NotifyOne, SpuriousWakeup, PopWait, TimedPopWait, TimedPopExpire
<1>7. ASSUME NEW t \in Threads, PopTake(t) \/ TimedPopTake(t) \/ TimedPopResume(t)
      PROVE  Take(t)
  BY <1>7 DEF PopTake, TimedPopTake, TimedPopResume
<1> QED
  BY <1>3, <1>4, <1>5, <1>6, <1>7 DEF Next, Threads

LEMMA FifoInit == Init => FifoInv /\ Channel!Init
BY TypeInit DEF Init, FifoInv, Channel!Init

\* Until a pop of an empty queue, the queue implements the FIFO channel, for any
\* number of producers and consumers, both forms of pop and spurious wake-ups.
THEOREM ImplementsFifo == Spec => IsFifo
BY FifoInit, FifoStep, PTL DEF Spec, IsFifo, Channel!Spec

----------------------------------------------------------------------------
(***************************************************************************)
(* Without the timed pop, that never happens.                              *)
(***************************************************************************)
LEMMA DefinedStep ==
  ASSUME TimedPoppers = {}, TypeOK, PopsReturnElements, [Next]_vars
  PROVE  PopsReturnElements'
<1>1. pc \in [Threads -> PC] /\ \A t \in Threads : pc[t] # "undefined"
  BY DEF TypeOK, PopsReturnElements, At
<1>2. SUFFICES \A t \in Threads : pc'[t] # "undefined"
  BY DEF PopsReturnElements, At
<1>3. CASE UNCHANGED vars
  BY <1>1, <1>3 DEF vars
<1>4. ASSUME NEW t \in Threads, PopTake(t)
      PROVE  \A u \in Threads : pc'[u] # "undefined"
  <2>1. Go(t, "idle")
    BY <1>4 DEF PopTake, Take, Empty
  <2> QED
    BY <1>1, <2>1 DEF Go
<1>5. ASSUME NEW t \in Threads, NotifyOne(t)
      PROVE  \A u \in Threads : pc'[u] # "undefined"
  BY <1>1, <1>5 DEF NotifyOne, Go, Waiting, At, Awake
<1>6. ASSUME NEW t \in Threads, Push(t) \/ SpuriousWakeup(t) \/ PopWait(t)
      PROVE  \A u \in Threads : pc'[u] # "undefined"
  BY <1>1, <1>6 DEF Push, SpuriousWakeup, PopWait, Go, Awake
<1> QED
  BY <1>3, <1>4, <1>5, <1>6 DEF Next

\* Where pop(item) alone is used, front() and pop() always find an element.
THEOREM PopsAreDefined ==
  ASSUME TimedPoppers = {} PROVE Spec => []PopsReturnElements
<1>1. Init => PopsReturnElements
  BY DEF Init, PopsReturnElements, At
<1>2. TypeOK /\ PopsReturnElements /\ [Next]_vars => PopsReturnElements'
  BY DefinedStep
<1> QED
  BY <1>1, <1>2, TypeInit, TypeInductive, PTL DEF Spec

----------------------------------------------------------------------------
(***************************************************************************)
(* No element is stranded.  Counting is needed: two pushes whose           *)
(* notifications are both still to come may not be answered by one waiter. *)
(***************************************************************************)
\* The threads at a label are finitely many.
LEMMA ThreadsFinite == \A label : IsFiniteSet(At(label))
<1>1. IsFiniteSet(Threads)
  BY RoleAssumption DEF Threads
<1>2. \A label : At(label) \in SUBSET Threads
  BY DEF At
<1> QED
  BY <1>1, <1>2, FS_Subset

\* A thread that moves from one label to another changes two counts by one.
LEMMA CountMove ==
  ASSUME TypeOK, NEW t \in Threads, NEW to \in PC, pc[t] # to, Go(t, to),
         NEW label \in PC
  PROVE  /\ Cardinality(At(label)) \in Nat /\ Cardinality(At(label)') \in Nat
         /\ label = to => Cardinality(At(label)') = Cardinality(At(label)) + 1
         /\ label = pc[t] => Cardinality(At(label)') = Cardinality(At(label)) - 1
         /\ label \notin {to, pc[t]} => Cardinality(At(label)') = Cardinality(At(label))
<1>1. /\ label = to => At(label)' = At(label) \cup {t} /\ t \notin At(label)
      /\ label = pc[t] => At(label)' = At(label) \ {t} /\ t \in At(label)
      /\ label \notin {to, pc[t]} => At(label)' = At(label)
  BY DEF TypeOK, Go, At
<1>2. IsFiniteSet(At(label))
  BY ThreadsFinite
<1>3. Cardinality(At(label)) \in Nat
  BY <1>2, FS_CardinalityType
<1>4. /\ IsFiniteSet(At(label) \cup {t}) /\ IsFiniteSet(At(label) \ {t})
      /\ t \notin At(label) => Cardinality(At(label) \cup {t}) = Cardinality(At(label)) + 1
      /\ t \in At(label) => Cardinality(At(label) \ {t}) = Cardinality(At(label)) - 1
  BY <1>2, FS_AddElement, FS_RemoveElement
<1>5. IsFiniteSet(At(label)')
  BY <1>1, <1>2, <1>4
<1>6. Cardinality(At(label)') \in Nat
  BY <1>5, FS_CardinalityType
<1> QED
  BY <1>1, <1>3, <1>4, <1>6

\* The counts behind NoStrandedItem.
Matched == Len(queue) <= Cardinality(At("notify")) + Cardinality(At("woken"))

LEMMA CountsAreNat ==
  /\ Cardinality(At("notify")) \in Nat
  /\ Cardinality(At("woken")) \in Nat
BY ThreadsFinite, FS_CardinalityType

\* A notification turns one pending notification into one woken thread.
LEMMA NotifyKeepsSum ==
  ASSUME TypeOK, NEW t \in Threads, pc[t] = "notify", NEW w \in At("wait"),
         pc' = [pc EXCEPT ![t] = "idle", ![w] = "woken"]
  PROVE  Cardinality(At("notify")') + Cardinality(At("woken")')
           = Cardinality(At("notify")) + Cardinality(At("woken"))
<1>1. /\ At("notify")' = At("notify") \ {t} /\ t \in At("notify")
      /\ At("woken")' = At("woken") \cup {w} /\ w \notin At("woken")
  BY DEF TypeOK, At
<1>2. /\ Cardinality(At("notify") \ {t}) = Cardinality(At("notify")) - 1
      /\ Cardinality(At("woken") \cup {w}) = Cardinality(At("woken")) + 1
  BY <1>1, ThreadsFinite, FS_RemoveElement, FS_AddElement
<1>3. Cardinality(At("notify")') = Cardinality(At("notify")) - 1
  BY <1>1, <1>2
<1>4. Cardinality(At("woken")') = Cardinality(At("woken")) + 1
  BY <1>1, <1>2
<1> QED
  BY <1>3, <1>4, CountsAreNat

\* Each step keeps the queue matched while somebody waits.
LEMMA StrandStep ==
  ASSUME TimedPoppers = {}, TypeOK, TypeOK', NoStrandedItem, [Next]_vars
  PROVE  NoStrandedItem'
<1>1. TypeOK /\ Len(queue) \in Nat
  BY DEF TypeOK
<1>2. /\ Waiting = At("wait") /\ Waiting' = At("wait")'
  BY DEF TypeOK, Waiting
<1>3. SUFFICES ASSUME Waiting' # {} PROVE Matched'
  BY DEF NoStrandedItem, Matched
<1>4. Waiting # {} => Matched
  BY DEF NoStrandedItem, Matched
<1>5. CASE UNCHANGED vars
  BY <1>3, <1>4, <1>5 DEF vars, Matched, Waiting, At
<1>6. ASSUME NEW t \in Threads, Push(t)
      PROVE  Matched'
  <2>1. pc[t] = "idle" /\ Go(t, "notify") /\ queue' = Append(queue, pushes + 1)
        /\ pushes < MaxPush
    BY <1>6 DEF Push
  <2>2. Len(queue') = Len(queue) + 1
    BY <1>1, <2>1, AppendStep
  <2>3. /\ Cardinality(At("notify")') = Cardinality(At("notify")) + 1
        /\ Cardinality(At("woken")') = Cardinality(At("woken"))
    BY <1>1, <2>1, CountMove DEF PC
  <2>4. Waiting # {}
    BY <1>1, <1>2, <1>3, <2>1 DEF At, Go, TypeOK
  <2> QED
    BY <1>1, <1>4, <2>2, <2>3, <2>4, CountsAreNat DEF Matched
<1>7. ASSUME NEW t \in Threads, NotifyOne(t)
      PROVE  Matched'
  <2>1. CASE Waiting = {} /\ Go(t, "idle")
    BY <1>1, <1>2, <1>3, <2>1 DEF At, Go, TypeOK
  <2>2. ASSUME NEW w \in Waiting,
               pc' = [pc EXCEPT ![t] = "idle", ![w] = Awake(pc[w])]
        PROVE  Matched'
    <3>1. w \in At("wait") /\ Awake(pc[w]) = "woken" /\ pc[t] = "notify"
          /\ queue' = queue
      BY <1>2, <1>7, <2>2 DEF At, Awake, NotifyOne
    <3> QED
      BY <1>1, <1>4, <2>2, <3>1, NotifyKeepsSum DEF Matched
  <2> QED
    BY <1>7, <2>1, <2>2 DEF NotifyOne
<1>8. ASSUME NEW t \in Threads, SpuriousWakeup(t)
      PROVE  Matched'
  <2>1. pc[t] = "wait" /\ Go(t, "woken") /\ queue' = queue /\ t \in Waiting
    BY <1>2, <1>8 DEF SpuriousWakeup, At, Awake
  <2>2. /\ Cardinality(At("notify")') = Cardinality(At("notify"))
        /\ Cardinality(At("woken")') = Cardinality(At("woken")) + 1
    BY <1>1, <2>1, CountMove DEF PC
  <2> QED
    BY <1>1, <1>4, <2>1, <2>2, CountsAreNat DEF Matched
<1>9. ASSUME NEW t \in Threads, PopWait(t)
      PROVE  Matched'
  <2>1. Go(t, "wait") /\ pc[t] \in {"idle", "woken"} /\ Len(queue') = 0
    BY <1>9 DEF PopWait, AtPop, Empty
  <2>2. /\ Cardinality(At("notify")') \in Nat
        /\ Cardinality(At("woken")') \in Nat
    BY <1>1, <2>1, CountMove DEF PC
  <2> QED
    BY <2>1, <2>2 DEF Matched
<1>10. ASSUME NEW t \in Threads, PopTake(t)
       PROVE  Matched'
  <2>1. /\ Go(t, "idle") /\ Take(t) /\ queue # <<>>
        /\ pc[t] = "idle" \/ pc[t] = "woken"
    BY <1>10 DEF PopTake, AtPop, Empty, Take
  <2>2. Len(queue') = Len(queue) - 1
    BY <1>1, <2>1, TakeElement
  <2>3. Waiting # {}
    BY <1>1, <1>2, <1>3, <2>1 DEF At, Go, TypeOK
  <2>4. CASE pc[t] = "idle"
    <3>1. pc' = pc
      BY <1>1, <2>1, <2>4 DEF Go, TypeOK
    <3> QED
      BY <1>1, <1>4, <2>2, <2>3, <3>1, CountsAreNat DEF Matched, At
  <2>5. CASE pc[t] = "woken"
    <3>1. /\ Cardinality(At("notify")') = Cardinality(At("notify"))
          /\ Cardinality(At("woken")') = Cardinality(At("woken")) - 1
      BY <1>1, <2>1, <2>5, CountMove DEF PC
    <3> QED
      BY <1>1, <1>4, <2>2, <2>3, <3>1, CountsAreNat DEF Matched
  <2> QED
    BY <2>1, <2>4, <2>5
<1> QED
  BY <1>5, <1>6, <1>7, <1>8, <1>9, <1>10 DEF Next

\* No consumer sleeps beside an element that nobody is going to fetch.
THEOREM NothingStranded == Spec => []NoStrandedItem
<1>1. CASE TimedPoppers = {}
  <2>1. Init => TypeOK /\ NoStrandedItem
    BY TypeInit DEF NoStrandedItem, Init, Waiting, At
  <2>2. TypeOK /\ NoStrandedItem /\ [Next]_vars => (TypeOK /\ NoStrandedItem)'
    BY <1>1, TypeInductive, StrandStep
  <2> QED
    BY <2>1, <2>2, PTL DEF Spec
<1>2. CASE TimedPoppers # {}
  <2>1. NoStrandedItem
    BY <1>2 DEF NoStrandedItem
  <2> QED
    BY <2>1, PTL
<1> QED
  BY <1>1, <1>2
=================================================================================
