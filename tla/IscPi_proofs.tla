------------------------------ MODULE IscPi_proofs ------------------------------
(***************************************************************************)
(* A remembered handle belongs to the device whose address it is           *)
(* remembered by.  No step takes a handle from a device, only the other    *)
(* client gives handles back, and the handle that a task is about to       *)
(* remember is one that the daemon gave to its device (Carried).  Before   *)
(* isc_master_init every address has the handle 0, which is why no task    *)
(* may begin earlier (Started).                                            *)
(***************************************************************************)
EXTENDS IscPi, FiniteSetTheorems, TLAPS

Started == \A t \in Tasks : call[t].at # "idle" => inits > 0

Carried == \A t \in Tasks : call[t].at = "opened" =>
             call[t].handle > 0 /\ daemon[call[t].handle] = call[t].address

Inv == TypeOK /\ Started /\ Carried /\ OwnHandles

Results == [err : {"none", "OK", "FAIL"}, reached : BOOLEAN]

Calls == [at : {"connect", "opened", "access"}, fn : ByHandle \cup ByFile,
          address : Addresses, left : 1 .. MAX_LEN, handle : 0 .. HANDLES - 1]

(* The daemon's lowest free handle is one of its free handles.              *)
LEMMA LowestIsFree ==
  ASSUME NEW hs, hs \subseteq Nat, hs # {}
  PROVE  Lowest(hs) \in hs
<1>1. PICK m \in hs : \A i \in hs : ~ (<<i, m>> \in OpToRel(<, Nat))
  BY NatLessThanWellFounded, WFMin
<1>2. \A i \in hs : m <= i
  <2> TAKE i \in hs
  <2>1. i \in Nat /\ m \in Nat
    OBVIOUS
  <2>2. i < m => <<i, m>> \in OpToRel(<, Nat)
    BY <2>1 DEF OpToRel
  <2>3. ~ (<<i, m>> \in OpToRel(<, Nat))
    BY <1>1
  <2>4. ~ (i < m)
    BY <2>2, <2>3
  <2> QED BY <2>1, <2>4
<1> QED BY <1>2 DEF Lowest

(* A handle that the daemon gives is free and in its table.                 *)
LEMMA Given ==
  ASSUME TypeOK, Closed # {}
  PROVE  /\ Lowest(Closed) \in 0 .. HANDLES - 1
         /\ daemon[Lowest(Closed)] = None
<1>1. Closed \subseteq Nat /\ Closed \subseteq 0 .. HANDLES - 1
  BY DevicesAssumption DEF Closed, TypeOK
<1>2. Lowest(Closed) \in Closed
  BY <1>1, LowestIsFree
<1> QED BY <1>1, <1>2 DEF Closed

(* A task that is in a call uses the address of a device.                   *)
LEMMA InCall ==
  ASSUME TypeOK, NEW t \in Tasks, call[t].at # "idle"
  PROVE  call[t] \in Calls /\ call[t].address \in Addresses
BY DEF TypeOK, Idle, Calls

LEMMA InitInv == Init => Inv
BY DevicesAssumption DEF Init, Inv, TypeOK, Started, Carried, OwnHandles, Idle

(* What Return does to the types.                                           *)
LEMMA ReturnTypes ==
  ASSUME TypeOK, NEW t \in Tasks, NEW err \in {"none", "OK", "FAIL"},
         NEW reached \in BOOLEAN, Return(t, err, reached)
  PROVE  /\ call' \in [Tasks -> {Idle} \cup Calls]
         /\ result' \in Results
         /\ call'[t].at = "idle" /\ \A u \in Tasks \ {t} : call'[u] = call[u]
BY DEF TypeOK, Return, Calls, Results, Idle

----------------------------------------------------------------------------
LEMMA StepInit == ASSUME Inv, isc_master_init PROVE Inv'
BY DevicesAssumption DEF Inv, isc_master_init, TypeOK, Started, Carried, OwnHandles

LEMMA StepProbe ==
  ASSUME Inv,
         isc_scan \/ \E t \in Tasks : ProbeFails(t) \/ \E a \in Addresses : isc_probe(t, a)
  PROVE  Inv'
<1>1. CASE isc_scan
  BY <1>1, DevicesAssumption DEF Inv, isc_scan, TypeOK, Started, Carried, OwnHandles
<1>2. CASE \E t \in Tasks : ProbeFails(t) \/ \E a \in Addresses : isc_probe(t, a)
  <2>1. UNCHANGED <<isc_fd, daemon, inits, scans, call>>
    BY <1>2 DEF ProbeFails, isc_probe
  <2>2. \E err \in {"OK", "FAIL"}, reached \in BOOLEAN :
          result' = [err |-> err, reached |-> reached]
    <3>1. CASE \E t \in Tasks : ProbeFails(t)
      BY <3>1 DEF ProbeFails
    <3>2. CASE \E t \in Tasks, a \in Addresses : isc_probe(t, a)
      <4> PICK t \in Tasks, a \in Addresses : isc_probe(t, a)
        BY <3>2
      <4> PICK port \in FIRST_FILE .. FIRST_FILE + scans - 1 :
                result' = IF port \in DOMAIN daemon /\ daemon[port] # None
                            THEN [err |-> "OK", reached |-> daemon[port] = a]
                            ELSE [err |-> "FAIL", reached |-> FALSE]
        BY DEF isc_probe
      <4> QED
        OBVIOUS
    <3> QED
      BY <1>2, <3>1, <3>2
  <2>3. result' \in Results
    BY <2>2 DEF Results
  <2> QED BY <2>1, <2>3 DEF Inv, TypeOK, Started, Carried, OwnHandles, Results
<1> QED BY <1>1, <1>2

LEMMA StepEnter ==
  ASSUME Inv, NEW t \in Tasks, NEW fn \in ByHandle \cup ByFile, NEW a \in Addresses,
         NEW len \in 1 .. MAX_LEN, Enter(t, fn, a, len)
  PROVE  Inv'
<1>1. call' \in [Tasks -> {Idle} \cup Calls]
  BY DevicesAssumption DEF Inv, TypeOK, Enter, Calls
<1>2. UNCHANGED <<isc_fd, daemon, inits, scans, result>> /\ inits > 0
  BY DEF Enter
<1>3. Carried'
  BY <1>2 DEF Inv, TypeOK, Carried, Enter
<1> QED BY <1>1, <1>2, <1>3 DEF Inv, TypeOK, Started, OwnHandles, Calls

(* The daemon gives a free handle, so that no address remembers it and no   *)
(* other task is about to.                                                  *)
LEMMA StepConnect ==
  ASSUME Inv, NEW t \in Tasks, Connect(t)
  PROVE  Inv'
<1> DEFINE a == call[t].address
           h == Lowest(Closed)
<1>1. /\ call[t] \in Calls /\ a \in Addresses /\ call[t].at = "connect"
      /\ inits > 0 /\ UNCHANGED <<isc_fd, inits, scans, result>>
  BY InCall DEF Inv, Connect, Started
<1>2. CASE Closed = {}
  <2>1. call' = [call EXCEPT ![t].at = "access"] /\ UNCHANGED daemon
    BY <1>2 DEF Connect
  <2>2. call' \in [Tasks -> {Idle} \cup Calls]
    BY <1>1, <2>1 DEF Inv, TypeOK, Calls
  <2> QED BY <1>1, <2>1, <2>2 DEF Inv, TypeOK, Started, Carried, OwnHandles, Calls
<1>3. CASE Closed # {}
  <2>1. h \in 0 .. HANDLES - 1 /\ daemon[h] = None
    BY <1>3, Given DEF Inv
  <2>2. /\ daemon' = [daemon EXCEPT ![h] = a]
        /\ call' = IF h > 0 THEN [call EXCEPT ![t].at = "opened", ![t].handle = h]
                            ELSE [call EXCEPT ![t].at = "access"]
    BY <1>3 DEF Connect
  <2> HIDE DEF h
  <2>3. daemon' \in [0 .. HANDLES - 1 -> Addresses \cup {Foreign, None}]
    BY <1>1, <2>1, <2>2 DEF Inv, TypeOK
  <2>4. OwnHandles'
    BY <1>1, <2>1, <2>2, DevicesAssumption DEF Inv, TypeOK, OwnHandles
  <2>5. call' \in [Tasks -> {Idle} \cup Calls]
    BY <1>1, <2>1, <2>2 DEF Inv, TypeOK, Calls
  <2>6. Carried'
    <3> SUFFICES ASSUME NEW u \in Tasks, call'[u].at = "opened"
                 PROVE  call'[u].handle > 0 /\ daemon'[call'[u].handle] = call'[u].address
      BY DEF Carried
    <3>1. CASE u = t
      <4>1. h > 0 /\ call'[t] = [call[t] EXCEPT !.at = "opened", !.handle = h]
        BY <1>1, <2>2, <3>1 DEF Inv, TypeOK, Calls
      <4>2. call'[t].handle = h /\ call'[t].address = a
        BY <1>1, <4>1 DEF Calls
      <4> QED BY <2>1, <2>2, <3>1, <4>1, <4>2 DEF Inv, TypeOK
    <3>2. CASE u # t
      <4>1. call'[u] = call[u]
        BY <2>2, <3>2 DEF Inv, TypeOK
      <4>2. call[u].handle > 0 /\ daemon[call[u].handle] = call[u].address
        BY <4>1 DEF Inv, Carried
      <4>3. call[u] \in Calls /\ call[u].address # None
        BY <4>1, InCall, DevicesAssumption DEF Inv
      <4> QED BY <2>1, <2>2, <4>1, <4>2, <4>3 DEF Inv, TypeOK, Calls
    <3> QED BY <3>1, <3>2
  <2> QED BY <1>1, <2>3, <2>4, <2>5, <2>6 DEF Inv, TypeOK, Started, Calls
<1> QED BY <1>2, <1>3

(* What is remembered was given to the device with that address.            *)
LEMMA StepOpened ==
  ASSUME Inv, NEW t \in Tasks, Opened(t)
  PROVE  Inv'
<1> DEFINE a == call[t].address
           h == call[t].handle
<1>1. /\ call[t] \in Calls /\ a \in Addresses /\ call[t].at = "opened"
      /\ inits > 0 /\ UNCHANGED <<daemon, inits, scans>>
      /\ h \in 0 .. HANDLES - 1 /\ h > 0 /\ daemon[h] = a
  BY InCall DEF Inv, Opened, Started, Carried, Calls
<1>2. isc_fd' = [isc_fd EXCEPT ![a] = h] /\ Return(t, "FAIL", FALSE)
  BY DEF Opened, Remember
<1>3. /\ call' \in [Tasks -> {Idle} \cup Calls] /\ result' \in Results
      /\ call'[t].at = "idle" /\ \A u \in Tasks \ {t} : call'[u] = call[u]
  BY <1>2, ReturnTypes DEF Inv
<1> HIDE DEF h
<1>4. isc_fd' \in [Addresses -> -1 .. HANDLES - 1]
  BY <1>1, <1>2, DevicesAssumption DEF Inv, TypeOK
<1>5. OwnHandles'
  BY <1>1, <1>2 DEF Inv, TypeOK, OwnHandles
<1>6. Carried'
  BY <1>1, <1>3 DEF Inv, Carried
<1> QED BY <1>1, <1>3, <1>4, <1>5, <1>6 DEF Inv, TypeOK, Started, Calls, Results

LEMMA StepTransfer ==
  ASSUME Inv, NEW t \in Tasks, Access(t) \/ WriteFile(t)
  PROVE  Inv'
<1>1. UNCHANGED <<isc_fd, daemon, inits, scans>> /\ call[t].at = "access"
  BY DEF Access, WriteFile
<1>2. call[t] \in Calls /\ inits > 0
  BY <1>1, InCall DEF Inv, Started
<1>3. CASE \E err \in {"none", "OK", "FAIL"}, reached \in BOOLEAN : Return(t, err, reached)
  <2>1. /\ call' \in [Tasks -> {Idle} \cup Calls] /\ result' \in Results
        /\ call'[t].at = "idle" /\ \A u \in Tasks \ {t} : call'[u] = call[u]
    BY <1>3, ReturnTypes DEF Inv
  <2>2. Carried'
    BY <1>1, <2>1 DEF Inv, Carried
  <2> QED BY <1>1, <1>2, <2>1, <2>2 DEF Inv, TypeOK, Started, OwnHandles, Calls, Results
<1>4. CASE call[t].left > 1 /\ call' = [call EXCEPT ![t].left = @ - 1] /\ UNCHANGED result
  <2> DEFINE c == [call[t] EXCEPT !.left = @ - 1]
  <2>1. call[t].left - 1 \in 1 .. MAX_LEN
    BY <1>2, <1>4, DevicesAssumption DEF Calls
  <2>2. c \in Calls /\ c.at = "access"
    BY <1>1, <1>2, <2>1 DEF Calls
  <2>3. call' = [call EXCEPT ![t] = c]
    BY <1>4
  <2> HIDE DEF c
  <2>4. call' \in [Tasks -> {Idle} \cup Calls]
    BY <2>2, <2>3 DEF Inv, TypeOK, Calls
  <2>5. Carried'
    BY <1>1, <2>2, <2>3 DEF Inv, TypeOK, Carried
  <2> QED BY <1>1, <1>2, <1>4, <2>4, <2>5 DEF Inv, TypeOK, Started, OwnHandles, Calls
<1>5. CASE Access(t)
  BY <1>5, <1>3, <1>4 DEF Access
<1>6. CASE WriteFile(t)
  BY <1>6, <1>3 DEF WriteFile
<1> QED BY <1>5, <1>6

(* The other client never touches a handle of a device.                     *)
LEMMA StepForeign ==
  ASSUME Inv, ForeignOpen \/ ForeignClose
  PROVE  Inv'
<1>1. PICK h \in 0 .. HANDLES - 1 :
        /\ daemon[h] \in {None, Foreign}
        /\ \E d \in {None, Foreign} : daemon' = [daemon EXCEPT ![h] = d]
  BY Given DEF Inv, ForeignOpen, ForeignClose, TypeOK
<1>2. UNCHANGED <<isc_fd, inits, scans, call, result>>
  BY DEF ForeignOpen, ForeignClose
<1>3. daemon' \in [0 .. HANDLES - 1 -> Addresses \cup {Foreign, None}]
  BY <1>1 DEF Inv, TypeOK
<1>4. OwnHandles'
  BY <1>1, <1>2, DevicesAssumption DEF Inv, TypeOK, OwnHandles
<1>5. Carried'
  <2> SUFFICES ASSUME NEW u \in Tasks, call[u].at = "opened"
               PROVE  call[u].handle > 0 /\ daemon'[call[u].handle] = call[u].address
    BY <1>2 DEF Carried
  <2>1. /\ call[u] \in Calls /\ call[u].address \in Addresses
        /\ call[u].handle > 0 /\ daemon[call[u].handle] = call[u].address
    BY InCall DEF Inv, Carried
  <2> QED BY <1>1, <2>1, DevicesAssumption DEF Inv, TypeOK, Calls
<1> QED BY <1>2, <1>3, <1>4, <1>5 DEF Inv, TypeOK, Started

LEMMA StepInv == Inv /\ [Next]_vars => Inv'
<1> SUFFICES ASSUME Inv, [Next]_vars PROVE Inv'
  OBVIOUS
<1>1. CASE Next
  BY <1>1, StepInit, StepProbe, StepEnter, StepConnect, StepOpened, StepTransfer, StepForeign
     DEF Next
<1>2. CASE UNCHANGED vars
  BY <1>2 DEF vars, Inv, TypeOK, Started, Carried, OwnHandles
<1> QED BY <1>1, <1>2

(* The variables keep their types over any number of calls: a handle is     *)
(* never looked up beyond the daemon's table, nor a byte too many.          *)
THEOREM TypeCorrect == Spec => []TypeOK
<1>1. Inv => TypeOK
  BY DEF Inv
<1> QED BY <1>1, InitInv, StepInv, PTL DEF Spec

(* A handle that is remembered for an address is not 0 and belongs to the   *)
(* device with that address, so that no function returns another device's   *)
(* bytes, however tasks, initialisations and other clients interleave.      *)
THEOREM HandlesAreOwn == Spec => []OwnHandles
<1>1. Inv => OwnHandles
  BY DEF Inv
<1> QED BY <1>1, InitInv, StepInv, PTL DEF Spec

----------------------------------------------------------------------------
(***************************************************************************)
(* Lost handles.  While an address remembers no handle, all the handles of *)
(* its device were given before the last isc_master_init, or to tasks that *)
(* have not stored them yet; each other task may then be on its way to     *)
(* open the device.  The first of them to store a handle ends this: after  *)
(* it no other task sets out.                                              *)
(***************************************************************************)
Held(a) == {h \in DOMAIN daemon \ {0} : daemon[h] = a}
Opening(a) == {t \in Tasks : call[t].at = "connect" /\ call[t].address = a}
Carrying(a) == {t \in Tasks : call[t].at = "opened" /\ call[t].address = a}

(* The tasks that may still be given a handle of the device.                *)
Coming(a) == IF isc_fd[a] = -1 THEN Tasks \ Carrying(a) ELSE Opening(a)

Spent(a) == Cardinality(Held(a)) + Cardinality(Coming(a))

InBudget == \A a \in Addresses : Spent(a) <= Cardinality(Tasks) * inits

(* The sets that are counted are finite.                                    *)
LEMMA Countable ==
  ASSUME TypeOK, NEW a \in Addresses
  PROVE  /\ IsFiniteSet(Held(a)) /\ Cardinality(Held(a)) \in Nat
         /\ IsFiniteSet(Coming(a)) /\ Cardinality(Coming(a)) \in Nat
         /\ Cardinality(Coming(a)) <= Cardinality(Tasks)
         /\ Cardinality(Tasks) \in Nat /\ Cardinality(Tasks) * inits \in Nat
<1>1. IsFiniteSet(0 .. HANDLES - 1)
  BY FS_Interval, DevicesAssumption
<1>2. Held(a) \in SUBSET (0 .. HANDLES - 1)
  BY DEF Held, TypeOK
<1>3. Coming(a) \in SUBSET Tasks
  BY DEF Coming, Opening
<1>4. Cardinality(Tasks) \in Nat /\ inits \in Nat
  BY TasksAssumption, FS_CardinalityType, DevicesAssumption DEF TypeOK
<1>5. Cardinality(Tasks) * inits \in Nat
  BY <1>4
<1> QED
  BY <1>1, <1>2, <1>3, <1>4, <1>5, TasksAssumption, FS_Subset, FS_CardinalityType

LEMMA CountableNext ==
  ASSUME TypeOK', NEW a \in Addresses
  PROVE  /\ IsFiniteSet(Held(a)') /\ Cardinality(Held(a)') \in Nat
         /\ IsFiniteSet(Coming(a)') /\ Cardinality(Coming(a)') \in Nat
         /\ Cardinality(Coming(a)') <= Cardinality(Tasks)
<1>1. IsFiniteSet(0 .. HANDLES - 1)
  BY FS_Interval, DevicesAssumption
<1>2. Held(a)' \in SUBSET (0 .. HANDLES - 1)
  BY DEF Held, TypeOK
<1>3. Coming(a)' \in SUBSET Tasks
  BY DEF Coming, Opening
<1> QED
  BY <1>1, <1>2, <1>3, TasksAssumption, FS_Subset, FS_CardinalityType

(* A step that gives no handle to a device and lets no further task come.   *)
LEMMA BudgetKept ==
  ASSUME Inv, Inv', InBudget, inits' = inits,
         \A a \in Addresses : Held(a)' \subseteq Held(a) /\ Coming(a)' \subseteq Coming(a)
  PROVE  InBudget'
<1> SUFFICES ASSUME NEW a \in Addresses
             PROVE  Spent(a)' <= Cardinality(Tasks) * inits
  BY DEF InBudget
<1>1. Spent(a) <= Cardinality(Tasks) * inits
  BY DEF InBudget
<1>2. Cardinality(Held(a)') <= Cardinality(Held(a))
  BY Countable, FS_Subset DEF Inv
<1>3. Cardinality(Coming(a)') <= Cardinality(Coming(a))
  BY Countable, FS_Subset DEF Inv
<1>4. /\ Cardinality(Held(a)) \in Nat /\ Cardinality(Coming(a)) \in Nat
      /\ Cardinality(Held(a)') \in Nat /\ Cardinality(Coming(a)') \in Nat
      /\ Cardinality(Tasks) * inits \in Nat
  BY Countable, CountableNext DEF Inv
<1> QED
  BY <1>1, <1>2, <1>3, <1>4 DEF Spent

(* A new start: every task may lose a handle of every device once more.     *)
LEMMA BudgetInit ==
  ASSUME Inv, Inv', InBudget, isc_master_init
  PROVE  InBudget'
<1> SUFFICES ASSUME NEW a \in Addresses
             PROVE  Spent(a)' <= Cardinality(Tasks) * (inits + 1)
  BY DEF InBudget, isc_master_init
<1>1. Held(a)' = Held(a)
  BY DEF isc_master_init, Held
<1>2. /\ Cardinality(Held(a)) \in Nat /\ Cardinality(Coming(a)) \in Nat
      /\ Cardinality(Coming(a)') \in Nat /\ Cardinality(Coming(a)') <= Cardinality(Tasks)
      /\ Cardinality(Tasks) \in Nat /\ inits \in Nat
  <2>1. TypeOK /\ TypeOK'
    BY DEF Inv
  <2>2. inits \in Nat
    BY <2>1, DevicesAssumption DEF TypeOK
  <2> QED
    BY <2>1, <2>2, Countable, CountableNext
<1>3. Cardinality(Held(a)) + Cardinality(Coming(a)) <= Cardinality(Tasks) * inits
  BY DEF InBudget, Spent
<1>4. Spent(a)' = Cardinality(Held(a)) + Cardinality(Coming(a)')
  BY <1>1 DEF Spent
<1>5. Cardinality(Tasks) * (inits + 1) = Cardinality(Tasks) * inits + Cardinality(Tasks)
  BY <1>2
<1>6. Cardinality(Tasks) * inits \in Nat
  BY <1>2
<1> QED
  BY <1>2, <1>3, <1>4, <1>5, <1>6

(* A task that is given a handle is no longer one of those to come.         *)
LEMMA BudgetConnect ==
  ASSUME Inv, Inv', InBudget, NEW t \in Tasks, Connect(t)
  PROVE  InBudget'
<1> DEFINE h == Lowest(Closed)
<1> PICK d \in Addresses : d = call[t].address
  BY InCall DEF Inv, Connect
<1>1. /\ call[t] \in Calls /\ d = call[t].address /\ call[t].at = "connect"
      /\ inits > 0 /\ inits' = inits /\ UNCHANGED isc_fd
  BY InCall DEF Inv, Connect, Started
<1>2. /\ \A u \in Tasks \ {t} : call'[u] = call[u]
      /\ call'[t].at # "connect" /\ call'[t].address = d
  BY <1>1 DEF Connect, Inv, TypeOK, Calls
<1>3. \A a \in Addresses : a # d => Coming(a)' = Coming(a)
  BY <1>1, <1>2 DEF Coming, Opening, Carrying
<1>4. Coming(d)' \subseteq Coming(d)
  BY <1>1, <1>2 DEF Coming, Opening, Carrying
<1>5. CASE \A a \in Addresses : Held(a)' = Held(a)
  <2>1. \A a \in Addresses : Held(a)' \subseteq Held(a) /\ Coming(a)' \subseteq Coming(a)
    BY <1>3, <1>4, <1>5
  <2> QED
    BY <1>1, <2>1, BudgetKept
<1>6. CASE Closed # {} /\ h > 0
  <2>1. /\ h \in 0 .. HANDLES - 1 /\ daemon[h] = None
        /\ daemon' = [daemon EXCEPT ![h] = d]
        /\ call'[t].at = "opened"
    BY <1>1, <1>6, Given DEF Inv, Connect, TypeOK, Calls
  <2> SUFFICES ASSUME NEW a \in Addresses
               PROVE  Spent(a)' <= Cardinality(Tasks) * inits
    BY <1>1 DEF InBudget
  <2>2. Spent(a) <= Cardinality(Tasks) * inits
    BY DEF InBudget
  <2>3. /\ Cardinality(Held(a)) \in Nat /\ Cardinality(Coming(a)) \in Nat
        /\ Cardinality(Held(a)') \in Nat /\ Cardinality(Coming(a)') \in Nat
        /\ Cardinality(Tasks) * inits \in Nat
    BY Countable, CountableNext DEF Inv
  <2>4. CASE a = d
    <3>1. Held(a)' = Held(a) \cup {h} /\ h \notin Held(a)
      <4>1. None # d /\ DOMAIN daemon = 0 .. HANDLES - 1 /\ DOMAIN daemon' = DOMAIN daemon
        BY <1>1, <2>1, DevicesAssumption DEF Inv, TypeOK
      <4>2. h \notin Held(a)
        BY <2>1, <2>4, <4>1 DEF Held
      <4>3. h # 0 /\ h \in DOMAIN daemon' /\ daemon'[h] = a
        BY <1>6, <2>1, <2>4, <4>1
      <4>4. \A g \in DOMAIN daemon \ {h} : daemon'[g] = daemon[g]
        BY <2>1
      <4> QED
        BY <4>1, <4>2, <4>3, <4>4 DEF Held
    <3>2. Cardinality(Held(a)') = Cardinality(Held(a)) + 1
      BY <3>1, Countable, FS_AddElement DEF Inv
    <3>3. t \in Coming(a) /\ Coming(a)' = Coming(a) \ {t}
      <4>1. t \notin Carrying(a) /\ t \in Opening(a)
        BY <1>1, <2>4 DEF Opening, Carrying
      <4>2. Opening(a)' = Opening(a) \ {t} /\ Carrying(a)' = Carrying(a) \cup {t}
        BY <1>2, <2>1, <2>4 DEF Opening, Carrying
      <4> QED
        BY <1>1, <4>1, <4>2 DEF Coming
    <3>4. Cardinality(Coming(a)') = Cardinality(Coming(a)) - 1
      BY <3>3, Countable, FS_RemoveElement DEF Inv
    <3> QED
      BY <2>2, <2>3, <3>2, <3>4 DEF Spent
  <2>5. CASE a # d
    <3>1. Held(a)' = Held(a)
      BY <1>1, <2>1, <2>5, DevicesAssumption DEF Held, Inv, TypeOK
    <3> QED
      BY <1>3, <2>2, <2>5, <3>1 DEF Spent
  <2> QED
    BY <2>4, <2>5
<1>7. CASE Closed = {}
  BY <1>5, <1>7 DEF Connect, Held
<1>8. CASE Closed # {} /\ ~(h > 0)
  <2>1. /\ h = 0 /\ h \in DOMAIN daemon
        /\ daemon' = [daemon EXCEPT ![h] = d]
    BY <1>8, Given DEF Inv, Connect, TypeOK
  <2>2. \A a \in Addresses : Held(a)' = Held(a)
    BY <2>1 DEF Held, Inv, TypeOK
  <2> QED
    BY <1>5, <2>2
<1> QED
  BY <1>6, <1>7, <1>8

(* The task that stores its handle ends the coming of those that have not   *)
(* set out.                                                                 *)
LEMMA BudgetOpened ==
  ASSUME Inv, Inv', InBudget, NEW t \in Tasks, Opened(t)
  PROVE  InBudget'
<1> DEFINE h == call[t].handle
<1> PICK d \in Addresses : d = call[t].address
  BY InCall DEF Inv, Opened
<1>1. /\ call[t] \in Calls /\ d = call[t].address /\ call[t].at = "opened" /\ h > 0
      /\ inits' = inits /\ UNCHANGED daemon
      /\ isc_fd' = [isc_fd EXCEPT ![d] = h]
  BY InCall DEF Inv, Opened, Carried, Remember
<1>2. /\ \A u \in Tasks \ {t} : call'[u] = call[u]
      /\ call'[t].at = "idle"
  BY DEF Opened, Return, Idle, Inv, TypeOK
<1>3. \A a \in Addresses : Held(a)' = Held(a)
  BY <1>1 DEF Held
<1>4. \A a \in Addresses : Opening(a)' = Opening(a)
  BY <1>1, <1>2 DEF Opening
<1>5. \A a \in Addresses : a # d => Coming(a)' = Coming(a)
  <2> SUFFICES ASSUME NEW a \in Addresses, a # d PROVE Coming(a)' = Coming(a)
    OBVIOUS
  <2>1. Carrying(a)' = Carrying(a)
    BY <1>1, <1>2 DEF Carrying
  <2>2. isc_fd'[a] = isc_fd[a]
    BY <1>1 DEF Inv, TypeOK
  <2> QED
    BY <1>4, <2>1, <2>2 DEF Coming
<1>6. Coming(d)' \subseteq Coming(d)
  <2>1. isc_fd'[d] # -1
    BY <1>1 DEF Inv, TypeOK, Calls
  <2>2. Opening(d) \subseteq Tasks \ Carrying(d)
    BY DEF Opening, Carrying
  <2>3. Coming(d)' = Opening(d) /\ Opening(d) \subseteq Coming(d)
    BY <1>1, <1>4, <2>1, <2>2 DEF Coming
  <2> QED
    BY <2>3
<1>7. \A a \in Addresses : Held(a)' \subseteq Held(a) /\ Coming(a)' \subseteq Coming(a)
  BY <1>3, <1>5, <1>6
<1> QED
  BY <1>1, <1>7, BudgetKept

(* Only a task whose address remembers no handle sets out to open one.      *)
LEMMA BudgetEnter ==
  ASSUME Inv, Inv', InBudget, NEW t \in Tasks, NEW fn \in ByHandle \cup ByFile,
         NEW b \in Addresses, NEW len \in 1 .. MAX_LEN, Enter(t, fn, b, len)
  PROVE  InBudget'
<1>1. UNCHANGED <<isc_fd, daemon, inits>> /\ inits > 0 /\ call[t].at = "idle"
  BY DEF Enter
<1>2. /\ \A u \in Tasks \ {t} : call'[u] = call[u]
      /\ call'[t].at # "opened"
      /\ call'[t].at = "connect" => isc_fd[b] < 0 /\ call'[t].address = b
  BY DEF Enter, Inv, TypeOK
<1>3. ASSUME NEW a \in Addresses
      PROVE  Coming(a)' \subseteq Coming(a)
  <2>1. Carrying(a)' = Carrying(a)
    BY <1>1, <1>2 DEF Carrying
  <2>2. isc_fd[a] # -1 => ~(isc_fd[a] < 0)
    BY <1>1 DEF Inv, OwnHandles, TypeOK
  <2>3. isc_fd[a] # -1 => Opening(a)' \subseteq Opening(a)
    BY <1>2, <2>2 DEF Opening
  <2> QED
    BY <1>1, <2>1, <2>3 DEF Coming
<1>4. \A a \in Addresses : Held(a)' \subseteq Held(a)
  BY <1>1 DEF Held
<1> QED
  BY <1>1, <1>3, <1>4, BudgetKept

(* All other steps give no handle to a device and let no task set out.      *)
LEMMA BudgetOther ==
  ASSUME Inv, Inv', InBudget,
         \/ isc_scan \/ ForeignOpen \/ ForeignClose \/ UNCHANGED vars
         \/ \E t \in Tasks : \/ Access(t) \/ WriteFile(t) \/ ProbeFails(t)
                             \/ \E a \in Addresses : isc_probe(t, a)
  PROVE  InBudget'
<1>1. UNCHANGED <<isc_fd, inits>>
  BY DEF isc_scan, ForeignOpen, ForeignClose, vars, Access, WriteFile, ProbeFails, isc_probe
<1>2. \A a \in Addresses : Held(a)' \subseteq Held(a)
  <2>1. CASE UNCHANGED daemon
    BY <2>1 DEF Held
  <2>2. CASE ForeignOpen \/ ForeignClose
    <3>1. \E h \in DOMAIN daemon, f \in {None, Foreign} : daemon' = [daemon EXCEPT ![h] = f]
      BY <2>2, Given DEF ForeignOpen, ForeignClose, Inv, TypeOK
    <3> QED
      BY <3>1, DevicesAssumption DEF Held, Inv, TypeOK
  <2> QED
    BY <2>1, <2>2 DEF isc_scan, vars, Access, WriteFile, ProbeFails, isc_probe
<1>3. \A a \in Addresses : Coming(a)' = Coming(a)
  <2>1. CASE UNCHANGED call
    BY <1>1, <2>1 DEF Coming, Opening, Carrying
  <2>2. CASE \E t \in Tasks : Access(t) \/ WriteFile(t)
    <3> PICK t \in Tasks : Access(t) \/ WriteFile(t)
      BY <2>2
    <3>1. /\ \A u \in Tasks \ {t} : call'[u] = call[u]
          /\ call[t].at = "access" /\ call'[t].at \notin {"connect", "opened"}
      <4>1. call[t].at = "access"
        BY DEF Access, WriteFile
      <4>2. CASE call' = [call EXCEPT ![t] = Idle]
        BY <4>1, <4>2 DEF Idle, Inv, TypeOK
      <4>3. CASE call' = [call EXCEPT ![t].left = @ - 1]
        BY <4>1, <4>3, InCall DEF Inv, TypeOK, Calls
      <4> QED
        BY <4>2, <4>3 DEF Access, WriteFile, Return
    <3>2. \A a \in Addresses : Opening(a)' = Opening(a) /\ Carrying(a)' = Carrying(a)
      BY <3>1 DEF Opening, Carrying
    <3> QED
      BY <1>1, <3>2 DEF Coming
  <2> QED
    BY <2>1, <2>2 DEF isc_scan, ForeignOpen, ForeignClose, vars, ProbeFails, isc_probe
<1> QED
  BY <1>1, <1>2, <1>3, BudgetKept

(* Tasks that find no handle at the same time and repeated initialisations  *)
(* lose handles, but at most one for each task and initialisation.          *)
THEOREM FewHandlesAreLost == Spec => []HandlesBounded
<1>1. Init => InBudget
  <2> SUFFICES ASSUME Init, NEW a \in Addresses
               PROVE  Spent(a) <= Cardinality(Tasks) * inits
    BY DEF InBudget
  <2>1. Held(a) = {} /\ Coming(a) = {} /\ inits = 0
    BY DevicesAssumption DEF Init, Held, Coming, Opening, Idle
  <2>2. Cardinality(Tasks) \in Nat
    BY TasksAssumption, FS_CardinalityType
  <2> QED
    BY <2>1, <2>2, FS_EmptySet DEF Spent
<1>2. Inv /\ Inv' /\ InBudget /\ [Next]_vars => InBudget'
  BY BudgetInit, BudgetConnect, BudgetOpened, BudgetEnter, BudgetOther DEF Next
<1>3. Inv /\ InBudget => HandlesBounded
  <2> SUFFICES ASSUME Inv, InBudget, NEW a \in Addresses
               PROVE  Cardinality(Held(a)) <= Cardinality(Tasks) * inits
    BY DEF HandlesBounded, Held
  <2>1. Spent(a) <= Cardinality(Tasks) * inits
    BY DEF InBudget
  <2>2. /\ Cardinality(Held(a)) \in Nat /\ Cardinality(Coming(a)) \in Nat
        /\ Cardinality(Tasks) * inits \in Nat
    BY Countable, DevicesAssumption DEF Inv, TypeOK
  <2> QED
    BY <2>1, <2>2 DEF Spent
<1> QED
  BY InitInv, StepInv, <1>1, <1>2, <1>3, PTL DEF Spec
=================================================================================
