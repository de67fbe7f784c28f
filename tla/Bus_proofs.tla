------------------------------- MODULE Bus_proofs -------------------------------
(***************************************************************************)
(* The buses that MCBus composes, for any number of tasks, any heap, any   *)
(* width of the clock and any timeouts shorter than its turn.              *)
(*                                                                         *)
(* SPI.  Who has the semaphore is alone on the bus (Holder), and from the  *)
(* answer on a task carries what is its own (Carried): rx_data and bus of  *)
(* a task are only written by that task, so the copy needs no mutex.       *)
(***************************************************************************)
EXTENDS MCBus, FiniteSetTheorems, TLAPS

Critical == {"spi_add_device", "spi_send", "transfer", "give"}

SpiTypes == /\ pc \in [Tasks -> Critical \cup {"idle", "take", "copy"}]
            /\ fn \in [Tasks -> {"none", "spi_add_device", "spi_send"}]
            /\ dev \in [Tasks -> {"none", "garbage", "added"}]
            /\ ret \in [Tasks -> {"none", "ERROR_OK", "ERROR_FAIL"}]
            /\ sends \in Nat
            /\ bus \in [Tasks -> Nat]
            /\ rx_data \in [Tasks -> Nat] /\ rxBuff \in [Tasks -> Nat]
            /\ \A t \in Tasks : pc[t] = "take" => fn[t] # "none"

Holder == \A t \in Tasks : pc[t] \in Critical => sema = t

Carried == \A t \in Tasks :
  /\ pc[t] = "spi_add_device" => fn[t] = "spi_add_device"
  /\ pc[t] \in {"give", "copy"} /\ ret[t] = "ERROR_OK" => rx_data[t] = bus[t]
  /\ pc[t] = "idle" /\ fn[t] = "spi_send" /\ ret[t] = "ERROR_OK" => rxBuff[t] = bus[t]

SpiInv == SpiTypes /\ Holder /\ Carried

LEMMA SpiInit == SpiBus!Init => SpiInv
<1> SUFFICES ASSUME SpiBus!Init PROVE SpiInv
  OBVIOUS
<1>1. SpiTypes
  BY DEF SpiBus!Init, SpiTypes
<1>2. Holder /\ Carried
  BY DEF SpiBus!Init, Holder, Carried, Critical
<1> QED BY <1>1, <1>2 DEF SpiInv

LEMMA SpiStepTypes ==
  ASSUME SpiTypes, SpiBus!Next
  PROVE  SpiTypes'
<1>1. PICK t \in Tasks : \/ \E f \in {"spi_add_device", "spi_send"} : SpiBus!Call(t, f)
                         \/ SpiBus!Step(t) \/ SpiBus!Answer(t) \/ SpiBus!TransferFails(t)
  BY DEF SpiBus!Next
<1>2. CASE \E f \in {"spi_add_device", "spi_send"} : SpiBus!Call(t, f)
  BY <1>2 DEF SpiBus!Call, SpiBus!Go, SpiTypes, Critical
<1>3. CASE SpiBus!Take(t)
  <2>1. fn[t] \in Critical
    BY <1>3 DEF SpiBus!Take, SpiTypes, Critical
  <2> QED BY <1>3, <2>1 DEF SpiBus!Take, SpiBus!Go, SpiTypes
<1>4. CASE SpiBus!TakeTimeout(t)
  BY <1>4 DEF SpiBus!TakeTimeout, SpiBus!Returns, SpiBus!Go, SpiTypes
<1>5. CASE SpiBus!AddDevice(t)
  BY <1>5 DEF SpiBus!AddDevice, SpiBus!Returns, SpiBus!Go, SpiTypes
<1>6. CASE SpiBus!Transmit(t) \/ SpiBus!Answer(t) \/ SpiBus!TransferFails(t)
  BY <1>6
     DEF SpiBus!Transmit, SpiBus!Answer, SpiBus!TransferFails, SpiBus!Go, SpiTypes, Critical
<1>7. CASE SpiBus!Give(t) \/ SpiBus!Copy(t)
  BY <1>7 DEF SpiBus!Give, SpiBus!Copy, SpiBus!Go, SpiTypes
<1> QED BY <1>1, <1>2, <1>3, <1>4, <1>5, <1>6, <1>7 DEF SpiBus!Step

(* Only Take enters the critical steps, when nobody is in them.                    *)
LEMMA SpiStepHolder ==
  ASSUME None \notin Tasks, SpiInv, SpiBus!Next
  PROVE  Holder'
<1>1. PICK t \in Tasks : \/ \E f \in {"spi_add_device", "spi_send"} : SpiBus!Call(t, f)
                         \/ SpiBus!Step(t) \/ SpiBus!Answer(t) \/ SpiBus!TransferFails(t)
  BY DEF SpiBus!Next
<1>2. CASE \/ \E f \in {"spi_add_device", "spi_send"} : SpiBus!Call(t, f)
           \/ SpiBus!TakeTimeout(t) \/ SpiBus!Copy(t)
  <2>1. /\ sema' = sema
        /\ \A u \in Tasks : u # t => pc'[u] = pc[u]
        /\ pc'[t] \notin Critical
    BY <1>2
       DEF SpiBus!Call, SpiBus!TakeTimeout, SpiBus!Copy, SpiBus!Returns, SpiBus!Go, SpiInv,
           SpiTypes, Critical
  <2> QED BY <2>1 DEF SpiInv, Holder
<1>3. CASE SpiBus!Take(t)
  <2>1. /\ sema = None /\ sema' = t
        /\ \A u \in Tasks : u # t => pc'[u] = pc[u]
    BY <1>3 DEF SpiBus!Take, SpiBus!Go, SpiInv, SpiTypes
  <2> QED BY <2>1 DEF SpiInv, Holder
<1>4. CASE SpiBus!Transmit(t) \/ SpiBus!Answer(t) \/ SpiBus!TransferFails(t)
  <2>1. /\ sema' = sema /\ pc[t] \in Critical
        /\ \A u \in Tasks : u # t => pc'[u] = pc[u]
    BY <1>4
       DEF SpiBus!Transmit, SpiBus!Answer, SpiBus!TransferFails, SpiBus!Go, SpiInv, SpiTypes,
           Critical
  <2> QED BY <2>1 DEF SpiInv, Holder
<1>5. CASE SpiBus!AddDevice(t) \/ SpiBus!Give(t)
  <2>1. /\ pc[t] \in Critical /\ pc'[t] \notin Critical
        /\ \A u \in Tasks : u # t => pc'[u] = pc[u]
    BY <1>5
       DEF SpiBus!AddDevice, SpiBus!Give, SpiBus!Returns, SpiBus!Go, SpiInv, SpiTypes,
           Critical
  <2> QED BY <2>1 DEF SpiInv, Holder
<1> QED BY <1>1, <1>2, <1>3, <1>4, <1>5 DEF SpiBus!Step

(* A step of a task leaves what the others carry alone.                     *)
LEMMA SpiStepCarried ==
  ASSUME SpiInv, SpiBus!Next
  PROVE  Carried'
<1>1. PICK t \in Tasks : \/ \E f \in {"spi_add_device", "spi_send"} : SpiBus!Call(t, f)
                         \/ SpiBus!Step(t) \/ SpiBus!Answer(t) \/ SpiBus!TransferFails(t)
  BY DEF SpiBus!Next
<1>2. \A u \in Tasks : u # t =>
        /\ pc'[u] = pc[u] /\ fn'[u] = fn[u] /\ ret'[u] = ret[u]
        /\ bus'[u] = bus[u] /\ rx_data'[u] = rx_data[u] /\ rxBuff'[u] = rxBuff[u]
  BY <1>1
     DEF SpiBus!Call, SpiBus!Step, SpiBus!Take, SpiBus!TakeTimeout, SpiBus!AddDevice,
         SpiBus!Transmit, SpiBus!Answer, SpiBus!TransferFails, SpiBus!Give, SpiBus!Copy,
         SpiBus!Returns, SpiBus!Go, SpiInv, SpiTypes
<1>3. /\ pc'[t] = "spi_add_device" => fn'[t] = "spi_add_device"
      /\ pc'[t] \in {"give", "copy"} /\ ret'[t] = "ERROR_OK" => rx_data'[t] = bus'[t]
      /\ pc'[t] = "idle" /\ fn'[t] = "spi_send" /\ ret'[t] = "ERROR_OK"
           => rxBuff'[t] = bus'[t]
  <2>1. CASE \E f \in {"spi_add_device", "spi_send"} : SpiBus!Call(t, f)
    BY <2>1 DEF SpiBus!Call, SpiBus!Go, SpiInv, SpiTypes
  <2>2. CASE SpiBus!Take(t) \/ SpiBus!Transmit(t)
    BY <2>2 DEF SpiBus!Take, SpiBus!Transmit, SpiBus!Go, SpiInv, SpiTypes
  <2>3. CASE SpiBus!TakeTimeout(t)
    BY <2>3 DEF SpiBus!TakeTimeout, SpiBus!Returns, SpiBus!Go, SpiInv, SpiTypes
  <2>4. CASE SpiBus!AddDevice(t)
    BY <2>4 DEF SpiBus!AddDevice, SpiBus!Returns, SpiBus!Go, SpiInv, SpiTypes, Carried
  <2>5. CASE SpiBus!Answer(t) \/ SpiBus!TransferFails(t)
    BY <2>5 DEF SpiBus!Answer, SpiBus!TransferFails, SpiBus!Go, SpiInv, SpiTypes
  <2>6. CASE SpiBus!Give(t) \/ SpiBus!Copy(t)
    BY <2>6 DEF SpiBus!Give, SpiBus!Copy, SpiBus!Go, SpiInv, SpiTypes, Carried
  <2> QED BY <1>1, <2>1, <2>2, <2>3, <2>4, <2>5, <2>6 DEF SpiBus!Step
<1> QED BY <1>2, <1>3 DEF SpiInv, Carried

LEMMA SpiStep == SpiInv /\ [SpiBus!Next]_spi => SpiInv'
<1> SUFFICES ASSUME SpiInv, [SpiBus!Next]_spi PROVE SpiInv'
  OBVIOUS
<1>1. CASE SpiBus!Next
  BY <1>1, SpiStepTypes, SpiStepHolder, SpiStepCarried, BusAssumption DEF SpiInv
<1>2. CASE UNCHANGED spi
  BY <1>2 DEF spi, SpiInv, SpiTypes, Holder, Carried
<1> QED BY <1>1, <1>2

LEMMA OnlySpi == [I2c \/ Spi \/ Serial]_<<part, i2c, spi, uart>> => [SpiBus!Next]_spi
BY DEF I2c, Spi, Serial

(* For any number of tasks a call of spi_send that returns ERROR_OK has the *)
(* answer to its own transfer, although the mutex is given back before the  *)
(* answer is copied, and no two transfers are on the bus at a time.         *)
THEOREM AnswersAreOwn == BusSpec => []OwnAnswer
<1>1. BusInit => SpiInv
  BY SpiInit DEF BusInit
<1>2. SpiInv => OwnAnswer
  BY DEF SpiInv, Holder, Carried, OwnAnswer, SpiBus!OwnAnswer, Critical
<1> QED BY <1>1, <1>2, SpiStep, OnlySpi, PTL DEF BusSpec


----------------------------------------------------------------------------
(***************************************************************************)
(* I2C of the ESP32.  As long as no read has failed nothing is lost, and   *)
(* an unfinished link holds one unit and one for each command tried, of    *)
(* which there are at most eight (Links).  So the links never hold all the *)
(* memory that EnoughMemory promises (SomeFree), no append fails, and the  *)
(* only way on that leaves a link behind is an unanswered read.            *)
(***************************************************************************)
Links ==
  \A t \in Tasks :
    /\ espCall[t] = Esp!Idle
       \/ /\ espCall[t] \in [fn : DOMAIN Esp!Commands, todo : 1 .. 8, tried : 0 .. 8,
                             held : 1 .. 9, at : {"append", "begin", "delete"}]
          /\ espCall[t].held = 1 + espCall[t].tried
          /\ espCall[t].at = "append" => espCall[t].tried < espCall[t].todo

IscInv == DOMAIN espCall = Tasks /\ (~unanswered => lost = 0 /\ Links)

LEMMA SameCardinality == \A S : Esp!Cardinality(S) = Cardinality(S)
BY DEF Esp!Cardinality, Cardinality

LEMMA SomeFree ==
  ASSUME Esp!EnoughMemory, lost = 0, NEW t \in Tasks, espCall[t].held \in 0 .. 8
  PROVE  Esp!Free > 0
<1> DEFINE all == Tasks \X (1 .. 9)
           used == {u \in Tasks \X (1 .. 9) : u[2] <= espCall[u[1]].held}
           n == Cardinality(Tasks)
<1>1. IsFiniteSet(Tasks) /\ n \in Nat
  BY TasksAssumption, FS_CardinalityType
<1>2. IsFiniteSet(1 .. 9) /\ Cardinality(1 .. 9) = 9
  <2>1. 1 \in Int /\ 9 \in Int /\ ~(1 > 9) /\ 9 - 1 + 1 = 9
    OBVIOUS
  <2>2. /\ IsFiniteSet(1 .. 9)
        /\ Cardinality(1 .. 9) = IF 1 > 9 THEN 0 ELSE 9 - 1 + 1
    BY <2>1, FS_Interval, Zenon
  <2> QED
    BY <2>1, <2>2
<1>3. IsFiniteSet(all) /\ Cardinality(all) = n * 9
  BY <1>1, <1>2, FS_Product
<1>4. used \in SUBSET all
  OBVIOUS
<1>5. Cardinality(used) \in Nat /\ Cardinality(used) <= Cardinality(all)
      /\ (Cardinality(all) = Cardinality(used) => all = used)
  BY <1>3, <1>4, FS_Subset, FS_CardinalityType
<1>6. all # used
  <2>1. <<t, 9>> \in all /\ <<t, 9>> \notin used
    OBVIOUS
  <2> QED
    BY <2>1
<1>7. Esp!Used = Cardinality(used)
  BY SameCardinality DEF Esp!Used, Esp!LONGEST
<1>8. HEAP >= n * 9
  BY SameCardinality DEF Esp!EnoughMemory, Esp!LONGEST
<1> HIDE DEF all, used, n
<1> QED
  BY <1>1, <1>3, <1>5, <1>6, <1>7, <1>8, HeapAssumption DEF Esp!Free

LEMMA IscInit == Esp!Init => IscInv
BY DEF Esp!Init, IscInv, Links

LEMMA IscStep ==
  ASSUME Esp!EnoughMemory
  PROVE  IscInv /\ [Esp!Next]_espVars => IscInv'
<1> SUFFICES ASSUME IscInv, [Esp!Next]_espVars PROVE IscInv'
  OBVIOUS
<1>1. CASE Esp!isc_master_init \/ UNCHANGED espVars
  BY <1>1 DEF Esp!isc_master_init, espVars, IscInv, Links
<1>2. ASSUME NEW t \in Tasks,
             \/ Esp!isc_scan(t)
             \/ \E f \in DOMAIN Esp!Commands, more \in BOOLEAN : Esp!Enter(t, f, more)
             \/ Esp!Append(t) \/ Esp!AppendFails(t) \/ Esp!Begin(t) \/ Esp!Delete(t)
      PROVE  IscInv'
  <2>1. DOMAIN espCall' = Tasks /\ \A u \in Tasks : u # t => espCall'[u] = espCall[u]
    BY <1>2 DEF Esp!isc_scan, Esp!Enter, Esp!Append, Esp!AppendFails, Esp!Begin,
                Esp!Delete, IscInv
  <2>2. SUFFICES ASSUME ~unanswered'
                 PROVE  lost' = 0 /\ Links'
    BY <2>1 DEF IscInv
  <2>3. ~unanswered /\ lost = 0 /\ Links
    BY <1>2, <2>2 DEF Esp!isc_scan, Esp!Enter, Esp!Append, Esp!AppendFails, Esp!Begin,
                      Esp!Delete, IscInv
  <2> DEFINE c == espCall[t]
             Link(d) == /\ d \in [fn : DOMAIN Esp!Commands, todo : 1 .. 8, tried : 0 .. 8,
                                  held : 1 .. 9, at : {"append", "begin", "delete"}]
                        /\ d.held = 1 + d.tried
                        /\ d.at = "append" => d.tried < d.todo
  <2>4. SUFFICES lost' = 0 /\ (espCall'[t] = Esp!Idle \/ Link(espCall'[t]))
    BY <2>1, <2>3 DEF Links
  <2>5. CASE \E f \in DOMAIN Esp!Commands, more \in BOOLEAN : Esp!Enter(t, f, more)
    <3>1. PICK f \in DOMAIN Esp!Commands, more \in BOOLEAN : Esp!Enter(t, f, more)
      BY <2>5
    <3>2. c = Esp!Idle /\ c.held = 0
      BY <3>1 DEF Esp!Enter, Esp!Idle
    <3>3. Esp!Free > 0
      BY <2>3, <3>2, SomeFree
    <3>4. more => f \in {"read_bytes", "read_register"}
      BY <3>1 DEF Esp!Enter, Esp!Reads
    <3>5. Esp!Commands[f] + (IF more THEN 1 ELSE 0) \in 1 .. 8
      BY <3>4 DEF Esp!Commands
    <3>6. lost' = lost /\ espCall'[t] =
            [fn |-> f, todo |-> Esp!Commands[f] + (IF more THEN 1 ELSE 0), tried |-> 0,
             held |-> 1, at |-> "append"]
      BY <3>1, <3>3 DEF Esp!Enter, IscInv
    <3> QED
      BY <2>3, <3>5, <3>6
  <2>6. CASE Esp!isc_scan(t)
    <3>1. "probe" \in DOMAIN Esp!Commands
      BY DEF Esp!Commands
    <3> QED
      BY <2>5, <2>6, <3>1 DEF Esp!isc_scan
  <2>7. CASE Esp!Append(t)
    <3>1. Link(c) /\ c.at = "append"
      BY <2>3, <2>7 DEF Esp!Append, Esp!Idle, Links
    <3> DEFINE e == [Esp!After(c) EXCEPT !.held = c.held + 1]
    <3>2. UNCHANGED lost /\ espCall' = [espCall EXCEPT ![t] = e]
      BY <2>7 DEF Esp!Append
    <3>3. espCall'[t] = e
      <4> HIDE DEF e
      <4> QED
        BY <3>2 DEF IscInv
    <3>4. Link(e)
      <4> HIDE DEF c
      <4>1. /\ e.held = c.held + 1 /\ e.tried = c.tried + 1 /\ e.todo = c.todo
            /\ e.at = IF c.tried + 1 = c.todo THEN "begin" ELSE "append"
        BY <3>1 DEF Esp!After
      <4>2. /\ c.todo \in 1 .. 8 /\ c.tried \in 0 .. 7
            /\ c.held = 1 + c.tried /\ c.tried < c.todo
        BY <3>1
      <4> DEFINE d == Esp!After(c)
                 links == [fn : DOMAIN Esp!Commands, todo : 1 .. 8, tried : 0 .. 8,
                           held : 1 .. 9, at : {"append", "begin", "delete"}]
      <4>3. d \in links
        <5>1. c.tried + 1 \in 0 .. 8 /\ c \in links
          BY <3>1, <4>2
        <5> DEFINE n == c.tried + 1
                   step == IF c.tried + 1 = c.todo THEN "begin" ELSE "append"
        <5>2. d = [c EXCEPT !.tried = n, !.at = step]
          BY DEF Esp!After
        <5>3. n \in 0 .. 8 /\ step \in {"append", "begin", "delete"}
          BY <5>1
        <5> HIDE DEF d, n, step
        <5> QED
          BY <5>1, <5>2, <5>3
      <4>4. e \in links
        <5> DEFINE m == c.held + 1
        <5>1. m \in 1 .. 9
          BY <4>2
        <5>2. e = [d EXCEPT !.held = m]
          OBVIOUS
        <5> HIDE DEF d, e, m
        <5> QED
          BY <4>3, <5>1, <5>2
      <4> HIDE DEF e
      <4> QED
        BY <4>1, <4>2, <4>4
    <3> HIDE DEF e, Link
    <3> QED
      BY <2>3, <3>2, <3>3, <3>4
  <2>8. CASE Esp!AppendFails(t)
    <3>1. Link(c) /\ c.at = "append" /\ (c.held = 0 \/ Esp!Free = 0)
      BY <2>3, <2>8 DEF Esp!AppendFails, Esp!Idle, Links
    <3>2. Esp!Free > 0
      BY <2>3, <3>1, SomeFree
    <3> QED
      BY <3>1, <3>2
  <2>9. CASE Esp!Begin(t)
    <3>1. Link(c)
      BY <2>3, <2>9 DEF Esp!Begin, Esp!Idle, Links
    <3>2. lost' = lost /\ espCall'[t] = [c EXCEPT !.at = "delete"]
      BY <2>2, <2>9 DEF Esp!Begin, IscInv
    <3> QED
      BY <2>3, <3>1, <3>2
  <2>10. CASE Esp!Delete(t)
    BY <2>3, <2>10 DEF Esp!Delete, IscInv
  <2> QED
    BY <1>2, <2>5, <2>6, <2>7, <2>8, <2>9, <2>10
<1> QED
  BY <1>1, <1>2 DEF Esp!Next

LEMMA OnlyIsc == [I2c \/ Spi \/ Serial]_<<part, i2c, spi, uart>> => [Esp!Next]_espVars
BY DEF I2c, Spi, Serial, MCNext, i2c, espVars

(* For any number of tasks with memory for the longest link of each: no     *)
(* memory is lost and no append fails, as long as no read stays without an  *)
(* answer, whichever writes and probes fail.                                *)
THEOREM OnlyUnansweredLose == BusSpec => []NothingLostWhileAnswered
<1>1. CASE ~Esp!EnoughMemory
  <2>1. NothingLostWhileAnswered
    BY <1>1 DEF NothingLostWhileAnswered, Esp!NothingLostWhileAnswered
  <2> QED
    BY <2>1, PTL
<1>2. CASE Esp!EnoughMemory
  <2>1. BusInit => IscInv
    BY IscInit DEF BusInit, MCInit
  <2>2. IscInv => NothingLostWhileAnswered
    BY DEF IscInv, Links, Esp!Idle, NothingLostWhileAnswered, Esp!NothingLostWhileAnswered
  <2>3. IscInv /\ [I2c \/ Spi \/ Serial]_<<part, i2c, spi, uart>> => IscInv'
    BY <1>2, IscStep, OnlyIsc
  <2> QED
    BY <2>1, <2>2, <2>3, PTL DEF BusSpec
<1> QED
  BY <1>1, <1>2


----------------------------------------------------------------------------
(***************************************************************************)
(* UART.  While a call is under way, the clock has run on from start as    *)
(* the true time has, but for the one setting and for whole turns (Clock); *)
(* so a difference of two readings that is below the timeout shows that    *)
(* time is left (LeftInTime), and the next deadline is within the bound of *)
(* the call (Deadlines).  Of the bytes, len are in the buffer as long as   *)
(* the ESP32's counter does not wrap (Filled).                             *)
(***************************************************************************)
LEMMA DivMod ==
  ASSUME NEW n \in Nat, NEW w \in Nat \ {0}
  PROVE  /\ n \div w \in Nat /\ n % w \in 0 .. w - 1
         /\ n = w * (n \div w) + (n % w)
<1>1. n \div w \in Nat
  OBVIOUS
<1>2. n % w \in 0 .. w - 1
  OBVIOUS
<1>3. n = w * (n \div w) + (n % w)
  OBVIOUS
<1> QED
  BY <1>1, <1>2, <1>3

OnEsp == {"firstByte", "nextByte", "loop"}
OnPi == {"look", "delay", "noFile"}
Active == at \in OnEsp \cup OnPi

UartTyped ==
  /\ target \in {"esp32", "pi"}
  /\ at \in OnEsp \cup OnPi \cup {"off", "idle"}
  /\ at \in OnEsp => target = "esp32"
  /\ at \in OnPi => target = "pi"
  /\ now \in Nat /\ skew \in Nat /\ setback \in Nat
  /\ arrived \in Nat /\ taken \in Nat /\ first \in Nat
  /\ length \in Nat /\ len \in Nat /\ timeout_ms \in Nat
  /\ start \in 0 .. WRAP - 1 /\ called \in Nat /\ until \in Nat
  /\ buf \in [Line!Positions -> Nat]

\* The system clock has been set by so much during the call.
SetBy(by) == /\ by \in Settings \cup {0}
             /\ ~set => by = 0
             /\ setback = IF by < 0 THEN -by ELSE 0

Clock ==
  /\ ~Active => ~set /\ setback = 0
  /\ target = "esp32" => ~set /\ setback = 0
  /\ Active => /\ timeout_ms \in Timeouts /\ called <= now
               /\ \E by \in Int, turns \in Int :
                    SetBy(by) /\ called + skew = start + by + turns * WRAP

Bound == called + timeout_ms + (IF target = "esp32" THEN 1 ELSE POLL + setback)

Deadlines ==
  /\ Active => now <= Bound
  /\ at \in {"firstByte", "nextByte", "delay", "noFile"} => now <= until /\ until <= Bound

Filled ==
  /\ taken <= arrived /\ arrived <= MaxBytes
  /\ Active /\ Line!Fits => taken = first + len /\ \A p \in 1 .. len : buf[p] = first + p
  /\ at \in OnPi \cup {"firstByte"} => len = 0
  /\ at = "nextByte" => len < length

UartInv == UartTyped /\ Clock /\ Deadlines /\ Filled

LEMMA LeftInTime ==
  ASSUME UartTyped, Clock, Deadlines, Active, Line!TimeLeft
  PROVE  now - called < timeout_ms + setback
<1>1. PICK by \in Int, turns \in Int :
        SetBy(by) /\ called + skew = start + by + turns * WRAP
  BY DEF Clock
<1> DEFINE reading == (now + skew) % WRAP
           q == (now + skew) \div WRAP
           z == reading - start + WRAP
           e == z % WRAP
           k == z \div WRAP
           D == now - called + by
<1>2. /\ WRAP \in Nat \ {0} /\ POLL \in Nat \ {0} /\ timeout_ms \in Nat
      /\ now \in Nat /\ skew \in Nat /\ called \in Nat /\ setback \in Nat
      /\ start \in 0 .. WRAP - 1 /\ called <= now /\ timeout_ms \in Timeouts
  BY BusAssumption DEF UartTyped, Clock
<1>3. q \in Nat /\ reading \in 0 .. WRAP - 1 /\ now + skew = WRAP * q + reading
  <2> DEFINE n == now + skew
  <2>1. n \in Nat
    BY <1>2
  <2> HIDE DEF n
  <2>2. n \div WRAP \in Nat /\ n % WRAP \in 0 .. WRAP - 1
        /\ n = WRAP * (n \div WRAP) + (n % WRAP)
    BY <1>2, <2>1, DivMod
  <2> QED
    BY <2>2 DEF n
<1>4. e < timeout_ms
  BY DEF Line!TimeLeft, Line!Elapsed, Line!get_time_system_ms
<1> HIDE DEF reading, q
<1>5. k \in Nat /\ e \in 0 .. WRAP - 1 /\ z = WRAP * k + e
  <2>1. z \in Nat
    BY <1>2, <1>3
  <2> HIDE DEF z
  <2> QED
    BY <1>2, <2>1, DivMod
<1>6. D < WRAP
  <2>1. now - called <= timeout_ms + POLL + setback
    BY <1>2 DEF Deadlines, Bound
  <2>2. CASE by < 0
    <3>1. setback = -by /\ timeout_ms + POLL < WRAP
      BY <1>1, <1>2, <2>2, BusAssumption DEF SetBy
    <3> QED
      BY <1>2, <2>1, <3>1
  <2>3. CASE ~(by < 0)
    <3>1. setback = 0 /\ timeout_ms + POLL + by < WRAP
      BY <1>1, <1>2, <2>3, BusAssumption DEF SetBy
    <3> QED
      BY <1>2, <2>1, <3>1
  <2> QED
    BY <2>2, <2>3
<1> DEFINE m == turns - q + 1 - k
<1>7. e = D + m * WRAP
  <2>1. m * WRAP = turns * WRAP - WRAP * q + WRAP - WRAP * k
    BY <1>2, <1>3, <1>5
  <2>2. z = reading - start + WRAP /\ D = now - called + by
    OBVIOUS
  <2> HIDE DEF z, e, k, D, m
  <2> QED
    BY <1>1, <1>2, <1>3, <1>5, <2>1, <2>2
<1>8. m \in Int /\ D \in Int
  BY <1>1, <1>2, <1>3, <1>5
<1> HIDE DEF m, e, D, z, k
<1>9. m >= 0
  <2>1. CASE m <= -1
    <3>1. m * WRAP <= -WRAP
      BY <1>2, <1>8, <2>1
    <3> QED
      BY <1>2, <1>5, <1>6, <1>7, <1>8, <3>1
  <2> QED
    BY <1>8, <2>1
<1>10. D <= e
  <2>1. m * WRAP >= 0
    BY <1>2, <1>8, <1>9
  <2> QED
    BY <1>2, <1>5, <1>7, <1>8, <2>1
<1>11. -by <= setback
  BY <1>1, <1>2 DEF SetBy
<1> QED
  BY <1>1, <1>2, <1>4, <1>5, <1>8, <1>10, <1>11 DEF D


LEMMA UartInit == Line!Init => UartInv
<1> SUFFICES ASSUME Line!Init PROVE UartInv
  OBVIOUS
<1>1. UartTyped
  BY BusAssumption DEF Line!Init, UartTyped, OnEsp, OnPi, Line!Positions
<1>2. Clock /\ Deadlines /\ Filled
  BY BusAssumption DEF Line!Init, Clock, Deadlines, Filled, Active, OnEsp, OnPi
<1> QED
  BY <1>1, <1>2 DEF UartInv

(* Between the calls the clock and what the invariant relates are at rest.  *)
LEMMA UartBetween ==
  ASSUME UartInv, Line!uart_init \/ Line!uart_change_baudrate \/ Line!uart_flush_rx
  PROVE  UartInv'
<1>1. /\ at \in {"off", "idle"} /\ at' = "idle"
      /\ UNCHANGED <<target, now, skew, set, setback, arrived, length, timeout_ms, start, len,
                     until, buf, called, first>>
      /\ taken' \in {taken, arrived}
  BY DEF Line!uart_init, Line!uart_change_baudrate, Line!uart_flush_rx,
         Line!clockVars, Line!callVars
<1>2. UartTyped' /\ Clock' /\ Deadlines'
  BY <1>1 DEF UartInv, UartTyped, Clock, Deadlines, Active, OnEsp, OnPi, Line!Positions
<1>3. Filled'
  BY <1>1 DEF UartInv, UartTyped, Filled, Active, OnEsp, OnPi, Line!Fits
<1> QED
  BY <1>2, <1>3 DEF UartInv

LEMMA UartArrive ==
  ASSUME UartInv, Line!Arrive
  PROVE  UartInv'
<1>1. /\ arrived < MaxBytes /\ arrived' = arrived + 1
      /\ UNCHANGED <<target, at, now, skew, set, setback, taken, length, timeout_ms, start,
                     len, until, buf, called, first>>
  BY DEF Line!Arrive, Line!clockVars, Line!callVars
<1>2. UartTyped'
  BY <1>1 DEF UartInv, UartTyped, Line!Positions
<1>3. Clock' /\ Deadlines'
  BY <1>1 DEF UartInv, Clock, SetBy, Deadlines, Bound, Active
<1>4. Filled'
  BY <1>1, BusAssumption DEF UartInv, UartTyped, Filled, Active, Line!Fits
<1> QED
  BY <1>2, <1>3, <1>4 DEF UartInv

LEMMA UartCalled ==
  ASSUME UartInv, NEW n \in Lengths, NEW ms \in Timeouts, Line!CallRead(n, ms)
  PROVE  UartInv'
<1>1. /\ ~Active
      /\ at' = IF target = "esp32" THEN "firstByte" ELSE IF fd THEN "look" ELSE "noFile"
      /\ length' = n /\ timeout_ms' = ms /\ start' = (now + skew) % WRAP
      /\ len' = 0 /\ buf' = [p \in Line!Positions |-> 0]
      /\ called' = now /\ first' = taken /\ until' = now + ms
      /\ UNCHANGED <<target, now, skew, set, setback, arrived, taken>>
  BY DEF Line!CallRead, Active, OnEsp, OnPi, Line!get_time_system_ms, Line!clockVars,
         Line!lineVars
<1>2. /\ now \in Nat /\ skew \in Nat /\ ms \in Nat /\ n \in Nat /\ WRAP \in Nat \ {0}
      /\ POLL \in Nat /\ ~set /\ setback = 0 /\ target \in {"esp32", "pi"}
  BY <1>1, BusAssumption DEF UartInv, UartTyped, Clock
<1>3. \E turns \in Int : start' \in 0 .. WRAP - 1 /\ now + skew = start' + turns * WRAP
  <2> DEFINE z == now + skew
  <2>1. z \in Nat
    BY <1>2
  <2> HIDE DEF z
  <2>2. /\ z \div WRAP \in Nat /\ z % WRAP \in 0 .. WRAP - 1
        /\ z = WRAP * (z \div WRAP) + (z % WRAP)
    BY <1>2, <2>1, DivMod
  <2>3. z \div WRAP \in Int /\ z = (z % WRAP) + (z \div WRAP) * WRAP
    BY <1>2, <2>2
  <2>4. start' = z % WRAP
    BY <1>1 DEF z
  <2> QED
    BY <2>2, <2>3, <2>4 DEF z
<1>4. /\ at' \in OnEsp \cup OnPi
      /\ at' \in OnEsp => target' = "esp32"
      /\ at' \in OnPi => target' = "pi"
      /\ at' \in OnPi \cup {"firstByte"} /\ at' \notin {"nextByte", "loop"}
  BY <1>1, <1>2 DEF OnEsp, OnPi
<1>5. UartTyped'
  BY <1>1, <1>2, <1>3, <1>4 DEF UartInv, UartTyped, Line!Positions
<1>6. Clock'
  <2>1. SetBy(0)'
    BY <1>1, <1>2 DEF SetBy
  <2>2. PICK turns \in Int : start' \in Nat /\ now + skew = start' + turns * WRAP
    BY <1>3
  <2>3. called' + skew' = start' + 0 + turns * WRAP
    BY <1>1, <1>2, <2>2
  <2>4. timeout_ms' \in Timeouts /\ called' <= now'
    BY <1>1, <1>2
  <2>5. target' = "esp32" => ~set' /\ setback' = 0
    BY <1>1, <1>2
  <2>6. Active'
    BY <1>4 DEF Active
  <2>7. 0 \in Int
    OBVIOUS
  <2> QED
    BY <2>1, <2>3, <2>4, <2>5, <2>6, <2>7, Zenon DEF Clock
<1>7. Deadlines'
  BY <1>1, <1>2 DEF Deadlines, Bound
<1>8. Filled'
  BY <1>1, <1>2, <1>4 DEF UartInv, UartTyped, Filled
<1> QED
  BY <1>5, <1>6, <1>7, <1>8 DEF UartInv

LEMMA UartReturned ==
  ASSUME UartInv, NEW r, Line!Return(r), taken' \in taken .. arrived,
         buf' \in [Line!Positions -> Nat]
  PROVE  UartInv'
<1>1. /\ at' = "idle" /\ set' = FALSE /\ setback' = 0
      /\ length' = 0 /\ timeout_ms' = 0 /\ start' = 0 /\ len' = 0 /\ until' = 0
      /\ called' = 0 /\ first' = 0
      /\ UNCHANGED <<target, now, skew, arrived>>
  BY DEF Line!Return
<1>2. UartTyped'
  BY <1>1, BusAssumption DEF UartInv, UartTyped, OnEsp, OnPi, Line!Positions
<1>3. Clock' /\ Deadlines' /\ Filled'
  BY <1>1 DEF UartInv, UartTyped, Clock, Deadlines, Filled, Active, OnEsp, OnPi
<1> QED
  BY <1>2, <1>3 DEF UartInv


(* A step of a call that goes on leaves the clock and the arguments alone.  *)
LEMMA UartGoesOn ==
  ASSUME UartInv, Active, at' \in OnEsp \cup OnPi,
         at' \in OnEsp <=> at \in OnEsp,
         UNCHANGED <<target, now, skew, set, setback, length, timeout_ms, start, called, first>>
  PROVE  Clock' /\ (now' <= Bound')
<1>1. Active'
  BY DEF Active
<1>2. Clock'
  BY <1>1 DEF UartInv, Clock, SetBy
<1>3. now' <= Bound'
  BY DEF UartInv, Deadlines, Bound
<1> QED
  BY <1>2, <1>3

LEMMA UartByte ==
  ASSUME UartInv, Line!ByteRead
  PROVE  UartInv'
<1>1. /\ at \in {"firstByte", "nextByte"} /\ at' = "loop" /\ taken < arrived
      /\ buf' = [buf EXCEPT ![len + 1] = taken + 1]
      /\ taken' = taken + 1 /\ len' = (len + 1) % LEN_VALUES
      /\ UNCHANGED <<target, now, skew, set, setback, arrived, length, timeout_ms, start,
                     until, called, first>>
  BY DEF Line!ByteRead, Line!Available, Line!clockVars, UartInv, UartTyped
<1>2. /\ Active /\ at' \in OnEsp /\ at \in OnEsp /\ at' \notin OnPi \cup {"firstByte"}
  BY <1>1 DEF Active, OnEsp, OnPi
<1>3. Clock' /\ Deadlines'
  BY <1>1, <1>2, UartGoesOn DEF Deadlines
<1>4. /\ len \in Nat /\ length \in Nat /\ first \in Nat /\ taken \in Nat /\ arrived \in Nat
      /\ buf \in [1 .. MaxBytes -> Nat] /\ arrived <= MaxBytes /\ MaxBytes \in Nat
      /\ at = "firstByte" => len = 0
      /\ at = "nextByte" => len < length
      /\ LEN_VALUES \in Nat \ {0, 1} /\ target = "esp32"
  BY <1>2, BusAssumption DEF UartInv, UartTyped, Filled, Line!Positions, OnPi
<1>5. UartTyped'
  <2>1. len' \in Nat
    BY <1>1, <1>4
  <2>2. buf' \in [1 .. MaxBytes -> Nat]
    <3>1. buf' = [buf EXCEPT ![len + 1] = taken + 1]
      BY <1>1
    <3>2. taken + 1 \in Nat /\ buf \in [1 .. MaxBytes -> Nat]
      BY <1>4
    <3> QED
      BY <3>1, <3>2
  <2> QED
    BY <1>1, <1>2, <1>4, <2>1, <2>2 DEF UartInv, UartTyped, Line!Positions
<1>6. ASSUME Line!Fits
      PROVE  taken' = first + len' /\ \A p \in 1 .. len' : buf'[p] = first + p
  <2>1. taken = first + len /\ \A p \in 1 .. len : buf[p] = first + p
    BY <1>2, <1>6 DEF UartInv, Filled
  <2>2. len + 1 \in 1 .. LEN_VALUES - 1
    BY <1>1, <1>4, <1>6 DEF Line!Fits
  <2>3. len' = len + 1
    BY <1>1, <1>4, <2>2
  <2>4. len + 1 \in 1 .. MaxBytes /\ taken + 1 \in Nat
    BY <1>1, <1>4, <2>1
  <2>5. ASSUME NEW p \in 1 .. len + 1 PROVE buf'[p] = first + p
    <3>1. CASE p = len + 1
      <4>1. buf'[p] = taken + 1
        BY <1>1, <1>4, <2>4, <3>1
      <4> QED
        BY <1>4, <2>1, <3>1, <4>1
    <3>2. CASE p # len + 1
      <4>1. p \in 1 .. len /\ buf'[p] = buf[p]
        BY <1>1, <1>4, <2>4, <3>2
      <4> QED
        BY <1>4, <2>1, <4>1
    <3> QED
      BY <3>1, <3>2
  <2> QED
    BY <1>1, <1>4, <2>1, <2>3, <2>5
<1>7. Filled'
  BY <1>1, <1>2, <1>4, <1>6 DEF Filled, Line!Fits
<1> QED
  BY <1>3, <1>5, <1>7 DEF UartInv

LEMMA UartStays ==
  ASSUME UartInv, Active,
         UNCHANGED <<target, now, skew, set, setback, arrived, taken, length, timeout_ms,
                     start, len, buf, called, first>>,
         \/ /\ at = "loop" /\ at' = "nextByte" /\ Line!TimeLeft /\ until' = now + 1
            /\ len < length
         \/ /\ at = "look" /\ at' = "delay" /\ Line!TimeLeft /\ until' = now + POLL
         \/ at = "delay" /\ at' = "look" /\ until' = until
  PROVE  UartInv'
<1>1. Clock' /\ now' <= Bound'
  BY UartGoesOn DEF OnEsp, OnPi
<1>2. POLL \in Nat
  BY BusAssumption
<1>3. UartTyped'
  BY <1>2 DEF UartInv, UartTyped, OnEsp, OnPi, Line!Positions
<1>4. Deadlines'
  <2>1. CASE at' = "look"
    BY <1>1, <2>1 DEF Deadlines
  <2>2. CASE at' = "nextByte"
    <3>1. now - called < timeout_ms + setback /\ setback = 0 /\ target = "esp32"
      BY <2>2, LeftInTime DEF UartInv, UartTyped, Clock, OnEsp
    <3>2. now \in Nat /\ called \in Nat /\ timeout_ms \in Nat
      BY DEF UartInv, UartTyped
    <3> QED
      BY <1>1, <2>2, <3>1, <3>2 DEF Deadlines, Bound
  <2>3. CASE at' = "delay"
    <3>1. now - called < timeout_ms + setback /\ target = "pi"
      BY <2>3, LeftInTime DEF UartInv, UartTyped, OnPi
    <3>2. now \in Nat /\ called \in Nat /\ timeout_ms \in Nat /\ setback \in Nat
      BY DEF UartInv, UartTyped
    <3> QED
      BY <1>1, <1>2, <2>3, <3>1, <3>2 DEF Deadlines, Bound
  <2> QED
    BY <2>1, <2>2, <2>3
<1>5. Filled'
  BY DEF UartInv, Filled, Active, OnEsp, OnPi, Line!Fits
<1> QED
  BY <1>1, <1>3, <1>4, <1>5 DEF UartInv

LEMMA UartRead ==
  ASSUME UartInv, Line!Read
  PROVE  UartInv'
<1>1. taken \in Nat /\ arrived \in Nat /\ taken <= arrived
  BY DEF UartInv, UartTyped, Filled
<1>2. CASE Line!NoByte \/ Line!NoFile
  <2>1. \E r : Line!Return(r) /\ UNCHANGED <<taken, buf>>
    BY <1>2 DEF Line!NoByte, Line!NoFile
  <2> QED
    BY <1>1, <2>1, UartReturned DEF UartInv, UartTyped
<1>3. CASE Line!Loop
  <2>1. CASE Line!TimeLeft /\ len < length
    <3>1. /\ UNCHANGED <<target, now, skew, set, setback, arrived, taken, length, timeout_ms,
                         start, len, buf, called, first>>
          /\ at = "loop" /\ at' = "nextByte" /\ until' = now + 1
      BY <1>3, <2>1
         DEF Line!Loop, Line!clockVars, Line!lineVars, Line!NEXT_BYTE_MS
    <3>2. Active
      BY <3>1 DEF Active, OnEsp
    <3> QED
      BY <2>1, <3>1, <3>2, UartStays
  <2>2. CASE ~(Line!TimeLeft /\ len < length)
    <3>1. Line!Return(len) /\ UNCHANGED <<taken, buf>>
      BY <1>3, <2>2 DEF Line!Loop
    <3> QED
      BY <1>1, <3>1, UartReturned DEF UartInv, UartTyped
  <2> QED
    BY <2>1, <2>2
<1>4. CASE Line!Look
  <2>1. PICK n \in Nat :
          /\ n <= arrived - taken
          /\ buf' = [p \in Line!Positions |-> IF p <= n THEN taken + p ELSE buf[p]]
          /\ taken' = taken + n /\ Line!Return(n)
    <3> DEFINE n == IF Line!Available < length THEN Line!Available ELSE length
    <3>1. n \in Nat /\ n <= arrived - taken
      BY <1>1 DEF Line!Available, UartInv, UartTyped
    <3> QED
      BY <1>4, <3>1 DEF Line!Look
  <2>2. taken' \in taken .. arrived
    BY <1>1, <2>1
  <2>3. buf' \in [Line!Positions -> Nat]
    BY <1>1, <2>1 DEF Line!Positions, UartInv, UartTyped
  <2> QED
    BY <2>1, <2>2, <2>3, UartReturned
<1>5. CASE Line!LookAgain
  <2>1. CASE Line!TimeLeft
    <3>1. /\ UNCHANGED <<target, now, skew, set, setback, arrived, taken, length, timeout_ms,
                         start, len, buf, called, first>>
          /\ at = "look" /\ at' = "delay" /\ until' = now + POLL
      BY <1>5, <2>1 DEF Line!LookAgain, Line!clockVars, Line!lineVars
    <3>2. Active
      BY <3>1 DEF Active, OnPi
    <3> QED
      BY <2>1, <3>1, <3>2, UartStays
  <2>2. CASE ~Line!TimeLeft
    <3>1. Line!Return(Line!ERROR_TIMEOUT) /\ UNCHANGED <<taken, buf>>
      BY <1>5, <2>2 DEF Line!LookAgain
    <3> QED
      BY <1>1, <3>1, UartReturned DEF UartInv, UartTyped
  <2> QED
    BY <2>1, <2>2
<1>6. CASE Line!DelayOver
  <2>1. /\ UNCHANGED <<target, now, skew, set, setback, arrived, taken, length, timeout_ms,
                       start, len, buf, called, first>>
        /\ at = "delay" /\ at' = "look" /\ until' = until
    BY <1>6 DEF Line!DelayOver, Line!clockVars, Line!lineVars
  <2>2. Active
    BY <2>1 DEF Active, OnPi
  <2> QED
    BY <2>1, <2>2, UartStays
<1> QED
  BY <1>2, <1>3, <1>4, <1>5, <1>6, UartByte DEF Line!Read

(* Time passes in a call only up to its deadline.                           *)
LEMMA UartTick ==
  ASSUME UartInv, Line!Tick
  PROVE  UartInv'
<1>1. /\ now' = now + 1 /\ now \in Nat
      /\ UNCHANGED <<target, at, skew, set, setback, arrived, taken, length, timeout_ms, start,
                     len, until, buf, called, first>>
      /\ Active => /\ at \in {"firstByte", "nextByte", "delay", "noFile"}
                   /\ now < until
  BY DEF Line!Tick, Line!Waits, Line!lineVars, Line!callVars, Active, OnEsp, OnPi, UartInv,
         UartTyped
<1>2. UartTyped'
  BY <1>1 DEF UartInv, UartTyped, Line!Positions
<1>3. Clock'
  BY <1>1 DEF UartInv, UartTyped, Clock, SetBy, Active
<1>4. Deadlines'
  <2>1. CASE Active
    <3>1. now' <= until' /\ until' <= Bound' /\ Bound' = Bound /\ Bound \in Nat
      BY <1>1, <2>1, BusAssumption DEF UartInv, UartTyped, Deadlines, Bound
    <3> QED
      BY <1>1, <3>1 DEF UartInv, UartTyped, Deadlines, Active
  <2>2. CASE ~Active
    BY <1>1, <2>2 DEF Deadlines, Active, OnEsp, OnPi
  <2> QED
    BY <2>1, <2>2
<1>5. Filled'
  BY <1>1 DEF UartInv, Filled, Active, Line!Fits
<1> QED
  BY <1>2, <1>3, <1>4, <1>5 DEF UartInv

LEMMA UartSet ==
  ASSUME UartInv, Line!SetClock
  PROVE  UartInv'
<1>1. PICK by \in Settings : /\ skew' = (skew + by + WRAP) % WRAP
                             /\ setback' = IF by < 0 THEN setback - by ELSE setback
  BY DEF Line!SetClock
<1>2. /\ target = "pi" /\ at \in {"delay", "noFile"} /\ ~set /\ set' = TRUE
      /\ UNCHANGED <<target, at, now, arrived, taken, length, timeout_ms, start, len, until,
                     buf, called, first>>
  BY DEF Line!SetClock, Line!lineVars, Line!callVars
<1>3. Active /\ Active'
  BY <1>2 DEF Active, OnPi
<1>4. PICK turns \in Int : setback = 0 /\ called + skew = start + turns * WRAP
  <2>1. PICK b \in Int, turns \in Int :
          SetBy(b) /\ called + skew = start + b + turns * WRAP
    BY <1>3 DEF UartInv, Clock
  <2>2. b = 0 /\ setback = 0
    BY <1>2, <2>1 DEF SetBy
  <2>3. start \in Nat /\ start + b = start
    BY <2>2 DEF UartInv, UartTyped
  <2> QED
    BY <2>1, <2>2, <2>3
<1>5. /\ by \in Int /\ -WRAP <= by /\ WRAP \in Nat \ {0} /\ POLL \in Nat
      /\ skew \in Nat /\ called \in Nat /\ start \in Nat
  BY BusAssumption DEF UartInv, UartTyped
<1>6. \E q \in Nat : skew' \in Nat /\ skew + by + WRAP = WRAP * q + skew'
  <2> DEFINE z == skew + by + WRAP
  <2>1. z \in Nat
    BY <1>5
  <2> HIDE DEF z
  <2>2. /\ z \div WRAP \in Nat /\ z % WRAP \in 0 .. WRAP - 1
        /\ z = WRAP * (z \div WRAP) + (z % WRAP)
    BY <1>5, <2>1, DivMod
  <2>3. skew' = z % WRAP
    BY <1>1 DEF z
  <2> QED
    BY <2>2, <2>3 DEF z
<1>7. setback' = (IF by < 0 THEN -by ELSE 0) /\ setback' \in Nat
  BY <1>1, <1>4, <1>5
<1>8. UartTyped'
  BY <1>2, <1>6, <1>7 DEF UartInv, UartTyped, Line!Positions
<1>9. Clock'
  <2>1. PICK q \in Nat : skew' \in Nat /\ skew + by + WRAP = WRAP * q + skew'
    BY <1>6
  <2> DEFINE k == turns + 1 - q
  <2>2. k \in Int /\ k * WRAP = turns * WRAP + WRAP - WRAP * q
    BY <1>5, <2>1
  <2> HIDE DEF k
  <2>3. called' + skew' = start' + by + k * WRAP
    <3> DEFINE m1 == turns * WRAP
               m2 == WRAP * q
               m3 == k * WRAP
    <3>1. m1 \in Int /\ m2 \in Int
      BY <1>5
    <3>2. m3 = m1 + WRAP - m2
      BY <2>2
    <3>3. called + skew = start + m1
      BY <1>4
    <3>4. skew' \in Nat /\ skew + by + WRAP = m2 + skew'
      BY <2>1
    <3>5. called' = called /\ start' = start
      BY <1>2
    <3> HIDE DEF m1, m2, m3
    <3>6. skew \in Int /\ called \in Int /\ start \in Int /\ by \in Int /\ WRAP \in Int
      BY <1>5
    <3>7. skew' = skew + by + WRAP - m2
      <4> DEFINE x == skew'
      <4>1. x \in Int /\ m2 \in Int /\ skew + by + WRAP = m2 + x
        BY <3>1, <3>4
      <4> HIDE DEF x
      <4>2. x = skew + by + WRAP - m2
        BY <3>6, <4>1
      <4> QED
        BY <4>2 DEF x
    <3>8. called + skew' = start + by + m3
      BY <3>1, <3>2, <3>3, <3>6, <3>7
    <3> QED
      BY <3>5, <3>8 DEF m3
  <2>4. SetBy(by)'
    BY <1>2, <1>7 DEF SetBy
  <2>5. timeout_ms' \in Timeouts /\ called' <= now'
    BY <1>2, <1>3 DEF UartInv, Clock
  <2>6. target' # "esp32"
    BY <1>2
  <2> QED
    BY <1>3, <1>5, <2>2, <2>3, <2>4, <2>5, <2>6, Zenon DEF Clock
<1>10. Deadlines'
  BY <1>2, <1>3, <1>4, <1>5, <1>7 DEF UartInv, UartTyped, Deadlines, Bound
<1>11. Filled'
  BY <1>2 DEF UartInv, Filled, Active, Line!Fits
<1> QED
  BY <1>8, <1>9, <1>10, <1>11 DEF UartInv

LEMMA UartStep == UartInv /\ [Line!Next]_uart => UartInv'
<1> SUFFICES ASSUME UartInv, [Line!Next]_uart PROVE UartInv'
  OBVIOUS
<1>1. CASE UNCHANGED uart
  BY <1>1
     DEF uart, UartInv, UartTyped, Clock, SetBy, Deadlines, Bound, Filled, Active,
         Line!Positions, Line!Fits
<1> QED
  BY <1>1, UartBetween, UartArrive, UartCalled, UartRead, UartTick, UartSet DEF Line!Next

LEMMA OnlyUart == [I2c \/ Spi \/ Serial]_<<part, i2c, spi, uart>> => [Line!Next]_uart
BY DEF I2c, Spi, Serial

LEMMA UartInvariant == BusSpec => []UartInv
<1>1. BusInit => UartInv
  BY UartInit DEF BusInit
<1> QED
  BY <1>1, UartStep, OnlyUart, PTL DEF BusSpec

(* A call of uart_read is done in time for any timeout that is, with one    *)
(* more delay, shorter than a turn of the clock: later only by as much as   *)
(* the system clock is set back, and also when it is set forward by less    *)
(* than what remains of the turn.                                           *)
THEOREM ReadsAreInTime == BusSpec => []ReadInTime
<1>1. UartInv => ReadInTime
  <2> SUFFICES ASSUME UartInv, Active
               PROVE  now - called <= timeout_ms
                        + (IF target = "esp32" THEN Line!NEXT_BYTE_MS ELSE POLL + setback)
    BY DEF ReadInTime, Line!ReadInTime, UartInv, UartTyped, Active
  <2> QED
    BY BusAssumption DEF UartInv, UartTyped, Deadlines, Bound, Line!NEXT_BYTE_MS
<1> QED
  BY <1>1, UartInvariant, PTL

(* A result above 0 counts the bytes in the buffer, the next ones on the    *)
(* line; with any other result none is taken from the line.  On the ESP32   *)
(* this is so for every length below the values of its counter len, which   *)
(* a longer call turns over.                                                *)
THEOREM BytesAreTheLine == BusSpec => ReadsTheLine
<1> DEFINE Result == IF uart_result' > 0
                       THEN /\ taken' = first + uart_result'
                            /\ \A p \in 1 .. uart_result' : buf'[p] = first + p
                       ELSE taken' = first
<1>1. ASSUME UartInv, Line!Read, Active, ~Active', Line!Fits
      PROVE  Result
  <2>1. /\ first \in Nat /\ len \in Nat /\ taken = first + len /\ taken \in Nat
        /\ arrived \in Nat /\ taken <= arrived /\ arrived <= MaxBytes
        /\ \A p \in 1 .. len : buf[p] = first + p
        /\ at \in OnPi \cup {"firstByte"} => len = 0
        /\ length \in Nat /\ MaxBytes \in Nat
    BY <1>1, BusAssumption DEF UartInv, UartTyped, Filled
  <2>2. CASE Line!NoByte \/ Line!NoFile
    <3>1. CASE uart_result' = Line!ERROR_FAIL /\ len = 0 /\ taken' = taken
      BY <2>1, <3>1 DEF Line!ERROR_FAIL
    <3>2. CASE uart_result' = len /\ UNCHANGED <<taken, buf>>
      BY <2>1, <3>2
    <3> QED
      BY <2>1, <2>2, <3>1, <3>2 DEF Line!NoByte, Line!NoFile, Line!Return, OnPi
  <2>3. CASE Line!Loop
    <3>1. uart_result' = len /\ UNCHANGED <<taken, buf>>
      BY <1>1, <2>3 DEF Line!Loop, Line!Return, Active, OnEsp
    <3> QED
      BY <2>1, <3>1
  <2>4. CASE Line!Look
    <3> DEFINE n == IF Line!Available < length THEN Line!Available ELSE length
    <3>1. n \in Nat /\ n <= MaxBytes - taken
      BY <2>1 DEF Line!Available
    <3>2. /\ uart_result' = n /\ taken' = taken + n /\ at = "look"
          /\ buf' = [p \in 1 .. MaxBytes |-> IF p <= n THEN taken + p ELSE buf[p]]
      BY <2>4 DEF Line!Look, Line!Return, Line!Positions
    <3> HIDE DEF n
    <3>3. first = taken
      BY <2>1, <3>2 DEF OnPi
    <3>4. \A p \in 1 .. n : buf'[p] = taken + p
      BY <2>1, <3>1, <3>2
    <3> QED
      BY <2>1, <3>1, <3>2, <3>3, <3>4
  <2>5. CASE Line!LookAgain
    <3>1. uart_result' = -9 /\ taken' = taken /\ at = "look"
      BY <1>1, <2>5 DEF Line!LookAgain, Line!Return, Line!ERROR_TIMEOUT, Active, OnPi
    <3> QED
      BY <2>1, <3>1 DEF OnPi
  <2>6. CASE Line!ByteRead \/ Line!DelayOver
    BY <1>1, <2>6 DEF Line!ByteRead, Line!DelayOver, Active, OnEsp, OnPi
  <2> QED
    BY <1>1, <2>2, <2>3, <2>4, <2>5, <2>6 DEF Line!Read
<1>2. UartInv /\ [Line!Next]_uart
        => [(at \notin {"off", "idle"} /\ at' = "idle" /\ Line!Fits) => Result]_uart
  <2> SUFFICES ASSUME UartInv, Line!Next, at \notin {"off", "idle"}, at' = "idle",
                      Line!Fits
               PROVE  Result
    OBVIOUS
  <2>1. Active /\ ~Active'
    BY DEF UartInv, UartTyped, Active, OnEsp, OnPi
  <2>2. Line!Read
    BY DEF Line!Next, Line!uart_init, Line!uart_change_baudrate, Line!uart_flush_rx,
           Line!CallRead, Line!Arrive, Line!Tick, Line!SetClock, Line!callVars
  <2> QED
    BY <1>1, <2>1, <2>2
<1>3. UartInv /\ [I2c \/ Spi \/ Serial]_<<part, i2c, spi, uart>>
        => [(at \notin {"off", "idle"} /\ at' = "idle" /\ Line!Fits)
              => IF uart_result' > 0
                   THEN taken' = first + uart_result'
                          /\ \A p \in 1 .. uart_result' : buf'[p] = first + p
                   ELSE taken' = first]_Line!vars
  BY <1>2, OnlyUart
     DEF uart, Line!vars, Line!clockVars, Line!lineVars, Line!fileVars, Line!callVars
<1> QED
  BY <1>3, UartInvariant, PTL DEF BusSpec, ReadsTheLine, Line!ReadsTheLine
====================================================================================
