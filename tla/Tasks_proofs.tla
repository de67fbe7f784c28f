------------------------------- MODULE Tasks_proofs -------------------------------
(***************************************************************************)
(* The periodic wake-up, for any width of the tick counter and any waits   *)
(* shorter than its turn.  The code compares two readings of a counter     *)
(* that wraps; what it knows of the time comes from two facts: a task      *)
(* never calls before the time that last_wake_tick stands for (NotBefore), *)
(* and the counter runs on by t for t ticks, or to t ticks less one turn   *)
(* (RunsOn).                                                               *)
(***************************************************************************)
EXTENDS MCTasks, TLAPS

LEMMA DivMod ==
  ASSUME NEW n \in Nat, NEW w \in Nat \ {0}
  PROVE  /\ n \div w \in Nat /\ n % w \in 0 .. w - 1
         /\ n = w * (n \div w) + (n % w)
<1>1. n \div w \in Nat
  OBVIOUS
<1>2. n % w \in 0 .. w - 1
  OBVIOUS
<1>3. n = w * (n \div w) + (n % w)
  OBVIOUS
<1> QED
  BY <1>1, <1>2, <1>3

(* A number has one quotient and one remainder.                             *)
LEMMA OneRemainder ==
  ASSUME NEW w \in Nat \ {0}, NEW n \in Nat, NEW q \in Nat, NEW r \in 0 .. w - 1,
         n = w * q + r
  PROVE  n % w = r /\ n \div w = q
<1> DEFINE p == n \div w
           s == n % w
<1>1. p \in Nat /\ s \in 0 .. w - 1 /\ n = w * p + s
  BY DivMod
<1> HIDE DEF p, s
<1>2. CASE q < p
  <2>1. w * p >= w * (q + 1)
    BY <1>1, <1>2
  <2>2. w * (q + 1) = w * q + w
    OBVIOUS
  <2> QED
    BY <1>1, <2>1, <2>2
<1>3. CASE p < q
  <2>1. w * q >= w * (p + 1)
    BY <1>1, <1>3
  <2>2. w * (p + 1) = w * p + w
    BY <1>1
  <2> QED
    BY <1>1, <2>1, <2>2
<1>4. CASE p = q
  BY <1>1, <1>4 DEF p, s
<1> QED
  BY <1>1, <1>2, <1>3, <1>4

LEMMA Reduced ==
  ASSUME NEW w \in Nat \ {0}, NEW r \in 0 .. w - 1
  PROVE  r % w = r /\ (r + w) % w = r
<1>1. r \in Nat /\ r + w \in Nat /\ r = w * 0 + r /\ r + w = w * 1 + r
  OBVIOUS
<1> QED
  BY <1>1, OneRemainder

(* The counter t ticks later.                                               *)
LEMMA RunsOn ==
  ASSUME NEW w \in Nat \ {0}, NEW n \in Nat, NEW t \in 0 .. w - 1
  PROVE  LET r == n % w
             later == IF r + t < w THEN r + t ELSE r + t - w
         IN  (r + t) % w = later /\ (n + t) % w = later
<1> DEFINE r == n % w
           q == n \div w
<1>1. q \in Nat /\ r \in 0 .. w - 1 /\ n = w * q + r
  BY DivMod
<1> HIDE DEF r, q
<1>2. CASE r + t < w
  <2>1. r + t \in 0 .. w - 1 /\ r + t \in Nat /\ r + t = w * 0 + (r + t)
    BY <1>1, <1>2
  <2>2. n + t \in Nat /\ n + t = w * q + (r + t)
    BY <1>1
  <2>3. (r + t) % w = r + t
    BY <2>1, OneRemainder
  <2>4. (n + t) % w = r + t
    BY <1>1, <2>1, <2>2, OneRemainder
  <2> QED
    BY <1>2, <2>3, <2>4 DEF r
<1>3. CASE ~(r + t < w)
  <2>1. r + t - w \in 0 .. w - 1 /\ r + t \in Nat /\ r + t = w * 1 + (r + t - w)
    BY <1>1, <1>3
  <2>2. q + 1 \in Nat /\ n + t \in Nat /\ n + t = w * (q + 1) + (r + t - w)
    BY <1>1
  <2>3. (r + t) % w = r + t - w
    BY <2>1, OneRemainder
  <2>4. (n + t) % w = r + t - w
    BY <2>1, <2>2, OneRemainder
  <2> QED
    BY <1>3, <2>3, <2>4 DEF r
<1> QED
  BY <1>2, <1>3

(* Within one turn of the counter its differences are those of the time.    *)
LEMMA SameTurn ==
  ASSUME NEW w \in Nat \ {0}, NEW n \in Nat, NEW m \in Nat, NEW k \in Nat,
         n <= m, m <= k, n \div w = k \div w
  PROVE  m % w = (n % w) + (m - n)
<1> DEFINE q == n \div w
           r == n % w
           s == k % w
<1>1. /\ q \in Nat /\ r \in 0 .. w - 1 /\ n = w * q + r
      /\ s \in 0 .. w - 1 /\ k = w * q + s
  BY DivMod
<1> HIDE DEF q, r, s
<1>2. w * q \in Nat
  BY <1>1
<1>3. r + (m - n) \in 0 .. w - 1 /\ m = w * q + (r + (m - n))
  BY <1>1, <1>2
<1>4. m % w = r + (m - n)
  <2> DEFINE z == r + (m - n)
  <2>1. z \in 0 .. w - 1 /\ m = w * q + z
    BY <1>3
  <2> HIDE DEF z
  <2>2. m % w = z
    BY <1>1, <2>1, OneRemainder
  <2> QED
    BY <2>2 DEF z
<1> QED
  BY <1>4 DEF r

----------------------------------------------------------------------------
(* How long vTaskDelayUntil lets the task sleep behind the test of wait_for.*)
LEMMA SleepsInTime ==
  ASSUME NEW t \in 1 .. WRAP - 1, now \in Nat, last \in Nat, last <= now
  PROVE  LET from == IF Delay!SeemsLate(t) THEN now ELSE last
             sleep == Delay!vTaskDelayUntil(from % WRAP, t)
         IN  sleep \in 0 .. t /\ from + t <= now + sleep
<1> DEFINE p == last % WRAP
           n == now % WRAP
<1>1. WRAP \in Nat \ {0} /\ t \in 0 .. WRAP - 1 /\ p \in 0 .. WRAP - 1 /\ n \in 0 .. WRAP - 1
  BY PeriodAssumption, DivMod
<1>2. /\ (p + t) % WRAP = IF p + t < WRAP THEN p + t ELSE p + t - WRAP
      /\ (n + t) % WRAP = IF n + t < WRAP THEN n + t ELSE n + t - WRAP
  BY <1>1, RunsOn
<1>3. now - last < t => n = IF p + (now - last) < WRAP THEN p + (now - last)
                                                      ELSE p + (now - last) - WRAP
  <2> SUFFICES ASSUME now - last < t
               PROVE  n = IF p + (now - last) < WRAP THEN p + (now - last)
                                                     ELSE p + (now - last) - WRAP
    OBVIOUS
  <2> DEFINE d1 == now - last
  <2>1. d1 \in 0 .. WRAP - 1 /\ last + d1 = now
    BY <1>1
  <2> HIDE DEF d1
  <2>2. (last + d1) % WRAP = IF p + d1 < WRAP THEN p + d1 ELSE p + d1 - WRAP
    BY <1>1, <2>1, RunsOn
  <2> QED
    BY <2>1, <2>2 DEF d1
<1>4. Delay!SeemsLate(t) <=> (p + t) % WRAP < n
  BY DEF Delay!SeemsLate, Delay!last_wake_tick, Delay!xTaskGetTickCount
<1> DEFINE Sleep(prev, up) ==
             LET due == IF n < prev THEN up < prev /\ up > n ELSE up < prev \/ up > n
             IN  IF due THEN (up + WRAP - n) % WRAP ELSE 0
<1>5. \A k \in {now, last} : Delay!vTaskDelayUntil(k % WRAP, t)
                               = Sleep(k % WRAP, ((k % WRAP) + t) % WRAP)
  BY DEF Delay!vTaskDelayUntil, Delay!xTaskGetTickCount
<1>6. \A up \in 0 .. WRAP - 1 : (up + WRAP - n) % WRAP = IF up < n THEN up + WRAP - n ELSE up - n
  <2> TAKE up \in 0 .. WRAP - 1
  <2>1. CASE up < n
    <3> DEFINE z == up + WRAP - n
    <3>1. z \in 0 .. WRAP - 1
      BY <1>1, <2>1
    <3> HIDE DEF z
    <3>2. z % WRAP = z
      BY <1>1, <3>1, Reduced
    <3> QED
      BY <2>1, <3>2 DEF z
  <2>2. CASE ~(up < n)
    <3> DEFINE z == up - n
    <3>1. z \in 0 .. WRAP - 1 /\ up + WRAP - n = z + WRAP
      BY <1>1, <2>2
    <3> HIDE DEF z
    <3>2. (z + WRAP) % WRAP = z
      BY <1>1, <3>1, Reduced
    <3> QED
      BY <2>2, <3>1, <3>2 DEF z
  <2> QED
    BY <2>1, <2>2
<1> HIDE DEF p, n
<1>7. CASE Delay!SeemsLate(t)
  <2> DEFINE up == (n + t) % WRAP
  <2>1. up \in 0 .. WRAP - 1 /\ up # n /\ (up < n => up + WRAP - n = t) /\ (up > n => up - n = t)
    BY <1>1, <1>2
  <2>2. Delay!vTaskDelayUntil(now % WRAP, t) = Sleep(n, up)
    BY <1>5 DEF n
  <2> HIDE DEF up
  <2>3. Sleep(n, up) = t
    BY <1>1, <1>6, <2>1
  <2> HIDE DEF Sleep
  <2> QED
    BY <1>1, <1>7, <2>2, <2>3
<1>8. CASE ~Delay!SeemsLate(t)
  <2> DEFINE up == (p + t) % WRAP
  <2>1. up \in 0 .. WRAP - 1 /\ up >= n
    BY <1>1, <1>2, <1>4, <1>8
  <2>2. Delay!vTaskDelayUntil(last % WRAP, t) = Sleep(p, up)
    BY <1>5 DEF p
  <2>3. up = IF p + t < WRAP THEN p + t ELSE p + t - WRAP
    BY <1>2
  <2> HIDE DEF up
  <2>4. Sleep(p, up) = IF (n < p /\ up < p /\ up > n) \/ (n >= p /\ up > n)
                         THEN up - n ELSE 0
    BY <1>1, <1>6, <2>1
  <2> HIDE DEF Sleep
  <2>5. Sleep(p, up) \in 0 .. t
    BY <1>1, <2>1, <2>3, <2>4
  <2>6. last + t <= now + Sleep(p, up)
    <3>1. CASE now - last < t
      BY <1>1, <1>3, <2>1, <2>3, <2>4, <3>1
    <3>2. CASE ~(now - last < t)
      BY <1>1, <2>5, <3>2
    <3> QED
      BY <3>1, <3>2
  <2> QED
    BY <1>8, <2>2, <2>5, <2>6
<1> QED
  BY <1>7, <1>8

(* A task neither wakes nor calls before the time it has last waited for.   *)
NotBefore == last <= IF sleeping THEN wake ELSE now

DelayInv ==
  /\ {now, last, call, wait, wake} \subseteq Nat /\ sleeping \in BOOLEAN
  /\ target \in {"esp32", "pi"}
  /\ NotBefore /\ NeverOversleeps

LEMMA DelayInit == Delay!Init => DelayInv
<1> SUFFICES ASSUME Delay!Init PROVE DelayInv
  OBVIOUS
<1>1. /\ now \in Nat /\ last = now /\ call = now /\ wake = now /\ wait = 0
      /\ sleeping = FALSE /\ target \in {"esp32", "pi"}
  BY PeriodAssumption DEF Delay!Init
<1>2. NotBefore /\ NeverOversleeps
  BY <1>1 DEF NotBefore, NeverOversleeps, Delay!NeverOversleeps
<1>3. {now, last, call, wait, wake} \subseteq Nat
  BY <1>1
<1>4. sleeping \in BOOLEAN
  BY <1>1
<1> QED
  BY <1>1, <1>2, <1>3, <1>4, Zenon DEF DelayInv

LEMMA DelayWaits ==
  ASSUME DelayInv, NEW ms \in Waits, Delay!wait_for(ms)
  PROVE  DelayInv'
<1> DEFINE t == Delay!pdMS_TO_TICKS(ms)
<1>1. t \in 1 .. WRAP - 1 /\ t \in Nat
  BY PeriodAssumption DEF Delay!pdMS_TO_TICKS
<1>2. /\ ~sleeping /\ sleeping' = TRUE /\ call' = now /\ UNCHANGED <<target, now>>
      /\ {now, last} \subseteq Nat /\ last <= now
  BY DEF Delay!wait_for, DelayInv, NotBefore
<1>3. /\ {wait', last', wake'} \subseteq Nat
      /\ last' <= wake' /\ wake' <= now + wait'
  <2>1. CASE Delay!WaitForEsp(ms)
    <3> DEFINE from == IF Delay!SeemsLate(t) THEN now ELSE last
               sleep == Delay!vTaskDelayUntil(from % WRAP, t)
    <3>1. wait' = t /\ wake' = now + sleep /\ last' = from + t
      BY <2>1 DEF Delay!WaitForEsp
    <3>2. sleep \in 0 .. t /\ from + t <= now + sleep /\ from \in Nat
      BY <1>1, <1>2, SleepsInTime
    <3> HIDE DEF from, sleep, t
    <3> QED
      BY <1>1, <1>2, <3>1, <3>2
  <2>2. CASE Delay!WaitForPi(ms)
    <3>1. /\ wait' = ms /\ wake' = last' /\ ms \in Nat
          /\ last' = IF last + ms < now THEN now ELSE last + ms
      BY <2>2, PeriodAssumption DEF Delay!WaitForPi
    <3> QED
      BY <1>2, <3>1
  <2> QED
    BY <2>1, <2>2 DEF Delay!wait_for
<1> HIDE DEF t
<1>4. {now, last, call, wait, wake}' \subseteq Nat /\ wake' <= call' + wait'
  BY <1>1, <1>2, <1>3
<1>5. target' \in {"esp32", "pi"}
  BY <1>2 DEF DelayInv
<1>6. NotBefore'
  BY <1>2, <1>3 DEF NotBefore
<1>7. NeverOversleeps'
  BY <1>4 DEF NeverOversleeps, Delay!NeverOversleeps
<1> QED
  BY <1>2, <1>4, <1>5, <1>6, <1>7 DEF DelayInv

LEMMA DelayStep == DelayInv /\ [Delay!Next]_delay => DelayInv'
<1> SUFFICES ASSUME DelayInv, [Delay!Next]_delay PROVE DelayInv'
  OBVIOUS
<1> USE DEF DelayInv, NotBefore, NeverOversleeps, Delay!NeverOversleeps
<1>1. CASE Delay!Tick
  BY <1>1 DEF Delay!Tick
<1>2. CASE Delay!Wake
  <2>1. /\ sleeping /\ sleeping' = FALSE /\ wake <= now
        /\ UNCHANGED <<target, now, last, call, wait, wake>>
    BY <1>2 DEF Delay!Wake
  <2>2. sleeping' \in BOOLEAN
    BY <2>1
  <2>3. NotBefore'
    <3>1. last <= wake
      BY <2>1, Zenon
    <3>2. last' <= now'
      BY <2>1, <3>1
    <3> QED
      BY <2>1, <3>2
  <2>4. NeverOversleeps' /\ target' \in {"esp32", "pi"}
    BY <2>1
  <2>5. {now, last, call, wait, wake}' \subseteq Nat
    BY <2>1
  <2> QED
    BY <2>2, <2>3, <2>4, <2>5, Zenon
<1>3. CASE UNCHANGED delay
  BY <1>3 DEF delay
<1> QED
  BY <1>1, <1>2, <1>3, DelayWaits DEF Delay!Next

LEMMA OnlyThePeriod == [Queue \/ EventBits \/ Period]_all => [Delay!Next]_delay
BY DEF Queue, EventBits, Period, all

LEMMA DelayInvariant == MCSpec => []DelayInv
<1>1. MCInit => DelayInv
  BY DelayInit DEF MCInit
<1> QED
  BY <1>1, DelayStep, OnlyThePeriod, PTL DEF MCSpec

(* However late a task calls and wherever the counter wraps, wait_for asks  *)
(* for no longer a sleep than its argument.                                 *)
THEOREM NoWrapIsSlept == MCSpec => []NeverOversleeps
<1>1. DelayInv => NeverOversleeps
  BY DEF DelayInv
<1> QED
  BY <1>1, DelayInvariant, PTL

(* A task that is in time sleeps to one period after its last wake-up, as   *)
(* long as the ESP32's counter does not wrap in between.                    *)
THEOREM PeriodIsKept == MCSpec => Steady
<1> DEFINE Due == last + wait'
           InTime == /\ sleeping' /\ ~sleeping /\ now <= Due
                     /\ target = "esp32" => last \div WRAP = Due \div WRAP
<1>1. DelayInv /\ [Delay!Next]_delay => [InTime => wake' = Due]_delay
  <2> SUFFICES ASSUME DelayInv, Delay!Next, InTime PROVE wake' = Due
    OBVIOUS
  <2>1. PICK ms \in Waits : Delay!wait_for(ms)
    BY DEF Delay!Next, Delay!Tick, Delay!Wake
  <2> DEFINE t == Delay!pdMS_TO_TICKS(ms)
  <2>2. /\ t \in 1 .. WRAP - 1 /\ t \in Nat /\ WRAP \in Nat \ {0}
        /\ {now, last} \subseteq Nat /\ last <= now
    <3>1. t \in 1 .. WRAP - 1 /\ WRAP \in Nat \ {0}
      BY PeriodAssumption DEF Delay!pdMS_TO_TICKS
    <3> HIDE DEF t
    <3>2. {now, last} \subseteq Nat /\ last <= now
      BY DEF DelayInv, NotBefore
    <3>3. t \in Nat
      BY <3>1
    <3> QED
      BY <3>1, <3>2, <3>3
  <2>3. CASE Delay!WaitForPi(ms)
    <3>1. /\ wait' = ms /\ wake' = last' /\ ms \in Nat
          /\ last' = IF last + ms < now THEN now ELSE last + ms
      BY <2>3, PeriodAssumption DEF Delay!WaitForPi
    <3> HIDE DEF t
    <3> QED
      BY <2>2, <3>1
  <2>4. CASE Delay!WaitForEsp(ms)
    <3> DEFINE p == last % WRAP
               n == now % WRAP
               from == IF Delay!SeemsLate(t) THEN now ELSE last
    <3>1. /\ wait' = t /\ target = "esp32"
          /\ wake' = now + Delay!vTaskDelayUntil(from % WRAP, t)
      BY <2>4 DEF Delay!WaitForEsp
    <3>2. n = p + (now - last) /\ (last + t) % WRAP = p + t
      <4>1. last + t \in Nat /\ last <= now /\ now <= last + t /\ last <= last + t
            /\ last \div WRAP = (last + t) \div WRAP
        BY <2>2, <3>1
      <4>2. n = p + (now - last)
        BY <2>2, <4>1, SameTurn
      <4>3. (last + t) % WRAP = p + (last + t - last)
        BY <2>2, <4>1, SameTurn
      <4> QED
        BY <2>2, <4>2, <4>3
    <3> HIDE DEF t
    <3>3. p \in 0 .. WRAP - 1 /\ n \in 0 .. WRAP - 1 /\ p + t \in 0 .. WRAP - 1
      <4>1. (last + t) % WRAP \in 0 .. WRAP - 1
        <5> DEFINE z == last + t
        <5>1. z \in Nat
          BY <2>2
        <5> HIDE DEF z
        <5>2. z % WRAP \in 0 .. WRAP - 1
          BY <2>2, <5>1, DivMod
        <5> QED
          BY <5>2 DEF z
      <4> QED
        BY <2>2, <3>2, <4>1, DivMod
    <3>4. (p + t) % WRAP = p + t
      <4> DEFINE z == p + t
      <4>1. z \in 0 .. WRAP - 1
        BY <3>3
      <4> HIDE DEF z
      <4>2. z % WRAP = z
        BY <2>2, <4>1, Reduced
      <4> QED
        BY <4>2 DEF z
    <3>5. n <= p + t /\ p <= n
      BY <2>2, <3>1, <3>2
    <3>6. from = last
      BY <2>2, <3>3, <3>4, <3>5
         DEF t, Delay!SeemsLate, Delay!last_wake_tick, Delay!xTaskGetTickCount
    <3>7. Delay!vTaskDelayUntil(p, t) = IF p + t > n THEN (p + t + WRAP - n) % WRAP ELSE 0
      BY <2>2, <3>3, <3>4, <3>5 DEF Delay!vTaskDelayUntil, Delay!xTaskGetTickCount
    <3>8. p + t > n => (p + t + WRAP - n) % WRAP = p + t - n
      <4> HIDE DEF p, n, t
      <4> SUFFICES ASSUME p + t > n PROVE (p + t + WRAP - n) % WRAP = p + t - n
        OBVIOUS
      <4>1. /\ p + t - n \in 0 .. WRAP - 1 /\ p + t + WRAP - n \in Nat
            /\ p + t + WRAP - n = WRAP * 1 + (p + t - n)
        BY <2>2, <3>3
      <4> QED
        BY <2>2, <4>1, OneRemainder
    <3>9. Delay!vTaskDelayUntil(p, t) = last + t - now
      <4>1. p + t - n = last + t - now
        BY <2>2, <3>2, <3>3
      <4> HIDE DEF p, n, t
      <4> QED
        BY <2>2, <3>3, <3>5, <3>7, <3>8, <4>1
    <3> QED
      BY <2>2, <3>1, <3>6, <3>9
  <2> QED
    BY <2>1, <2>3, <2>4 DEF Delay!wait_for
<1>2. DelayInv /\ [Queue \/ EventBits \/ Period]_all
        => [LET due == last + wait' IN
            (sleeping' /\ ~sleeping /\ now <= due
               /\ (target = "esp32" => last \div WRAP = due \div WRAP))
              => wake' = due]_Delay!vars
  BY <1>1, OnlyThePeriod DEF delay, Delay!vars
<1> QED
  BY <1>2, DelayInvariant, PTL DEF MCSpec, Steady, Delay!Steady
=====================================================================================
