------------------------------------- MODULE Uart -------------------------------------
(***************************************************************************)
(* uart.cpp of both targets, as one task uses it that reads with a         *)
(* timeout.  The ESP32 waits for a first byte and then, byte by byte, for  *)
(* more; the Raspberry Pi looks every POLL milliseconds whether there are  *)
(* any.  Both measure the time with get_time_system_ms, in 32 bits that    *)
(* wrap, here at WRAP.  On the Raspberry Pi that is the system clock: it   *)
(* is set forward and back while a call is under way.                      *)
(***************************************************************************)
EXTENDS Integers

CONSTANTS WRAP,          \* values of get_time_system_ms: 2^32
          POLL,          \* the delay between two looks, 10 ms
          LEN_VALUES,    \* values of the ESP32's uint16_t len: 2^16
          Lengths, Timeouts,   \* the arguments of uart_read in use
          Skews,         \* of the clock at the start
          Settings,      \* by how much the system clock is set, at most once in a call
          MaxTime, MaxBytes    \* bounds of the model

ERROR_FAIL == -1
ERROR_TIMEOUT == -9

\* The ESP32 waits for each further byte for a millisecond.
NEXT_BYTE_MS == 1

VARIABLES target,
          now,            \* the true time in milliseconds
          skew,           \* of the system clock
          arrived, taken, \* bytes the driver has received and handed out
          fd,             \* Raspberry Pi: the file is open
          name,           \* Raspberry Pi: uart_init has stored the name
          at,             \* where the task is in uart_read
          length, timeout_ms, start, len, until,   \* arguments and locals
          buf,            \* the numbers of the bytes in the caller's buffer
          result,
          called, first,  \* history: the time of the call, the bytes taken before it
          set, setback    \* history: the clock was set, and by how much back

clockVars == <<now, skew, set, setback>>
lineVars == <<arrived, taken>>
fileVars == <<fd, name>>
callVars == <<at, length, timeout_ms, start, len, until, buf, result, called, first>>
vars == <<target, clockVars, lineVars, fileVars, callVars>>

get_time_system_ms == (now + skew) % WRAP
\* uint32_t arithmetic: get_time_system_ms() - start.
Elapsed == (get_time_system_ms - start + WRAP) % WRAP

Available == arrived - taken
Positions == 1 .. MaxBytes

Init == /\ target \in {"esp32", "pi"}
        /\ now = 0 /\ skew \in Skews /\ set = FALSE /\ setback = 0
        /\ arrived = 0 /\ taken = 0
        /\ fd = FALSE /\ name = FALSE
        /\ at = "off" /\ length = 0 /\ timeout_ms = 0 /\ start = 0 /\ len = 0 /\ until = 0
        /\ buf = [p \in Positions |-> 0]
        /\ result = 0 /\ called = 0 /\ first = 0

----------------------------------------------------------------------------
\* uart_init: the ESP32's driver is installed; the Raspberry Pi opens the file,
\* which may fail, and flushes it.
uart_init ==
  /\ at \in {"off", "idle"}
  /\ \/ fd' = TRUE /\ name' = TRUE
        /\ taken' = IF target = "pi" THEN arrived ELSE taken
     \/ target = "pi" /\ fd' = FALSE /\ UNCHANGED <<name, taken>>
  /\ at' = "idle"
  /\ UNCHANGED <<target, clockVars, arrived, length, timeout_ms, start, len, until, buf,
                 result, called, first>>

\* The Raspberry Pi closes the file and opens the one with the stored name again:
\* there is none if it never was open.
uart_change_baudrate ==
  /\ at = "idle"
  /\ \/ target = "esp32" /\ UNCHANGED <<fd, taken>>
     \/ target = "pi" /\ fd' = FALSE /\ taken' = taken
     \/ target = "pi" /\ name /\ fd' = TRUE /\ taken' = arrived
  /\ UNCHANGED <<target, clockVars, arrived, name, callVars>>

\* The ESP32 drops what has arrived; the Raspberry Pi does nothing.
uart_flush_rx ==
  /\ at = "idle" /\ target = "esp32" /\ Available > 0
  /\ taken' = arrived
  /\ UNCHANGED <<target, clockVars, arrived, fileVars, callVars>>

----------------------------------------------------------------------------
CallRead(n, ms) ==
  /\ at = "idle"
  /\ length' = n /\ timeout_ms' = ms /\ start' = get_time_system_ms
  /\ len' = 0 /\ buf' = [p \in Positions |-> 0] /\ result' = 0
  /\ called' = now /\ first' = taken
  /\ until' = now + ms
  /\ at' = IF target = "esp32" THEN "firstByte" ELSE IF fd THEN "look" ELSE "noFile"
  /\ UNCHANGED <<target, clockVars, lineVars, fileVars>>

\* The arguments and locals are gone.
Return(r) == /\ at' = "idle" /\ result' = r
             /\ length' = 0 /\ timeout_ms' = 0 /\ start' = 0 /\ len' = 0 /\ until' = 0
             /\ called' = 0 /\ first' = 0 /\ set' = FALSE /\ setback' = 0
             /\ UNCHANGED <<target, now, skew, arrived, fileVars>>

\* A deviation: the first byte is not counted.
ByteReadFirstUncounted ==
  /\ at \in {"firstByte", "nextByte"} /\ Available > 0
  /\ buf' = [buf EXCEPT ![len + 1] = taken + 1]
  /\ taken' = taken + 1 /\ len' = IF at = "firstByte" THEN len ELSE (len + 1) % LEN_VALUES
  /\ at' = "loop"
  /\ UNCHANGED <<target, clockVars, arrived, fileVars, length, timeout_ms, start, until,
                 result, called, first>>

\* ESP32: a byte goes to buf + len, also if length is 0.
ByteRead ==
  /\ at \in {"firstByte", "nextByte"} /\ Available > 0
  /\ buf' = [buf EXCEPT ![len + 1] = taken + 1]
  /\ taken' = taken + 1 /\ len' = (len + 1) % LEN_VALUES
  /\ at' = "loop"
  /\ UNCHANGED <<target, clockVars, arrived, fileVars, length, timeout_ms, start, until,
                 result, called, first>>

\* ESP32: no byte came in time; the first is an error, a further one the end.
NoByte ==
  /\ at \in {"firstByte", "nextByte"} /\ Available = 0 /\ now >= until
  /\ Return(IF at = "firstByte" THEN ERROR_FAIL ELSE len)
  /\ UNCHANGED <<taken, buf>>

\* A deviation: times are compared, not differences of times.
TimeLeftCompared == get_time_system_ms < start + timeout_ms

TimeLeft == Elapsed < timeout_ms

\* ESP32: the head of the loop.
Loop ==
  /\ at = "loop"
  /\ IF TimeLeft /\ len < length
       THEN /\ at' = "nextByte" /\ until' = now + NEXT_BYTE_MS
            /\ UNCHANGED <<target, clockVars, lineVars, fileVars, length, timeout_ms,
                           start, len, buf, result, called, first>>
       ELSE Return(len) /\ UNCHANGED <<taken, buf>>

\* Raspberry Pi: read() yields what there is, up to length bytes.
Look ==
  /\ at = "look" /\ Available > 0 /\ length > 0
  /\ LET n == IF Available < length THEN Available ELSE length
     IN  /\ buf' = [p \in Positions |-> IF p <= n THEN taken + p ELSE buf[p]]
         /\ taken' = taken + n
         /\ Return(n)

\* Raspberry Pi: nothing there, or nothing asked for, so time out or look again in
\* a while.
LookAgain ==
  /\ at = "look" /\ (Available = 0 \/ length = 0)
  /\ IF ~TimeLeft
       THEN Return(ERROR_TIMEOUT) /\ UNCHANGED <<taken, buf>>
       ELSE /\ at' = "delay" /\ until' = now + POLL
            /\ UNCHANGED <<target, clockVars, lineVars, fileVars, length, timeout_ms,
                           start, len, buf, result, called, first>>

DelayOver ==
  /\ at = "delay" /\ now >= until /\ at' = "look"
  /\ UNCHANGED <<target, clockVars, lineVars, fileVars, length, timeout_ms, start, len,
                 until, buf, result, called, first>>

\* Raspberry Pi: without a file the call takes its time and fails.
NoFile ==
  /\ at = "noFile" /\ now >= until
  /\ Return(ERROR_FAIL)
  /\ UNCHANGED <<taken, buf>>

Read == ByteRead \/ NoByte \/ Loop \/ Look \/ LookAgain \/ DelayOver \/ NoFile

----------------------------------------------------------------------------
\* A byte comes in; while the Raspberry Pi has no file open it is not kept.
Arrive ==
  /\ at # "off" /\ arrived < MaxBytes
  /\ target = "pi" => fd
  /\ arrived' = arrived + 1
  /\ UNCHANGED <<target, clockVars, taken, fileVars, callVars>>

\* The work of the task takes no time, so time passes only while it waits.
Waits == \/ at \in {"off", "idle"}
         \/ at \in {"firstByte", "nextByte"} /\ Available = 0 /\ now < until
         \/ at \in {"delay", "noFile"} /\ now < until

Tick == /\ Waits /\ now < MaxTime
        /\ now' = now + 1
        /\ UNCHANGED <<target, skew, set, setback, lineVars, fileVars, callVars>>

\* The system clock of the Raspberry Pi is set.
SetClock ==
  /\ target = "pi" /\ at \in {"delay", "noFile"} /\ ~set /\ set' = TRUE
  /\ \E by \in Settings :
       /\ skew' = (skew + by + WRAP) % WRAP
       /\ setback' = IF by < 0 THEN setback - by ELSE setback
  /\ UNCHANGED <<target, now, lineVars, fileVars, callVars>>

Next == \/ uart_init \/ uart_change_baudrate \/ uart_flush_rx
        \/ \E n \in Lengths, ms \in Timeouts : CallRead(n, ms)
        \/ Read \/ Arrive \/ Tick \/ SetClock

Spec == Init /\ [][Next]_vars

----------------------------------------------------------------------------
(* uart_read is done in time wherever the clock wraps: one millisecond     *)
(* after its timeout on the ESP32, one delay after it on the Raspberry Pi, *)
(* and later only by as much as the system clock is set back meanwhile.    *)
ReadInTime ==
  at \notin {"off", "idle"} =>
    now - called <= timeout_ms + (IF target = "esp32" THEN NEXT_BYTE_MS ELSE POLL + setback)

\* The ESP32 counts in 16 bits, whatever the 32 bits of length ask for.
Fits == target = "esp32" => length < LEN_VALUES

(* A result above 0 says how many bytes are in the buffer: the next ones   *)
(* on the line, in order; with any other none is taken from the line.      *)
(* This is of lengths that the counter can hold: where it wraps, a call    *)
(* writes over the first bytes that it has read and forgets them.          *)
ReadsTheLine ==
  [][(at \notin {"off", "idle"} /\ at' = "idle" /\ Fits) =>
       IF result' > 0 THEN taken' = first + result' /\ \A p \in 1 .. result' : buf'[p] = first + p
                      ELSE taken' = first]_vars
=======================================================================================
