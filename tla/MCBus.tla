----------------------------------- MODULE MCBus -----------------------------------
(***************************************************************************)
(* The buses, one part at a time: the I2C masters of MCIsc, the SPI bus of *)
(* the ESP32 and the UART of both targets.                                 *)
(***************************************************************************)
EXTENDS MCIsc

CONSTANTS MaxSends,                            \* of the SPI bus
          WRAP, POLL, LEN_VALUES, Lengths, Timeouts, Skews, Settings,
          MaxTime, MaxBytes                    \* of the UART

\* A timeout with its last delay is shorter than a turn of the clock, also when
\* the clock is set forward meanwhile.  The ESP32's counter can count a byte.
ASSUME BusAssumption ==
  /\ None \notin Tasks
  /\ WRAP \in Nat \ {0} /\ POLL \in Nat \ {0} /\ LEN_VALUES \in Nat \ {0, 1}
  /\ MaxBytes \in Nat
  /\ Lengths \subseteq Nat /\ Timeouts \subseteq Nat /\ Skews \subseteq Nat
  /\ Settings \subseteq Int
  /\ \A ms \in Timeouts : ms + POLL < WRAP
  /\ \A by \in Settings : -WRAP <= by /\ \A ms \in Timeouts : ms + POLL + by < WRAP

VARIABLES part,
          sema, dev, pc, fn, sends, bus, rx_data, rxBuff, ret,
          target, now, skew, set, setback, arrived, taken, fd, name, at, length,
          timeout_ms, start, len, until, buf, uart_result, called, first

i2c == <<BUILD_TARGET, vars, espVars>>
spi == <<sema, dev, pc, fn, sends, bus, rx_data, rxBuff, ret>>
uart == <<target, now, skew, set, setback, arrived, taken, fd, name, at, length,
          timeout_ms, start, len, until, buf, uart_result, called, first>>

SpiBus == INSTANCE SpiEsp WITH Nobody <- None
Line == INSTANCE Uart WITH result <- uart_result

\* Back by two milliseconds or forward by three.
SomeSettings == {-2, 3}

BusInit == /\ part \in {"i2c", "spi", "uart"}
           /\ MCInit /\ SpiBus!Init /\ Line!Init
           /\ part # "i2c" => BUILD_TARGET = "TARGET_ESP32"
           /\ part # "uart" => target = "esp32" /\ skew = 0

I2c == part = "i2c" /\ MCNext /\ UNCHANGED <<part, spi, uart>>
Spi == part = "spi" /\ SpiBus!Next /\ UNCHANGED <<part, i2c, uart>>
Serial == part = "uart" /\ Line!Next /\ UNCHANGED <<part, i2c, spi>>

BusSpec == /\ BusInit /\ [][I2c \/ Spi \/ Serial]_<<part, i2c, spi, uart>>
           /\ Fairness /\ SpiBus!Fairness

(* A call of spi_send that returns ERROR_OK gives the caller the answer to *)
(* its own transfer, also when others have transferred since.              *)
OwnAnswer == SpiBus!OwnAnswer

(* A task never waits for the bus for ever, even if a transfer hangs.      *)
TakeReturns == SpiBus!TakeReturns

(* uart_read is done in time wherever the clock wraps, and later only by   *)
(* as much as the system clock is set back meanwhile.                      *)
ReadInTime == Line!ReadInTime

(* uart_read says how many bytes are in the buffer: the next ones on the   *)
(* line, in order, for lengths that its counter can hold.                  *)
ReadsTheLine == Line!ReadsTheLine
====================================================================================
