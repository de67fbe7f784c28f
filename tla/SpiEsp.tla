------------------------------------ MODULE SpiEsp ------------------------------------
(***************************************************************************)
(* spi.cpp and semaphore.cpp of driver_esp32: several tasks use one bus    *)
(* under a mutex that they take with a timeout.  A transfer sends and      *)
(* receives at once, into a buffer of the call's own that is copied to the *)
(* caller after the mutex is given back.  A transfer may never end; the    *)
(* driver waits for it without a timeout.                                  *)
(***************************************************************************)
EXTENDS Naturals

CONSTANTS Tasks, Nobody,
          MaxSends     \* bound: transfers

VARIABLES sema,        \* the owner of spiSemaphore, or Nobody
          dev,         \* per task: its handle is "none", "garbage" or "added"
          pc,          \* per task: where it is
          fn,          \* per task: the function it is in
          sends,       \* transfers so far; each receives its own number
          bus,         \* per task: the number of its transfer, 0 for none
          rx_data,     \* per task: what its call has received
          rxBuff,      \* per task: the caller's buffer
          ret          \* per task: what the last call returned

vars == <<sema, dev, pc, fn, sends, bus, rx_data, rxBuff, ret>>

Init == /\ sema = Nobody
        /\ dev = [t \in Tasks |-> "none"]
        /\ pc = [t \in Tasks |-> "idle"] /\ fn = [t \in Tasks |-> "none"]
        /\ sends = 0
        /\ bus = [t \in Tasks |-> 0]
        /\ rx_data = [t \in Tasks |-> 0] /\ rxBuff = [t \in Tasks |-> 0]
        /\ ret = [t \in Tasks |-> "none"]

Go(t, step) == pc' = [pc EXCEPT ![t] = step]
Returns(t, r) == Go(t, "idle") /\ ret' = [ret EXCEPT ![t] = r]

----------------------------------------------------------------------------
\* spi_add_device, and spi_send with a handle that is one.
Call(t, f) ==
  /\ pc[t] = "idle"
  /\ f = "spi_send" => dev[t] = "added" /\ sends < MaxSends
  /\ fn' = [fn EXCEPT ![t] = f]
  /\ rx_data' = [rx_data EXCEPT ![t] = 0]
  /\ Go(t, "take")
  /\ UNCHANGED <<sema, dev, sends, bus, rxBuff, ret>>

Take(t) ==
  /\ pc[t] = "take" /\ sema = Nobody
  /\ sema' = t
  /\ Go(t, fn[t])
  /\ UNCHANGED <<dev, fn, sends, bus, rx_data, rxBuff, ret>>

\* A deviation: portMAX_DELAY in place of the timeout.
TakeForEver(t) == FALSE /\ UNCHANGED vars

\* The timeout of take: the bus is not used.  spi_add_device returns a handle
\* that was never set.
TakeTimeout(t) ==
  /\ pc[t] = "take" /\ sema # Nobody
  /\ Returns(t, "ERROR_FAIL")
  /\ dev' = IF fn[t] = "spi_add_device" THEN [dev EXCEPT ![t] = "garbage"] ELSE dev
  /\ UNCHANGED <<sema, fn, sends, bus, rx_data, rxBuff>>

\* spi_bus_add_device, which has a limited number of devices, and the give.
AddDevice(t) ==
  /\ pc[t] = "spi_add_device"
  /\ \E ok \in BOOLEAN :
       /\ dev' = [dev EXCEPT ![t] = IF ok THEN "added" ELSE "garbage"]
       /\ Returns(t, IF ok THEN "ERROR_OK" ELSE "ERROR_FAIL")
  /\ sema' = Nobody
  /\ UNCHANGED <<fn, sends, bus, rx_data, rxBuff>>

\* spi_device_transmit queues the transfer ...
Transmit(t) ==
  /\ pc[t] = "spi_send"
  /\ sends' = sends + 1
  /\ bus' = [bus EXCEPT ![t] = sends + 1]
  /\ Go(t, "transfer")
  /\ UNCHANGED <<sema, dev, fn, rx_data, rxBuff, ret>>

\* ... and the answer comes in; a transfer that fails brings none.
Answer(t) ==
  /\ pc[t] = "transfer"
  /\ rx_data' = [rx_data EXCEPT ![t] = bus[t]]
  /\ ret' = [ret EXCEPT ![t] = "ERROR_OK"]
  /\ Go(t, "give")
  /\ UNCHANGED <<sema, dev, fn, sends, bus, rxBuff>>

TransferFails(t) ==
  /\ pc[t] = "transfer"
  /\ ret' = [ret EXCEPT ![t] = "ERROR_FAIL"]
  /\ Go(t, "give")
  /\ UNCHANGED <<sema, dev, fn, sends, bus, rx_data, rxBuff>>

Give(t) ==
  /\ pc[t] = "give" /\ sema' = Nobody
  /\ Go(t, "copy")
  /\ UNCHANGED <<dev, fn, sends, bus, rx_data, rxBuff, ret>>

\* A deviation: all calls receive into the same buffer.
CopyShared(t) ==
  /\ pc[t] = "copy" /\ Go(t, "idle")
  /\ \E u \in Tasks : /\ \A v \in Tasks : rx_data[v] <= rx_data[u]
                      /\ rxBuff' = [rxBuff EXCEPT ![t] = rx_data[u]]
  /\ UNCHANGED <<sema, dev, fn, sends, bus, rx_data, ret>>

\* memcpy(rxBuff, rx_data.get(), len), whatever the transfer returned.
Copy(t) ==
  /\ pc[t] = "copy" /\ Go(t, "idle")
  /\ rxBuff' = [rxBuff EXCEPT ![t] = rx_data[t]]
  /\ UNCHANGED <<sema, dev, fn, sends, bus, rx_data, ret>>

Step(t) == Take(t) \/ TakeTimeout(t) \/ AddDevice(t) \/ Transmit(t) \/ Give(t) \/ Copy(t)

Next == \E t \in Tasks : \/ \E f \in {"spi_add_device", "spi_send"} : Call(t, f)
                         \/ Step(t) \/ Answer(t) \/ TransferFails(t)

Spec == Init /\ [][Next]_vars

\* The tasks go on; no transfer is obliged to end.
Fairness == \A t \in Tasks : WF_vars(Step(t))

----------------------------------------------------------------------------
(* While others use the bus a call receives into a buffer of its own and   *)
(* copies it without the mutex: with ERROR_OK the caller has the answer to *)
(* its own transfer, also when others have transferred since; and no two   *)
(* transfers are on the bus at a time.                                     *)
OwnAnswer ==
  /\ \A t \in Tasks : (pc[t] = "idle" /\ fn[t] = "spi_send" /\ ret[t] = "ERROR_OK")
                        => rxBuff[t] = bus[t]
  /\ \A t, u \in Tasks : pc[t] = "transfer" /\ pc[u] = "transfer" => t = u

(* A task never waits for the bus for ever, even if a transfer hangs.      *)
TakeReturns == \A t \in Tasks : (pc[t] = "take") ~> (pc[t] # "take")
=======================================================================================
