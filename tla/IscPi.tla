---------------------------------- MODULE IscPi ----------------------------------
(***************************************************************************)
(* The I2C master of driver_pi.  The pigpio daemon, which is external and  *)
(* has other clients too, gives a handle, its lowest free one, for each    *)
(* device that is opened; isc_fd remembers it by the device's address.     *)
(* A function that finds no handle opens the device first; as it mistakes  *)
(* success for failure it then gives up, and after a failure it goes on    *)
(* with the handle -1.  Handles are never closed.  The tasks share isc_fd  *)
(* without a lock, and use the bus only after isc_master_init.             *)
(***************************************************************************)
EXTENDS Integers, FiniteSets

CONSTANTS Tasks, Addresses,
          Foreign,      \* another client of the daemon
          None,         \* not open
          HANDLES,      \* of the daemon
          FIRST_FILE,   \* the number of the first file that isc_scan opens
          MAX_INITS, MAX_SCANS, MAX_LEN    \* bounds of the model

\* The other client is not a device, and the daemon has a handle to give.
ASSUME DevicesAssumption == /\ Foreign \notin Addresses /\ None \notin Addresses
                            /\ Foreign # None
                            /\ HANDLES \in Nat \ {0} /\ FIRST_FILE \in Nat
                            /\ MAX_INITS \in Nat /\ MAX_SCANS \in Nat /\ MAX_LEN \in Nat
ASSUME TasksAssumption == IsFiniteSet(Tasks)

VARIABLES isc_fd,       \* per address: a handle, or -1
          daemon,       \* per handle: the device, Foreign or None
          inits,        \* calls of isc_master_init
          scans,        \* calls of isc_scan, each of which opens a file for good
          call,         \* per task: where it is, the function, address, bytes left,
                        \* and the handle that i2c_open has just returned
          result        \* of the last call that returned, and whether it reached the device

vars == <<isc_fd, daemon, inits, scans, call, result>>

\* The functions that access the device through the daemon (the reads and
\* write_register), and those that write to a file with the handle's number.
ByHandle == {"access"}
ByFile   == {"write", "write_register16"}

Idle == [at |-> "idle", fn |-> "none", address |-> None, left |-> 0, handle |-> 0]

Init == /\ isc_fd = [a \in Addresses |-> 0]
        /\ daemon = [h \in 0 .. HANDLES - 1 |-> None]
        /\ inits = 0 /\ scans = 0
        /\ call = [t \in Tasks |-> Idle]
        /\ result = [err |-> "none", reached |-> FALSE]

----------------------------------------------------------------------------
(* Deviations that the properties must notice; Next does not use them.     *)

\* isc_fd is not reset.
InitNothing == /\ inits < MAX_INITS /\ inits' = inits + 1
               /\ UNCHANGED <<isc_fd, daemon, scans, call, result>>

\* The handle is not remembered.
RememberNot(a, h) == UNCHANGED isc_fd

\* The loop runs once too often.
AccessOneMore(t) ==
  /\ call[t].at = "access" /\ call[t].fn \in ByHandle
  /\ \/ /\ isc_fd[call[t].address] \in DOMAIN daemon
        /\ IF call[t].left > 0
             THEN call' = [call EXCEPT ![t].left = @ - 1] /\ UNCHANGED result
             ELSE call' = [call EXCEPT ![t] = Idle] /\ UNCHANGED result
     \/ call' = [call EXCEPT ![t] = Idle] /\ UNCHANGED result
  /\ UNCHANGED <<isc_fd, daemon, inits, scans>>

\* The handle 0 is closed again when it is refused.
ConnectClosesZero(t) ==
  /\ call[t].at = "connect"
  /\ LET h == CHOOSE h \in DOMAIN daemon :
                 daemon[h] = None /\ \A i \in DOMAIN daemon : daemon[i] = None => h <= i
     IN  IF h = 0
           THEN /\ call' = [call EXCEPT ![t].at = "access"]
                /\ UNCHANGED <<isc_fd, daemon>>
           ELSE /\ daemon' = [daemon EXCEPT ![h] = call[t].address]
                /\ call' = [call EXCEPT ![t].at = "opened", ![t].handle = h]
                /\ UNCHANGED isc_fd
  /\ UNCHANGED <<inits, scans, result>>

----------------------------------------------------------------------------
isc_master_init == /\ inits < MAX_INITS /\ inits' = inits + 1
                   /\ isc_fd' = [a \in Addresses |-> -1]
                   /\ UNCHANGED <<daemon, scans, call, result>>

\* The functions in ByFile transfer all their bytes at once.
Enter(t, fn, a, len) ==
  /\ inits > 0 /\ call[t].at = "idle"
  /\ fn \in ByFile => len = 1
  /\ call' = [call EXCEPT ![t] = [at |-> IF isc_fd[a] < 0 THEN "connect" ELSE "access",
                                  fn |-> fn, address |-> a, left |-> len, handle |-> 0]]
  /\ UNCHANGED <<isc_fd, daemon, inits, scans, result>>

Return(t, err, reached) ==
  /\ call' = [call EXCEPT ![t] = Idle]
  /\ result' = [err |-> err, reached |-> reached]

\* i2c_open.
Closed     == {h \in DOMAIN daemon : daemon[h] = None}
Lowest(hs) == CHOOSE h \in hs : \A i \in hs : h <= i

\* isc_master_connect_device takes the handle 0 for an error.
Connect(t) ==
  /\ call[t].at = "connect"
  /\ IF Closed = {}
       THEN /\ call' = [call EXCEPT ![t].at = "access"]
            /\ UNCHANGED daemon
       ELSE /\ daemon' = [daemon EXCEPT ![Lowest(Closed)] = call[t].address]
            /\ call' = IF Lowest(Closed) > 0
                         THEN [call EXCEPT ![t].at = "opened", ![t].handle = Lowest(Closed)]
                         ELSE [call EXCEPT ![t].at = "access"]
  /\ UNCHANGED <<isc_fd, inits, scans, result>>

Remember(a, h) == isc_fd' = [isc_fd EXCEPT ![a] = h]

\* The handle is stored, by when another task may have stored its own or have
\* called isc_master_init; and the function returns with an error.
Opened(t) ==
  /\ call[t].at = "opened"
  /\ Remember(call[t].address, call[t].handle)
  /\ Return(t, "FAIL", FALSE)
  /\ UNCHANGED <<daemon, inits, scans>>

Handle(t) == isc_fd[call[t].address]

\* One access through the daemon; a function that transfers several bytes one
\* by one looks the handle up for each of them.
Access(t) ==
  /\ call[t].at = "access" /\ call[t].fn \in ByHandle
  /\ \/ /\ Handle(t) \in DOMAIN daemon
        /\ daemon[Handle(t)] # None
        /\ IF call[t].left > 1
             THEN call' = [call EXCEPT ![t].left = @ - 1] /\ UNCHANGED result
             ELSE Return(t, "OK", daemon[Handle(t)] = call[t].address)
     \/ Return(t, "FAIL", FALSE)
  /\ UNCHANGED <<isc_fd, daemon, inits, scans>>

\* write(2) to the file with the number of the handle.  isc_master_write does
\* not look at what it returns, isc_master_write_register16 returns OK if not
\* all was written and FAIL if it was.
WriteFile(t) ==
  /\ call[t].at = "access" /\ call[t].fn \in ByFile
  /\ \E all \in BOOLEAN :
       /\ all => Handle(t) >= 0
       /\ Return(t, IF call[t].fn = "write" \/ ~all THEN "OK" ELSE "FAIL", FALSE)
  /\ UNCHANGED <<isc_fd, daemon, inits, scans>>

\* isc_scan opens the kernel's I2C device, does not close it, and probes one
\* address after the other.
isc_scan == /\ scans < MAX_SCANS /\ scans' = scans + 1
            /\ UNCHANGED <<isc_fd, daemon, inits, call, result>>

\* isc_probe tells the kernel the address, and then the daemon to transfer a
\* byte over the handle with the number of the file.
isc_probe(t, a) ==
  /\ call[t].at = "idle"
  /\ \E port \in FIRST_FILE .. FIRST_FILE + scans - 1 :
       result' = IF port \in DOMAIN daemon /\ daemon[port] # None
                   THEN [err |-> "OK", reached |-> daemon[port] = a]
                   ELSE [err |-> "FAIL", reached |-> FALSE]
  /\ UNCHANGED <<isc_fd, daemon, inits, scans, call>>

\* The address may be taken, or the device may not answer.
ProbeFails(t) ==
  /\ call[t].at = "idle" /\ scans > 0
  /\ result' = [err |-> "FAIL", reached |-> FALSE]
  /\ UNCHANGED <<isc_fd, daemon, inits, scans, call>>

\* The other client opens and closes its device.
ForeignOpen == /\ Closed # {}
               /\ \A h \in DOMAIN daemon : daemon[h] # Foreign
               /\ daemon' = [daemon EXCEPT ![Lowest(Closed)] = Foreign]
               /\ UNCHANGED <<isc_fd, inits, scans, call, result>>

ForeignClose == \E h \in DOMAIN daemon :
                  /\ daemon[h] = Foreign
                  /\ daemon' = [daemon EXCEPT ![h] = None]
                  /\ UNCHANGED <<isc_fd, inits, scans, call, result>>

Next == \/ isc_master_init \/ isc_scan \/ ForeignOpen \/ ForeignClose
        \/ \E t \in Tasks : \/ Connect(t) \/ Opened(t) \/ Access(t) \/ WriteFile(t)
                            \/ ProbeFails(t)
                            \/ \E a \in Addresses : isc_probe(t, a)
                            \/ \E fn \in ByHandle \cup ByFile, a \in Addresses,
                                  len \in 1 .. MAX_LEN : Enter(t, fn, a, len)

Spec == Init /\ [][Next]_vars

\* The tasks run, and use every device again and again.
Use(t, a) == Enter(t, "access", a, 1)
Fairness == /\ \A t \in Tasks : WF_vars(Connect(t) \/ Opened(t) \/ Access(t) \/ WriteFile(t))
            /\ \A t \in Tasks, a \in Addresses : SF_vars(Use(t, a))

----------------------------------------------------------------------------
TypeOK == /\ isc_fd \in [Addresses -> -1 .. HANDLES - 1]
          /\ daemon \in [0 .. HANDLES - 1 -> Addresses \cup {Foreign, None}]
          /\ inits \in 0 .. MAX_INITS /\ scans \in 0 .. MAX_SCANS
          /\ call \in [Tasks -> {Idle} \cup
                       [at : {"connect", "opened", "access"}, fn : ByHandle \cup ByFile,
                        address : Addresses, left : 1 .. MAX_LEN,
                        handle : 0 .. HANDLES - 1]]
          /\ result \in [err : {"none", "OK", "FAIL"}, reached : BOOLEAN]

(* A handle that is remembered belongs to the device whose address it is    *)
(* remembered by, and is not 0, over re-initialisation and other clients.   *)
(* Hence no byte of another device is ever returned.                        *)
OwnHandles == inits > 0 => \A a \in Addresses :
                isc_fd[a] # -1 => isc_fd[a] > 0 /\ daemon[isc_fd[a]] = a

(* Tasks that find no handle at the same time, and each isc_master_init,    *)
(* cost a handle that nobody closes.  No more are lost.                     *)
HandlesBounded == \A a \in Addresses :
  Cardinality({h \in DOMAIN daemon \ {0} : daemon[h] = a}) <= Cardinality(Tasks) * inits

(* Although a call that opens the device fails, and although the handle 0   *)
(* is lost, each device that is used again and again is reached in the end. *)
DevicesReached == inits > 0 ~> \A a \in Addresses : <>[](isc_fd[a] > 0)

(* What the comments of the functions say they do: a function that returns  *)
(* ERROR_OK has read from the slave or written to it.                       *)
OkMeansReached == result.err = "OK" => result.reached
=================================================================================
