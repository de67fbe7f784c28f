---------------------------------- MODULE IscEsp ----------------------------------
(***************************************************************************)
(* The I2C master of driver_esp32.  A function makes a command link,       *)
(* appends the commands of the transfer to it, lets the bus carry them out *)
(* and deletes the link; link and commands come from the heap.  Where a    *)
(* function returns in between, the link stays allocated for ever.         *)
(*                                                                         *)
(* The I2C driver of the chip is external: an append fails when it gets no *)
(* memory, and carrying out a link fails when no device answers, when the  *)
(* bus is not free in time or when the driver is not installed.            *)
(***************************************************************************)
EXTENDS Naturals, FiniteSets

CONSTANTS Tasks,        \* that use the bus, each for itself
          HEAP          \* links and commands for which there is memory

\* The longest link: read_register of more than one byte.
LONGEST == 9

\* Memory for the longest link of every task.
EnoughMemory == HEAP >= Cardinality(Tasks) * LONGEST

VARIABLES installed,    \* whether isc_master_init has installed the driver
          call,         \* per task: the function, and how far its link is
          lost,         \* memory of links that nobody will delete
          unanswered    \* history: a transfer of a read function has failed

vars == <<installed, call, lost, unanswered>>

\* The commands of a link; read_bytes and read_register append one more when
\* they read more than one byte.
Commands == [probe |-> 3, read_bytes |-> 4, read_register |-> 7,
             write |-> 4, write_register |-> 5]
Reads    == {"read_bytes", "read_register"}

\* fn, the commands to append, those tried, the memory held, and what is next.
Idle    == [fn |-> "none", todo |-> 0, tried |-> 0, held |-> 0, at |-> "idle"]
Used    == Cardinality({u \in Tasks \X (1 .. LONGEST) : u[2] <= call[u[1]].held})
Free    == HEAP - lost - Used

Init == /\ installed = FALSE /\ lost = 0 /\ unanswered = FALSE
        /\ call = [t \in Tasks |-> Idle]

----------------------------------------------------------------------------
(* Deviations that the properties must notice; Next does not use them.     *)

\* write, write_register and probe return without the delete, too.
BeginNoDelete(t) ==
  /\ call[t].at = "begin"
  /\ \E ok \in BOOLEAN :
       IF ok THEN /\ installed /\ call[t].held > 0
                  /\ call' = [call EXCEPT ![t].at = "delete"]
                  /\ UNCHANGED <<lost, unanswered>>
             ELSE /\ call' = [call EXCEPT ![t] = Idle]
                  /\ lost' = lost + call[t].held
                  /\ unanswered' = (unanswered \/ call[t].fn \in Reads)
  /\ UNCHANGED installed

\* An append does not notice that there is no memory.
AppendUnchecked(t) ==
  /\ call[t].at = "append" /\ call[t].held > 0
  /\ call' = [call EXCEPT ![t].held = @ + 1, ![t].tried = @ + 1,
                ![t].at = IF call[t].tried + 1 = call[t].todo THEN "begin" ELSE "append"]
  /\ UNCHANGED <<installed, lost, unanswered>>

----------------------------------------------------------------------------
\* An error of i2c_set_timeout is returned with the driver installed, and one
\* of i2c_param_config or i2c_driver_install without.
isc_master_init == /\ ~installed
                   /\ installed' \in BOOLEAN
                   /\ UNCHANGED <<call, lost, unanswered>>

\* i2c_cmd_link_create returns nullptr when there is no memory.
Enter(t, fn, more) ==
  /\ call[t] = Idle
  /\ more => fn \in Reads
  /\ call' = [call EXCEPT ![t] =
       [fn |-> fn, todo |-> Commands[fn] + (IF more THEN 1 ELSE 0), tried |-> 0,
        held |-> IF Free > 0 THEN 1 ELSE 0, at |-> "append"]]
  /\ UNCHANGED <<installed, lost, unanswered>>

\* What follows an append: the next one, or i2c_master_cmd_begin.
After(c) == [c EXCEPT !.tried = @ + 1,
                      !.at = IF c.tried + 1 = c.todo THEN "begin" ELSE "append"]

Append(t) == /\ call[t].at = "append"
             /\ call[t].held > 0 /\ Free > 0
             /\ call' = [call EXCEPT ![t] = [After(call[t]) EXCEPT !.held = call[t].held + 1]]
             /\ UNCHANGED <<installed, lost, unanswered>>

\* All functions but isc_probe return at once when an append fails.
AppendFails(t) ==
  /\ call[t].at = "append"
  /\ call[t].held = 0 \/ Free = 0
  /\ IF call[t].fn = "probe"
       THEN /\ call' = [call EXCEPT ![t] = After(@)]
            /\ UNCHANGED lost
       ELSE /\ call' = [call EXCEPT ![t] = Idle]
            /\ lost' = lost + call[t].held
  /\ UNCHANGED <<installed, unanswered>>

\* The read functions return without the delete when the transfer fails.
Begin(t) ==
  /\ call[t].at = "begin"
  /\ \/ /\ call[t].fn \in Reads => installed /\ call[t].held > 0
        /\ call' = [call EXCEPT ![t].at = "delete"]
        /\ UNCHANGED <<lost, unanswered>>
     \/ /\ call[t].fn \in Reads
        /\ call' = [call EXCEPT ![t] = Idle]
        /\ lost' = lost + call[t].held
        /\ unanswered' = TRUE
  /\ UNCHANGED installed

Delete(t) == /\ call[t].at = "delete"
             /\ call' = [call EXCEPT ![t] = Idle]
             /\ UNCHANGED <<installed, lost, unanswered>>

\* Each round of the loop of isc_scan is a call of isc_probe.
isc_scan(t) == Enter(t, "probe", FALSE)

Next == \/ isc_master_init
        \/ \E t \in Tasks : \/ isc_scan(t)
                            \/ \E fn \in DOMAIN Commands, more \in BOOLEAN : Enter(t, fn, more)
                            \/ Append(t) \/ AppendFails(t) \/ Begin(t) \/ Delete(t)

Spec == Init /\ [][Next]_vars

----------------------------------------------------------------------------
TypeOK == /\ installed \in BOOLEAN /\ unanswered \in BOOLEAN
          /\ lost \in 0 .. HEAP
          /\ call \in [Tasks -> [fn : DOMAIN Commands \cup {"none"}, todo : 0 .. 8,
                                 tried : 0 .. 8, held : 0 .. LONGEST,
                                 at : {"append", "begin", "delete", "idle"}]]
          /\ Used + lost <= HEAP

(* With memory for the longest link of every task, and as long as every     *)
(* device that is read answers, no memory is lost, however the calls of the *)
(* tasks interleave and whichever writes and probes fail.  Hence no call    *)
(* fails for want of memory either.                                         *)
NothingLostWhileAnswered == EnoughMemory /\ ~unanswered => lost = 0 /\ \A t \in Tasks :
                              call[t].at # "idle" => call[t].held = 1 + call[t].tried
=================================================================================
