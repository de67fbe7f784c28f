---------------------------- MODULE MCTcpConnectorEsp ----------------------------
(***************************************************************************)
(* Model-checking instance of TcpConnectorEsp in the two ways a program    *)
(* may use it: "tasks", in which c connects and disconnects at any time    *)
(* while s sends, and "single", in which c does everything and connects    *)
(* only when is_connected() is false.                                      *)
(***************************************************************************)
EXTENDS TcpConnectorEsp

CONSTANTS c, s

ASSUME InstanceAssumption == c \in Tasks

ConnectTask == {c}
SendTask    == {s}
BothTasks   == {c, s}
BothModes   == {"STA_CL", "AP_CL"}
OneLen      == {11}

VARIABLE usage

Single == INSTANCE TcpConnectorEsp WITH
            Connectors <- {c}, Senders <- {c}, Guarded <- TRUE,
            Modes <- {"OFF", "STA_CL", "AP_CL"}, AddrLens <- {15}

MCInit == Init /\ usage \in {"tasks", "single"}
MCNext == \/ usage = "tasks" /\ Next /\ UNCHANGED usage
          \/ usage = "single" /\ Single!Next /\ UNCHANGED usage

MCSpec == MCInit /\ [][MCNext]_<<vars, usage>> /\ Fairness

(* With one task for everything that looks at is_connected() before it     *)
(* connects, no socket is leaked, none is closed twice and none is used    *)
(* after it was closed, whatever fails on the way.                         *)
SingleHasOneSocket == usage = "single" => Single!OneSocket
=================================================================================
