------------------------------- MODULE TcpConnectorPi -------------------------------
(***************************************************************************)
(* TcpConnector of driver_pi/TcpConnector.cpp: the client's end of a TCP   *)
(* connection, used by two threads without a lock.  The connecting thread  *)
(* calls init and connect_to_server; the sending thread write_bytes and,   *)
(* where app_disconnects says so, disconnect_from_server.  Neither method  *)
(* looks whether there is a connection: where asks_first is true, both     *)
(* threads ask is_connected() before they connect or disconnect.           *)
(*                                                                         *)
(* disconnect_from_server shuts the socket down and forgets it, but never  *)
(* closes it, and neither does a connect that fails: a descriptor once     *)
(* taken stays taken, until socket() fails for want of one.                *)
(***************************************************************************)
EXTENDS Integers

CONSTANTS SEND_FAIL_MAX_FOR_DISCONNECT,
          MAX_FD            \* bound: descriptors the process may open

ASSUME ConnectorAssumption ==
  /\ SEND_FAIL_MAX_FOR_DISCONNECT \in Nat \ {0}
  /\ MAX_FD \in Nat \ {0}

Fds == 1 .. MAX_FD
Modes == {"off", "surf_stick", "sta_cl", "ap_cl", "unknown"}

\* A socket as the kernel sees it.  The peer of a lost connection is gone and
\* the kernel has not noticed yet; it has for a dead one.
Established == {"connected", "lost", "dead"}
SocketStates == {"free", "new", "shut"} \cup Established

VARIABLES app_disconnects,     \* the sending thread also disconnects on its own
          asks_first,          \* nobody connects or disconnects without asking
          mode,
          wlan,                \* wlan0 is up; nothing in the class depends on it
          sock,
          tcp_connected,
          send_error_counter,
          fds,                 \* the kernel's sockets
          fails,               \* history: failed sends in a row on this socket
          connector,           \* where the connecting thread is
          connecting,          \* the descriptor it gave to connect(2), 0: none
          sender               \* where the sending thread is

usage == <<app_disconnects, asks_first>>
config == <<usage, mode, wlan>>
connect_pc == <<connector, connecting>>
vars == <<config, sock, tcp_connected, send_error_counter, fds, fails, connect_pc, sender>>

Init == /\ app_disconnects \in BOOLEAN /\ asks_first \in BOOLEAN
        /\ mode = "off" /\ wlan = TRUE
        /\ sock = 0 /\ tcp_connected = FALSE /\ send_error_counter = 0
        /\ fds = [f \in Fds |-> "free"]
        /\ fails = 0
        /\ connector = "idle" /\ connecting = 0 /\ sender = "idle"

\* wifi_connected is true from the start and never assigned again.
is_connected == tcp_connected
socket_is_open == tcp_connected /\ sock > 0

----------------------------------------------------------------------------
\* The connecting thread.
\* init(STA) runs the script add_wifi_network.py, if it finds it, to its end.
InitConnector(m) ==
  /\ connector = "idle"
  /\ mode' = m
  /\ wlan' = CASE m \in {"off", "surf_stick"} -> FALSE
               [] m \in {"sta_cl", "ap_cl"} -> TRUE
               [] OTHER -> wlan
  /\ connector' = IF m = "sta_cl" THEN "script" ELSE "idle"
  /\ UNCHANGED <<usage, sock, tcp_connected, send_error_counter, fds, fails,
                 connecting, sender>>

ScriptReturns ==
  /\ connector = "script" /\ connector' = "idle"
  /\ UNCHANGED <<config, sock, tcp_connected, send_error_counter, fds, fails,
                 connecting, sender>>

\* The lowest free descriptor, or -1.
Descriptor(f) == /\ f \in Fds => fds[f] = "free"
                 /\ \A g \in Fds : fds[g] = "free" => f \in 1 .. g

\* connect_to_server: the new socket, or -1, is stored before it is looked at.
Socket ==
  /\ connector = "idle" /\ (asks_first => ~is_connected)
  /\ \E f \in Fds \cup {-1} :
       /\ Descriptor(f)
       /\ sock' = f
       /\ fds' = [g \in Fds |-> IF g = f THEN "new" ELSE fds[g]]
       /\ connector' = IF f = -1 THEN "idle" ELSE "socket"
  /\ fails' = 0
  /\ UNCHANGED <<config, tcp_connected, send_error_counter, connecting, sender>>

\* connect(2) is called with what is in sock now: 0 after a disconnect.
ConnectCalled ==
  /\ connector = "socket" /\ connector' = "connect"
  /\ connecting' = sock
  /\ UNCHANGED <<config, sock, tcp_connected, send_error_counter, fds, fails, sender>>

\* A deviation: the result of connect(2) is not looked at.
ConnectFailsUnseen ==
  /\ connector = "connect" /\ connector' = "connected"
  /\ connecting' = 0
  /\ UNCHANGED <<config, sock, tcp_connected, send_error_counter, fds, fails, sender>>

\* The host's address is not one, or the server does not answer; the new socket
\* stays in sock.
ConnectFails ==
  /\ connector \in {"socket", "connect"} /\ connector' = "idle"
  /\ connecting' = 0
  /\ UNCHANGED <<config, sock, tcp_connected, send_error_counter, fds, fails, sender>>

ConnectSucceeds ==
  /\ connector = "connect" /\ connecting \in Fds
  /\ fds' = [fds EXCEPT ![connecting] = "connected"]
  /\ connector' = "connected" /\ connecting' = 0
  /\ UNCHANGED <<config, sock, tcp_connected, send_error_counter, fails, sender>>

Connected ==
  /\ connector = "connected" /\ connector' = "idle"
  /\ tcp_connected' = TRUE
  /\ UNCHANGED <<config, sock, send_error_counter, fds, fails, connecting, sender>>

----------------------------------------------------------------------------
\* The sending thread.
CallWrite ==
  /\ sender = "idle" /\ socket_is_open
  /\ sender' = "send"
  /\ UNCHANGED <<config, sock, tcp_connected, send_error_counter, fds, fails, connect_pc>>

\* What send(2) may answer for the descriptor in sock.
Takes == sock \in Fds /\ fds[sock] \in {"connected", "lost"}

SendOk ==
  /\ sender = "send" /\ Takes
  /\ send_error_counter' = 0 /\ fails' = 0
  /\ sender' = "idle"
  /\ UNCHANGED <<config, sock, tcp_connected, fds, connect_pc>>

\* A deviation: the counter starts again instead of giving up.
SendFailsForEver ==
  LET n == (send_error_counter + 1) % SEND_FAIL_MAX_FOR_DISCONNECT IN
  /\ sender = "send"
  /\ send_error_counter' = n /\ fails' = n
  /\ sender' = "idle"
  /\ UNCHANGED <<config, sock, tcp_connected, fds, connect_pc>>

\* A deviation: > in place of >=.
SendFailsOneMore ==
  LET n == send_error_counter + 1 IN
  /\ sender = "send"
  /\ send_error_counter' = n /\ fails' = fails + 1
  /\ sender' = IF n > SEND_FAIL_MAX_FOR_DISCONNECT THEN "giveUp" ELSE "idle"
  /\ UNCHANGED <<config, sock, tcp_connected, fds, connect_pc>>

SendFails ==
  LET n == send_error_counter + 1 IN
  /\ sender = "send"
  /\ send_error_counter' = n /\ fails' = fails + 1
  /\ sender' = IF n >= SEND_FAIL_MAX_FOR_DISCONNECT THEN "giveUp" ELSE "idle"
  /\ UNCHANGED <<config, sock, tcp_connected, fds, connect_pc>>

\* disconnect_from_server, called by the application or by write_bytes.
CallDisconnect ==
  /\ app_disconnects /\ sender = "idle" /\ (asks_first => is_connected)
  /\ sender' = "disconnect"
  /\ UNCHANGED <<config, sock, tcp_connected, send_error_counter, fds, fails, connect_pc>>

\* Shutdown, sock = 0, tcp_connected = false: three steps, the last of which
\* lets the other thread connect.
Shutdown ==
  /\ sender \in {"giveUp", "disconnect"}
  /\ fds' = [f \in Fds |-> IF f = sock /\ fds[f] \in Established THEN "shut" ELSE fds[f]]
  /\ sender' = IF sender = "giveUp" THEN "giveUp0" ELSE "disconnect0"
  /\ UNCHANGED <<config, sock, tcp_connected, send_error_counter, fails, connect_pc>>

ForgetSocket ==
  /\ sender \in {"giveUp0", "disconnect0"}
  /\ sock' = 0
  /\ sender' = IF sender = "giveUp0" THEN "giveUp1" ELSE "disconnect1"
  /\ UNCHANGED <<config, tcp_connected, send_error_counter, fds, fails, connect_pc>>

ForgetConnection ==
  /\ sender \in {"giveUp1", "disconnect1"}
  /\ tcp_connected' = FALSE
  /\ sender' = IF sender = "giveUp1" THEN "giveUp2" ELSE "idle"
  /\ UNCHANGED <<config, sock, send_error_counter, fds, fails, connect_pc>>

\* A deviation: giving up leaves the counter as it is.
GivenUpKeepsCounter ==
  /\ sender = "giveUp2" /\ sender' = "idle"
  /\ UNCHANGED <<config, sock, tcp_connected, send_error_counter, fds, fails, connect_pc>>

\* write_bytes goes on after its disconnect.
GivenUp ==
  /\ sender = "giveUp2" /\ sender' = "idle"
  /\ send_error_counter' = 0
  /\ UNCHANGED <<config, sock, tcp_connected, fds, fails, connect_pc>>

----------------------------------------------------------------------------
\* The network and the kernel.
PeerGone == \E f \in Fds :
  /\ fds[f] = "connected" /\ fds' = [fds EXCEPT ![f] = "lost"]
  /\ UNCHANGED <<config, sock, tcp_connected, send_error_counter, fails, connect_pc, sender>>

PeerNoticed == \E f \in Fds :
  /\ fds[f] = "lost" /\ fds' = [fds EXCEPT ![f] = "dead"]
  /\ UNCHANGED <<config, sock, tcp_connected, send_error_counter, fails, connect_pc, sender>>

ConnectorStep == ScriptReturns \/ ConnectCalled \/ ConnectFails \/ ConnectSucceeds \/ Connected
Disconnecting == Shutdown \/ ForgetSocket \/ ForgetConnection \/ GivenUp
SenderStep == SendOk \/ SendFails \/ Disconnecting
Network == PeerGone \/ PeerNoticed

Next == \/ Socket \/ ConnectorStep \/ \E m \in Modes : InitConnector(m)
        \/ CallWrite \/ CallDisconnect \/ SenderStep
        \/ Network

Spec == Init /\ [][Next]_vars

\* Both threads are scheduled, the sending one sends again and again, and the
\* kernel notices in the end that a peer is gone.
Fairness == /\ WF_vars(ConnectorStep)
            /\ WF_vars(CallWrite) /\ WF_vars(SenderStep)
            /\ WF_vars(PeerNoticed)

FairSpec == Spec /\ Fairness

----------------------------------------------------------------------------
SenderPC == {"idle", "send", "giveUp", "giveUp0", "giveUp1", "giveUp2",
             "disconnect", "disconnect0", "disconnect1"}

TypeOK == /\ app_disconnects \in BOOLEAN /\ asks_first \in BOOLEAN
          /\ mode \in Modes /\ wlan \in BOOLEAN
          /\ sock \in Fds \cup {0, -1}
          /\ tcp_connected \in BOOLEAN
          /\ send_error_counter \in 0 .. SEND_FAIL_MAX_FOR_DISCONNECT
          /\ fds \in [Fds -> SocketStates]
          /\ fails \in Nat
          /\ connector \in {"idle", "script", "socket", "connect", "connected"}
          /\ connecting \in Fds \cup {0}
          /\ sender \in SenderPC

(* What is_connected() says is true of the socket in sock: whatever fails, *)
(* and whenever the other thread looks, it is one that connect() succeeded *)
(* on, except while the sender is about to take the flag back.  It needs   *)
(* threads that ask first: a disconnect during a connect leaves the flag   *)
(* true over no socket, and a connect over a connection the new socket     *)
(* under the old flag.                                                     *)
OpenIsConnected ==
  asks_first /\ tcp_connected =>
    \/ sock \in Fds /\ fds[sock] \in Established
    \/ sender \in {"giveUp0", "giveUp1", "disconnect0", "disconnect1"}

(* A connection is given up only after the full number of sends in a row   *)
(* have failed on it; failures on the one before do not count.  This holds *)
(* as long as write_bytes alone disconnects and nobody connects over a     *)
(* connection: neither disconnect_from_server nor connect_to_server resets *)
(* the counter.                                                            *)
NotHasty == asks_first /\ ~app_disconnects /\ sender = "giveUp"
              => fails >= SEND_FAIL_MAX_FOR_DISCONNECT

(* A connection whose peer is gone is given up in the end, although a send *)
(* may still succeed for some time.                                        *)
DeadPeerNoticed ==
  (asks_first /\ tcp_connected /\ sock \in Fds /\ fds[sock] \in {"lost", "dead"})
    ~> ~tcp_connected
=====================================================================================
