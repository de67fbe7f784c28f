----------------------------- MODULE TcpConnectorEsp -----------------------------
(***************************************************************************)
(* TcpConnector of driver_esp32: a WiFi station or access point with one   *)
(* TCP client connection.  Three parties share its members without a lock: *)
(* the event loop task, which runs the two wifi event handlers; the tasks  *)
(* that connect and disconnect; and the task that sends.  They meet only   *)
(* through the event group of TaskEventVarEsp.                             *)
(*                                                                         *)
(* The WiFi driver, the event loop and the sockets of lwIP are outside of  *)
(* the repository.  They may fail where the code looks at a result.  A     *)
(* socket is a small positive number, handed out lowest first and again    *)
(* after it was closed, as lwIP does.                                      *)
(***************************************************************************)
EXTENDS Integers, Sequences, TaskEventVarEsp

CONSTANTS Connectors,   \* tasks that call connect_to_server, disconnect_from_server
          Senders,      \* tasks that call write_bytes
          Guarded,      \* whether connect_to_server is called only if ~is_connected()
          Modes,        \* the modes passed to init
          MaxFds,       \* sockets lwIP has
          MaxEvents,    \* bound: events posted by the WiFi driver
          AddrLens,     \* lengths of the address texts handed out, e.g. 7 .. 15
          SEND_FAIL_MAX_FOR_DISCONNECT

GotIp == {"IPV4_GOTIP_BIT", "IPV6_GOTIP_BIT"}
AllBits == GotIp \cup {"CLIENT_CONNECTED_BIT", "CLIENT_DISCONNECTED_BIT", "AP_STARTED_BIT"}

ASSUME TasksAssumption == /\ Tasks = Connectors \cup Senders
                          /\ Bits = AllBits
                          /\ \A s, t \in Senders : s = t
                          /\ Guarded \in BOOLEAN
ASSUME LimitsAssumption == /\ Modes \subseteq {"OFF", "STA_CL", "AP_CL"}
                           /\ MaxFds \in Nat \ {0}
                           /\ MaxEvents \in Nat
                           /\ AddrLens \subseteq 7 .. 15
                           /\ SEND_FAIL_MAX_FOR_DISCONNECT \in Nat \ {0}

Fds == 1 .. MaxFds

VARIABLES
  mode,               \* the mode init was called with, "none" before
  server_sock,        \* the global socket: -1, or a socket (0 before init)
  tcp_connected, wifi_connected, send_error_counter,   \* members of tcp
  ipAddress,          \* length of the text in the member, 0 when it is cleared
  ipAddressLen,
  ipAddressClient, ipAddressClientLen,
  pc, back,           \* where a task is; where disconnect_from_server returns to
  handler,            \* what the event loop task is in the middle of
  link,               \* the WiFi driver's view of the association
  events, posted,     \* events not handled yet; events posted so far
  open, up,           \* sockets that exist; those with an established connection
  told,               \* history: bits the handlers have announced and not withdrawn
  fails               \* history: sends failed in a row on the socket in server_sock

memberVars == <<mode, server_sock, tcp_connected, wifi_connected, send_error_counter>>
ipVars     == <<ipAddress, ipAddressLen, ipAddressClient, ipAddressClientLen>>
taskVars   == <<pc, back>>
wifiVars   == <<handler, link, events, posted>>
sockVars   == <<open, up>>
histVars   == <<told, fails>>
vars == <<eventVars, memberVars, ipVars, taskVars, wifiVars, sockVars, histVars>>

PC == {"idle", "startup", "checkWifi", "peer", "socket", "connect", "connected",
       "failed", "disconnect", "close", "closed", "send", "zero"}
HandlerSteps == {"idle", "clearIp6", "storeIp", "ipLen", "delay", "lists", "announce",
                 "wifiOff", "tcpOff"}
Idle == [step |-> "idle", len |-> 0]
EventNames == {"STA_START", "STA_CONNECTED", "STA_DISCONNECTED", "GOT_IP", "GOT_IP6",
               "AP_START", "AP_STACONNECTED", "AP_STADISCONNECTED"}

Init == /\ EventInit
        /\ mode = "none" /\ server_sock = 0
        /\ tcp_connected = FALSE /\ wifi_connected = FALSE
        /\ send_error_counter = 0
        /\ ipAddress = 0 /\ ipAddressLen = 0
        /\ ipAddressClient = 0 /\ ipAddressClientLen = 0
        /\ pc = [t \in Tasks |-> "idle"] /\ back = [t \in Tasks |-> "idle"]
        /\ handler = Idle /\ link = "off" /\ events = <<>> /\ posted = 0
        /\ open = {} /\ up = {}
        /\ told = {} /\ fails = 0

----------------------------------------------------------------------------
(* The WiFi driver.                                                        *)

Post(e) == /\ posted < MaxEvents
           /\ events' = Append(events, e)
           /\ posted' = posted + 1

Event(name) == [name |-> name, len |-> 0]

\* init: the socket is marked closed, then the driver is started for the mode.
InitConnector(m) ==
  /\ mode = "none"
  /\ mode' = m
  /\ server_sock' = -1
  /\ wifi_connected' = (m = "STA_CL")
  /\ CASE m = "STA_CL" -> link' = "down" /\ Post(Event("STA_START"))
       [] m = "AP_CL"  -> link' = "down" /\ Post(Event("AP_START"))
       [] OTHER        -> UNCHANGED <<link, events, posted>>
  /\ UNCHANGED <<eventVars, tcp_connected, send_error_counter, ipVars, taskVars,
                 handler, sockVars, histVars>>

\* A station joins after esp_wifi_connect, or fails to; it may be dropped
\* later.  An access point has at most one client, which comes and goes.
LinkUp == /\ link = (IF mode = "STA_CL" THEN "joining" ELSE "down")
          /\ mode \in {"STA_CL", "AP_CL"}
          /\ link' = "up"
          /\ Post(Event(IF mode = "STA_CL" THEN "STA_CONNECTED" ELSE "AP_STACONNECTED"))

LinkDown == /\ link \in {"joining", "up"}
            /\ link' = "down"
            /\ Post(Event(IF mode = "STA_CL" THEN "STA_DISCONNECTED"
                                             ELSE "AP_STADISCONNECTED"))

\* An address is assigned to the station, for the first time or again.
Address == /\ mode = "STA_CL" /\ link = "up"
           /\ \/ \E n \in AddrLens : Post([name |-> "GOT_IP", len |-> n])
              \/ Post(Event("GOT_IP6"))
           /\ UNCHANGED link

Wifi == /\ LinkUp \/ LinkDown \/ Address
        /\ UNCHANGED <<eventVars, memberVars, ipVars, taskVars, handler, sockVars,
                       histVars>>

----------------------------------------------------------------------------
(* The event loop task: one event at a time, in the order of posting.      *)

\* The while loop behind an address that was just written: it starts at the
\* old length and stops at the first zero byte, or at MAX_IP_LEN.
GrownLen(len, text) == IF text > len THEN text ELSE len

Handle(name) == /\ handler = Idle /\ events # <<>> /\ Head(events).name = name
                /\ events' = Tail(events)
                /\ UNCHANGED <<posted, memberVars, taskVars, sockVars, fails>>

HandlerContinues(step) == /\ handler.step = step
                          /\ UNCHANGED <<events, posted, link, taskVars, sockVars, fails>>

StaStart == /\ Handle("STA_START") /\ link' = "joining"
            /\ UNCHANGED <<eventVars, ipVars, handler, told>>

StaConnected == /\ Handle("STA_CONNECTED")
                /\ UNCHANGED <<eventVars, ipVars, handler, link, told>>

\* esp_wifi_connect(), then the bits are cleared one by one.
StaDisconnected == /\ Handle("STA_DISCONNECTED")
                   /\ link' = (IF link = "down" THEN "joining" ELSE link)
                   /\ clear({"IPV4_GOTIP_BIT"})
                   /\ told' = told \ {"IPV4_GOTIP_BIT"}
                   /\ handler' = [Idle EXCEPT !.step = "clearIp6"]
                   /\ UNCHANGED ipVars

StaDisconnectedIp6 == /\ HandlerContinues("clearIp6")
                      /\ clear({"IPV6_GOTIP_BIT"})
                      /\ told' = told \ {"IPV6_GOTIP_BIT"}
                      /\ handler' = Idle
                      /\ UNCHANGED <<memberVars, ipVars>>

\* The bit is set before the address is stored.
GotIp4 == /\ Handle("GOT_IP")
          /\ set({"IPV4_GOTIP_BIT"})
          /\ told' = told \cup {"IPV4_GOTIP_BIT"}
          /\ handler' = [step |-> "storeIp", len |-> Head(events).len]
          /\ UNCHANGED <<ipVars, link>>

GotIp4Store == /\ HandlerContinues("storeIp")
               /\ ipAddress' = handler.len
               /\ handler' = [Idle EXCEPT !.step = "ipLen"]
               /\ UNCHANGED <<eventVars, memberVars, ipAddressLen, ipAddressClient,
                              ipAddressClientLen, told>>

GotIp4Length == /\ HandlerContinues("ipLen")
                /\ ipAddressLen' = GrownLen(ipAddressLen, ipAddress)
                /\ handler' = Idle
                /\ UNCHANGED <<eventVars, memberVars, ipAddress, ipAddressClient,
                               ipAddressClientLen, told>>

GotIp6 == /\ Handle("GOT_IP6")
          /\ set({"IPV6_GOTIP_BIT"})
          /\ told' = told \cup {"IPV6_GOTIP_BIT"}
          /\ UNCHANGED <<ipVars, handler, link>>

ApStart == /\ Handle("AP_START")
           /\ set({"AP_STARTED_BIT"})
           /\ told' = told \cup {"AP_STARTED_BIT"}
           /\ UNCHANGED <<ipVars, handler, link>>

\* A client has joined; its address is read a second later.
ApStaConnected == /\ Handle("AP_STACONNECTED")
                  /\ handler' = [Idle EXCEPT !.step = "delay"]
                  /\ UNCHANGED <<eventVars, ipVars, link, told>>

\* Behind the delay, each assignment that a task can see is a step, as no lock
\* guards them.
ApStaConnectedLater ==
  /\ HandlerContinues("delay")
  /\ wifi_connected' = TRUE
  /\ handler' = [Idle EXCEPT !.step = "lists"]
  /\ UNCHANGED <<eventVars, mode, server_sock, tcp_connected, send_error_counter, ipVars,
                 told>>

\* Either list may be unavailable, which ends the handler, or empty, which leaves
\* the old address.  No task reads the address of the client.
ApStaLists ==
  /\ HandlerContinues("lists")
  /\ \/ /\ handler' = Idle
        /\ UNCHANGED <<ipAddressClient, ipAddressClientLen>>
     \/ /\ handler' = [Idle EXCEPT !.step = "announce"]
        /\ \/ \E n \in AddrLens :
                /\ ipAddressClient' = n
                /\ ipAddressClientLen' = GrownLen(ipAddressClientLen, n)
           \/ link # "up" /\ UNCHANGED <<ipAddressClient, ipAddressClientLen>>
  /\ UNCHANGED <<eventVars, memberVars, ipAddress, ipAddressLen, told>>

ApStaAnnounce ==
  /\ HandlerContinues("announce")
  /\ set({"CLIENT_CONNECTED_BIT"})
  /\ told' = told \cup {"CLIENT_CONNECTED_BIT"}
  /\ handler' = Idle
  /\ UNCHANGED <<memberVars, ipVars>>

\* The client has left: the bit, then the two members, one after the other.
ApStaDisconnected == /\ Handle("AP_STADISCONNECTED")
                     /\ set({"CLIENT_DISCONNECTED_BIT"})
                     /\ told' = told \cup {"CLIENT_DISCONNECTED_BIT"}
                     /\ handler' = [Idle EXCEPT !.step = "wifiOff"]
                     /\ UNCHANGED <<ipVars, link>>

ApStaWifiOff == /\ HandlerContinues("wifiOff")
                /\ wifi_connected' = FALSE
                /\ handler' = [Idle EXCEPT !.step = "tcpOff"]
                /\ UNCHANGED <<eventVars, mode, server_sock, tcp_connected,
                               send_error_counter, ipVars, told>>

ApStaTcpOff == /\ HandlerContinues("tcpOff")
               /\ tcp_connected' = FALSE
               /\ handler' = Idle
               /\ UNCHANGED <<eventVars, mode, server_sock, wifi_connected,
                              send_error_counter, ipVars, told>>

EventLoop == \/ StaStart \/ StaConnected \/ StaDisconnected \/ StaDisconnectedIp6
             \/ GotIp4 \/ GotIp4Store \/ GotIp4Length \/ GotIp6
             \/ ApStart \/ ApStaConnected \/ ApStaConnectedLater \/ ApStaLists
             \/ ApStaAnnounce \/ ApStaDisconnected \/ ApStaWifiOff \/ ApStaTcpOff

----------------------------------------------------------------------------
(* The tasks.  Between two steps of a task anybody may change server_sock. *)

Go(t, step) == pc' = [pc EXCEPT ![t] = step]
is_connected == server_sock > 0

Step(t, step) == /\ pc[t] = step
                 /\ UNCHANGED <<mode, wifi_connected, ipVars, wifiVars, told>>

----------------------------------------------------------------------------
(* Deviations from the code that the properties must notice; no action of  *)
(* Next uses them.                                                         *)

\* wait_for_startup forgets to set the bits again.
StartupDoneNoSet(t) ==
  /\ ~Blocked(t) /\ Step(t, "startup") /\ Go(t, "checkWifi")
  /\ UNCHANGED <<eventVars, server_sock, tcp_connected, send_error_counter, back,
                 sockVars, fails>>

\* wait_for_client_connected waits without a timeout.
PeerNoTimeout(t) == FALSE

\* disconnect_from_server leaves the number of the closed socket.
ClosedKeepsNumber(t) ==
  /\ Step(t, "closed") /\ Go(t, back[t])
  /\ UNCHANGED <<eventVars, server_sock, tcp_connected, send_error_counter, back,
                 sockVars, fails>>

\* write_bytes disconnects only when the counter is past its limit.
SendFailedPast(t) ==
  /\ Step(t, "send")
  /\ send_error_counter' = send_error_counter + 1
  /\ fails' = IF server_sock > 0 THEN fails + 1 ELSE fails
  /\ IF send_error_counter' > SEND_FAIL_MAX_FOR_DISCONNECT
       THEN Go(t, "disconnect") /\ back' = [back EXCEPT ![t] = "zero"]
       ELSE Go(t, "idle") /\ UNCHANGED back
  /\ UNCHANGED <<eventVars, server_sock, tcp_connected, sockVars>>

\* The error counter is not reset behind the disconnect.
CounterNotZero(t) ==
  /\ Step(t, "zero") /\ Go(t, "idle")
  /\ UNCHANGED <<eventVars, server_sock, tcp_connected, send_error_counter, back,
                 sockVars, fails>>

----------------------------------------------------------------------------
\* connect_to_server begins with wait_for_startup.
CallConnect(t) ==
  /\ t \in Connectors /\ mode # "none"
  /\ Guarded => ~is_connected
  /\ Step(t, "idle")
  /\ CASE mode = "STA_CL" -> wait_for_one(t, GotIp) /\ Go(t, "startup")
       [] mode = "AP_CL"  -> wait_for(t, {"AP_STARTED_BIT"}) /\ Go(t, "startup")
       [] OTHER           -> UNCHANGED eventVars /\ Go(t, "checkWifi")
  /\ UNCHANGED <<server_sock, tcp_connected, send_error_counter, back, sockVars, fails>>

\* The wait has cleared the bits for everybody, so they are set again: all
\* that were returned in STA mode, the one that was awaited in AP mode.
StartupDone(t) ==
  /\ ~Blocked(t)
  /\ Step(t, "startup")
  /\ set(IF mode = "STA_CL" THEN ret[t] ELSE {"AP_STARTED_BIT"})
  /\ Go(t, "checkWifi")
  /\ UNCHANGED <<server_sock, tcp_connected, send_error_counter, back, sockVars, fails>>

\* Without WiFi, wait_for_client_connected.
CheckWifi(t) ==
  /\ Step(t, "checkWifi")
  /\ IF wifi_connected
       THEN Go(t, "socket") /\ UNCHANGED eventVars
       ELSE Go(t, "peer") /\ wait_for(t, {"CLIENT_CONNECTED_BIT"})
  /\ UNCHANGED <<server_sock, tcp_connected, send_error_counter, back, sockVars, fails>>

PeerDone(t) ==
  /\ ~Blocked(t)
  /\ Step(t, "peer")
  /\ set({"CLIENT_CONNECTED_BIT"})
  /\ Go(t, "socket")
  /\ UNCHANGED <<server_sock, tcp_connected, send_error_counter, back, sockVars, fails>>

\* No client within ten seconds: connect_to_server returns false.
PeerTimeout(t) ==
  /\ Blocked(t)
  /\ Step(t, "peer")
  /\ WaitTimeout(t)
  /\ Go(t, "idle")
  /\ UNCHANGED <<server_sock, tcp_connected, send_error_counter, back, sockVars, fails>>

\* socket() overwrites server_sock, whatever it held.
Socket(t) ==
  /\ Step(t, "socket")
  /\ \/ \E fd \in Fds \ open :
          /\ \A g \in Fds \ open : fd <= g
          /\ server_sock' = fd /\ open' = open \cup {fd}
          /\ Go(t, "connect")
     \/ server_sock' = -1 /\ UNCHANGED open /\ Go(t, "failed")
  /\ fails' = 0
  /\ UNCHANGED <<eventVars, tcp_connected, send_error_counter, back, up>>

ConnectSock(t) ==
  /\ Step(t, "connect")
  /\ \/ server_sock \in open \ up /\ up' = up \cup {server_sock} /\ Go(t, "connected")
     \/ UNCHANGED up /\ Go(t, "failed")
  /\ UNCHANGED <<eventVars, server_sock, tcp_connected, send_error_counter, back, open,
                 fails>>

Connected(t) ==
  /\ Step(t, "connected")
  /\ tcp_connected' = TRUE
  /\ Go(t, "idle")
  /\ UNCHANGED <<eventVars, server_sock, send_error_counter, back, sockVars, fails>>

ConnectFailed(t) ==
  /\ Step(t, "failed")
  /\ tcp_connected' = FALSE
  /\ Go(t, "disconnect") /\ back' = [back EXCEPT ![t] = "idle"]
  /\ UNCHANGED <<eventVars, server_sock, send_error_counter, sockVars, fails>>

CallDisconnect(t) ==
  /\ t \in Connectors /\ mode # "none"
  /\ Step(t, "idle")
  /\ Go(t, "disconnect") /\ back' = [back EXCEPT ![t] = "idle"]
  /\ UNCHANGED <<eventVars, server_sock, tcp_connected, send_error_counter, sockVars,
                 fails>>

\* if (server_sock != -1), and the shutdown of what server_sock holds.
Disconnect(t) ==
  /\ Step(t, "disconnect")
  /\ Go(t, IF server_sock # -1 THEN "close" ELSE back[t])
  /\ UNCHANGED <<eventVars, server_sock, tcp_connected, send_error_counter, back,
                 sockVars, fails>>

Close(t) ==
  /\ Step(t, "close")
  /\ open' = open \ {server_sock} /\ up' = up \ {server_sock}
  /\ Go(t, "closed")
  /\ UNCHANGED <<eventVars, server_sock, tcp_connected, send_error_counter, back, fails>>

Closed(t) ==
  /\ Step(t, "closed")
  /\ server_sock' = -1 /\ fails' = 0
  /\ Go(t, back[t])
  /\ UNCHANGED <<eventVars, tcp_connected, send_error_counter, back, sockVars>>

\* write_bytes; it returns -1 at once unless both tests hold.
CallWrite(t) ==
  /\ t \in Senders /\ mode # "none"
  /\ is_connected /\ tcp_connected
  /\ Step(t, "idle")
  /\ Go(t, "send")
  /\ UNCHANGED <<eventVars, server_sock, tcp_connected, send_error_counter, back,
                 sockVars, fails>>

SendOk(t) ==
  /\ server_sock \in up
  /\ Step(t, "send")
  /\ send_error_counter' = 0 /\ fails' = 0
  /\ Go(t, "idle")
  /\ UNCHANGED <<eventVars, server_sock, tcp_connected, back, sockVars>>

SendFailed(t) ==
  /\ Step(t, "send")
  /\ send_error_counter' = send_error_counter + 1
  /\ fails' = IF server_sock > 0 THEN fails + 1 ELSE fails
  /\ IF send_error_counter' >= SEND_FAIL_MAX_FOR_DISCONNECT
       THEN Go(t, "disconnect") /\ back' = [back EXCEPT ![t] = "zero"]
       ELSE Go(t, "idle") /\ UNCHANGED back
  /\ UNCHANGED <<eventVars, server_sock, tcp_connected, sockVars>>

\* Behind the disconnect of a send: send_error_counter = 0.
CounterZero(t) ==
  /\ Step(t, "zero")
  /\ send_error_counter' = 0
  /\ Go(t, "idle")
  /\ UNCHANGED <<eventVars, server_sock, tcp_connected, back, sockVars, fails>>

\* An established connection is lost: reset by the peer, or the WiFi is gone.
ConnectionLost(fd) ==
  /\ fd \in up /\ up' = up \ {fd}
  /\ UNCHANGED <<eventVars, memberVars, ipVars, taskVars, wifiVars, open, histVars>>


Inside(t) == \/ StartupDone(t) \/ CheckWifi(t) \/ PeerDone(t) \/ PeerTimeout(t)
             \/ Socket(t) \/ ConnectSock(t) \/ Connected(t) \/ ConnectFailed(t)
             \/ Disconnect(t) \/ Close(t) \/ Closed(t)
             \/ SendOk(t) \/ SendFailed(t) \/ CounterZero(t)

Next == \/ \E m \in Modes : InitConnector(m)
        \/ Wifi \/ EventLoop
        \/ \E t \in Tasks : CallConnect(t) \/ CallDisconnect(t) \/ CallWrite(t) \/ Inside(t)
        \/ \E fd \in Fds : ConnectionLost(fd)

Spec == Init /\ [][Next]_vars

\* A task that is inside a call goes on, and so does the event loop.  Nothing
\* obliges the application to call or the WiFi to come up.
Fairness == /\ WF_vars(EventLoop)
            /\ \A t \in Tasks : WF_vars(Inside(t))
FairSpec == Spec /\ Fairness

----------------------------------------------------------------------------
TypeOK ==
  /\ EventTypeOK
  /\ mode \in {"none", "OFF", "STA_CL", "AP_CL"}
  /\ server_sock \in {-1, 0} \cup Fds
  /\ tcp_connected \in BOOLEAN /\ wifi_connected \in BOOLEAN
  /\ send_error_counter \in 0 .. SEND_FAIL_MAX_FOR_DISCONNECT
  /\ {ipAddress, ipAddressLen, ipAddressClient, ipAddressClientLen} \subseteq 0 .. 15
  /\ pc \in [Tasks -> PC] /\ back \in [Tasks -> {"idle", "zero"}]
  /\ handler \in [step : HandlerSteps, len : 0 .. 15]
  /\ link \in {"off", "down", "joining", "up"}
  /\ events \in Seq([name : EventNames, len : 0 .. 15])
  /\ posted \in 0 .. MaxEvents
  /\ open \subseteq Fds /\ up \subseteq open
  /\ told \subseteq Bits

(* What a handler has announced is not lost by the tasks that consume the  *)
(* bit: it is in the event group, or a task that the event group has woken *)
(* is about to put it back.  wait_for_startup and wait_for_client_connected *)
(* clear the bits for everybody while they wait.                           *)
BitsNotLost ==
  \A b \in told : \/ b \in bits
                  \/ \E t \in Tasks : /\ pc[t] \in {"startup", "peer"}
                                      /\ ~Blocked(t) /\ b \in ret[t]

NetworkUp == told \cap (GotIp \cup {"AP_STARTED_BIT"}) # {}

(* A call of connect_to_server, write_bytes or disconnect_from_server       *)
(* returns, unless it is in wait_for_startup and the network is not there.  *)
CallsReturn ==
  \A t \in Tasks :
    (pc[t] # "idle") ~> (pc[t] = "idle" \/ (pc[t] = "startup" /\ ~NetworkUp))

GivingUp(t) == \/ pc[t] \in {"disconnect", "close", "closed"} /\ back[t] = "zero"
               \/ pc[t] = "zero"

(* No connection outlives SEND_FAIL_MAX_FOR_DISCONNECT sends that failed in *)
(* a row on it: at that number write_bytes is on its way through the        *)
(* disconnect, whoever else disconnects and connects at the same time.      *)
(* The error counter is not restarted by those, so that it may come sooner, *)
(* but never later.                                                        *)
GivesUpInTime ==
  /\ fails <= SEND_FAIL_MAX_FOR_DISCONNECT
  /\ fails = SEND_FAIL_MAX_FOR_DISCONNECT =>
       \E t \in Tasks : GivingUp(t) /\ pc[t] # "zero"

(* With one task for everything that looks at is_connected() before it      *)
(* connects, no socket is leaked, none is closed twice and none is used     *)
(* after it was closed, whatever fails on the way.                          *)
OneSocket ==
  /\ \A t \in Connectors : pc[t] \in {"idle", "startup", "checkWifi", "peer"} =>
       open = (IF is_connected THEN {server_sock} ELSE {})
  /\ \A t \in Connectors : pc[t] \in {"connect", "close", "send"} => server_sock \in open
=================================================================================
