-------------------------- MODULE TcpConnectorEsp_proofs --------------------------
(***************************************************************************)
(* Proofs about TcpConnectorEsp: for every set of tasks, every number of   *)
(* sockets, every limit and every sequence of WiFi events.                 *)
(***************************************************************************)
EXTENDS MCTcpConnectorEsp, TLAPS

----------------------------------------------------------------------------
(***************************************************************************)
(* What the handlers leave alone.                                          *)
(***************************************************************************)
LEMMA HandlersFrame ==
  ASSUME EventLoop
  PROVE  UNCHANGED <<mode, server_sock, send_error_counter, pc, back, open, up, fails>>
<1> USE DEF Handle, HandlerContinues, taskVars, memberVars, sockVars
<1>1. CASE StaStart \/ StaConnected \/ StaDisconnected \/ StaDisconnectedIp6
  BY <1>1 DEF StaStart, StaConnected, StaDisconnected, StaDisconnectedIp6
<1>2. CASE GotIp4 \/ GotIp4Store \/ GotIp4Length \/ GotIp6 \/ ApStart
  BY <1>2 DEF GotIp4, GotIp4Store, GotIp4Length, GotIp6, ApStart
<1>3. CASE ApStaConnected \/ ApStaConnectedLater \/ ApStaLists \/ ApStaAnnounce
  BY <1>3 DEF ApStaConnected, ApStaConnectedLater, ApStaLists, ApStaAnnounce
<1>4. CASE ApStaDisconnected \/ ApStaWifiOff \/ ApStaTcpOff
  BY <1>4 DEF ApStaDisconnected, ApStaWifiOff, ApStaTcpOff
<1> QED
  BY <1>1, <1>2, <1>3, <1>4 DEF EventLoop

\* Before init no task is inside a call.
IdleBeforeInit == mode = "none" => \A t \in Tasks : pc[t] = "idle"

----------------------------------------------------------------------------
(***************************************************************************)
(* Giving up.  The failures on one socket are at most those that the       *)
(* counter counts, which outlives the socket.  When the counter is at its  *)
(* limit, the one sender is on its way through the disconnect, so that no  *)
(* send can push it further; this is where a second sender would break the *)
(* proof.  By the time the counter is set to zero the socket has gone, so  *)
(* that no failure on it is forgotten.                                     *)
(***************************************************************************)
Max == SEND_FAIL_MAX_FOR_DISCONNECT

CounterInv ==
  /\ pc \in [Tasks -> PC] /\ back \in [Tasks -> {"idle", "zero"}]
  /\ server_sock \in {-1, 0} \cup Fds
  /\ send_error_counter \in 0 .. Max
  /\ fails \in 0 .. send_error_counter
  /\ \A t \in Tasks : pc[t] = "send" \/ GivingUp(t) => t \in Senders
  /\ \A t \in Tasks : GivingUp(t) => send_error_counter = Max
  /\ send_error_counter = Max => \E t \in Tasks : GivingUp(t)
  /\ server_sock = -1 \/ mode = "none" => fails = 0
  /\ \A t \in Tasks : pc[t] = "zero" => fails = 0

LEMMA CounterInit == Init => CounterInv
BY LimitsAssumption DEF Init, CounterInv, GivingUp, PC, Max

\* A step that leaves the counter, and moves t between labels outside of the
\* sending part or along the disconnect.
LEMMA CounterMove ==
  ASSUME CounterInv, NEW t \in Tasks, NEW step \in PC, Go(t, step),
         back' \in [Tasks -> {"idle", "zero"}],
         \A u \in Tasks : u # t => back'[u] = back[u],
         UNCHANGED <<send_error_counter, mode>>,
         server_sock' \in {-1, 0} \cup Fds,
         fails' = 0 \/ UNCHANGED <<fails, server_sock>>,
         step = "zero" => fails' = 0,
         GivingUp(t)' <=> GivingUp(t),
         step = "send" => t \in Senders
  PROVE  CounterInv'
<1>1. /\ pc' \in [Tasks -> PC] /\ pc'[t] = step
      /\ \A u \in Tasks : u # t => pc'[u] = pc[u]
  BY DEF CounterInv, Go
<1>2. \A u \in Tasks : GivingUp(u)' <=> GivingUp(u)
  BY <1>1 DEF GivingUp
<1>3. \A u \in Tasks : pc'[u] = "send" \/ GivingUp(u)' => u \in Senders
  BY <1>1, <1>2 DEF CounterInv
<1>4. /\ server_sock' = -1 \/ mode' = "none" => fails' = 0
      /\ \A u \in Tasks : pc'[u] = "zero" => fails' = 0
  BY <1>1 DEF CounterInv
<1>5. send_error_counter' \in 0 .. Max /\ fails' \in 0 .. send_error_counter'
  BY LimitsAssumption DEF CounterInv, Max
<1> QED
  BY <1>1, <1>2, <1>3, <1>4, <1>5 DEF CounterInv

LEMMA CounterFrame ==
  ASSUME CounterInv, UNCHANGED <<pc, back, send_error_counter, fails, server_sock, mode>>
  PROVE  CounterInv'
BY DEF CounterInv, GivingUp

LEMMA CounterSend ==
  ASSUME CounterInv, IdleBeforeInit, NEW t \in Tasks, SendOk(t) \/ SendFailed(t)
  PROVE  CounterInv'
<1> USE LimitsAssumption DEF Max
<1>1. /\ t \in Senders /\ pc[t] = "send" /\ ~GivingUp(t) /\ mode # "none"
      /\ mode' = mode /\ server_sock' = server_sock
  BY DEF SendOk, SendFailed, Step, CounterInv, GivingUp, IdleBeforeInit
<1>2. \A u \in Tasks : ~GivingUp(u)
  BY <1>1, TasksAssumption DEF CounterInv
<1>3. send_error_counter # Max
  BY <1>2 DEF CounterInv
<1>4. \A u \in Tasks : u # t => pc[u] # "send"
  BY <1>1, TasksAssumption DEF CounterInv
<1>5. CASE SendOk(t)
  <2>1. \A u \in Tasks : ~GivingUp(u)'
    BY <1>2, <1>5 DEF SendOk, Go, GivingUp, CounterInv
  <2>2. /\ pc' \in [Tasks -> PC] /\ back' = back
        /\ fails' = 0 /\ send_error_counter' = 0
        /\ \A u \in Tasks : pc'[u] = "send" => pc[u] = "send"
    BY <1>5 DEF SendOk, Go, PC, CounterInv
  <2> QED
    BY <1>1, <2>1, <2>2 DEF CounterInv
<1>6. CASE SendFailed(t)
  <2>1. /\ send_error_counter' = send_error_counter + 1
        /\ fails' = IF server_sock > 0 THEN fails + 1 ELSE fails
        /\ send_error_counter \in 0 .. Max /\ fails \in 0 .. send_error_counter
        /\ server_sock = -1 => fails = 0
    BY <1>6 DEF SendFailed, CounterInv
  <2>2. send_error_counter' \in 0 .. Max /\ fails' \in 0 .. send_error_counter'
    <3>1. fails' \in {fails, fails + 1}
      BY <2>1
    <3> QED
      BY <1>3, <2>1, <3>1
  <2>3. server_sock' = -1 \/ mode' = "none" => fails' = 0
    BY <1>1, <2>1
  <2>4. \A u \in Tasks : u # t => pc'[u] = pc[u] /\ back'[u] = back[u]
    BY <1>6 DEF SendFailed, Go, CounterInv
  <2>5. \A u \in Tasks : pc[u] # "zero"
    BY <1>2 DEF GivingUp
  <2>6. CASE send_error_counter' = Max
    <3>1. Go(t, "disconnect") /\ back' = [back EXCEPT ![t] = "zero"]
      BY <1>6, <2>1, <2>6 DEF SendFailed
    <3>2. /\ pc' \in [Tasks -> PC] /\ back' \in [Tasks -> {"idle", "zero"}]
          /\ GivingUp(t)' /\ pc'[t] # "send" /\ pc'[t] # "zero"
      BY <3>1 DEF Go, GivingUp, PC, CounterInv
    <3>3. \A u \in Tasks : u # t => ~GivingUp(u)'
      BY <1>2, <2>4 DEF GivingUp
    <3>4. /\ \A u \in Tasks : pc'[u] # "zero"
          /\ \A u \in Tasks : pc'[u] = "send" \/ GivingUp(u)' => u \in Senders
      BY <1>1, <1>4, <2>4, <2>5, <3>2, <3>3
    <3> QED
      BY <1>1, <2>2, <2>3, <2>6, <3>2, <3>3, <3>4 DEF CounterInv
  <2>7. CASE send_error_counter' # Max
    <3>1. Go(t, "idle") /\ back' = back
      BY <1>6, <2>1, <2>2, <2>7 DEF SendFailed
    <3>2. /\ pc' \in [Tasks -> PC]
          /\ \A u \in Tasks : pc'[u] # "send" /\ pc'[u] # "zero"
          /\ \A u \in Tasks : ~GivingUp(u)'
      BY <1>2, <1>4, <2>5, <3>1 DEF Go, GivingUp, PC, CounterInv
    <3> QED
      BY <1>1, <2>2, <2>3, <2>7, <3>1, <3>2 DEF CounterInv
  <2> QED
    BY <2>6, <2>7
<1> QED
  BY <1>5, <1>6

LEMMA CounterReset ==
  ASSUME CounterInv, NEW t \in Tasks, CounterZero(t)
  PROVE  CounterInv'
<1> USE LimitsAssumption DEF Max
<1>1. /\ GivingUp(t) /\ t \in Senders /\ pc[t] = "zero" /\ fails = 0
      /\ mode' = mode /\ server_sock' = server_sock
  BY DEF CounterZero, Step, GivingUp, CounterInv
<1>2. \A u \in Tasks : GivingUp(u) => u = t
  BY <1>1, TasksAssumption DEF CounterInv
<1>3. /\ pc' \in [Tasks -> PC] /\ pc'[t] = "idle" /\ back' = back
      /\ \A u \in Tasks : u # t => pc'[u] = pc[u]
      /\ fails' = 0 /\ send_error_counter' = 0
  BY <1>1 DEF CounterZero, Go, PC, CounterInv
<1>4. \A u \in Tasks : ~GivingUp(u)'
  BY <1>2, <1>3 DEF GivingUp
<1> QED
  BY <1>1, <1>3, <1>4 DEF CounterInv

LEMMA CounterStep ==
  ASSUME CounterInv, IdleBeforeInit, [Next]_vars
  PROVE  CounterInv'
<1> USE DEF PC
<1>0. server_sock \in {-1, 0} \cup Fds
  BY DEF CounterInv
<1>1. ASSUME NEW t \in Tasks,
             CallConnect(t) \/ StartupDone(t) \/ CheckWifi(t) \/ PeerDone(t)
               \/ PeerTimeout(t) \/ ConnectSock(t) \/ Connected(t) \/ Socket(t)
      PROVE  CounterInv'
  <2>1. \E step \in PC \ {"send", "disconnect", "close", "closed", "zero"} : Go(t, step)
    BY <1>1 DEF CallConnect, StartupDone, CheckWifi, PeerDone, PeerTimeout, Socket,
                ConnectSock, Connected
  <2>2. /\ UNCHANGED <<back, send_error_counter, mode>>
        /\ pc[t] \notin {"send", "disconnect", "close", "closed", "zero"}
    BY <1>1 DEF CallConnect, StartupDone, CheckWifi, PeerDone, PeerTimeout, Socket,
                ConnectSock, Connected, Step
  <2>3. /\ fails' = 0 \/ UNCHANGED <<fails, server_sock>>
        /\ server_sock' \in {-1, 0} \cup Fds
    BY <1>0, <1>1 DEF CallConnect, StartupDone, CheckWifi, PeerDone, PeerTimeout, Socket,
                      ConnectSock, Connected
  <2>4. PICK step \in PC \ {"send", "disconnect", "close", "closed", "zero"} : Go(t, step)
    BY <2>1
  <2>5. GivingUp(t)' <=> GivingUp(t)
    BY <2>2, <2>4 DEF GivingUp, Go, CounterInv
  <2>6. back' \in [Tasks -> {"idle", "zero"}] /\ \A u \in Tasks : back'[u] = back[u]
    BY <2>2 DEF CounterInv
  <2> QED
    BY <2>2, <2>3, <2>4, <2>5, <2>6, CounterMove
<1>2. ASSUME NEW t \in Tasks, ConnectFailed(t) \/ CallDisconnect(t)
      PROVE  CounterInv'
  <2>1. /\ Go(t, "disconnect") /\ back' = [back EXCEPT ![t] = "idle"]
        /\ UNCHANGED <<send_error_counter, fails, server_sock, mode>>
        /\ pc[t] \in {"failed", "idle"}
    BY <1>2 DEF ConnectFailed, CallDisconnect, Step
  <2>2. /\ GivingUp(t)' <=> GivingUp(t)
        /\ back' \in [Tasks -> {"idle", "zero"}]
        /\ \A u \in Tasks : u # t => back'[u] = back[u]
    BY <2>1 DEF GivingUp, Go, CounterInv
  <2> QED
    BY <1>0, <2>1, <2>2, CounterMove
<1>3. ASSUME NEW t \in Tasks, Disconnect(t) \/ Close(t) \/ Closed(t)
      PROVE  CounterInv'
  <2>1. /\ UNCHANGED <<back, send_error_counter, mode>>
        /\ pc[t] \in {"disconnect", "close", "closed"}
        /\ \E step \in {"close", "closed", back[t]} : Go(t, step)
    BY <1>3 DEF Disconnect, Close, Closed, Step
  <2>2. /\ fails' = 0 \/ UNCHANGED <<fails, server_sock>>
        /\ server_sock' \in {-1, 0} \cup Fds
    BY <1>0, <1>3 DEF Disconnect, Close, Closed
  <2>3. PICK step \in {"close", "closed", back[t]} :
          Go(t, step) /\ (step = back[t] => fails' = 0)
    BY <1>3 DEF Disconnect, Close, Closed, CounterInv
  <2>4. /\ step \in PC \ {"send"} /\ (GivingUp(t)' <=> GivingUp(t))
        /\ step = "zero" => fails' = 0
    BY <2>1, <2>3 DEF GivingUp, Go, CounterInv
  <2>5. back' \in [Tasks -> {"idle", "zero"}] /\ \A u \in Tasks : back'[u] = back[u]
    BY <2>1 DEF CounterInv
  <2> QED
    BY <2>1, <2>2, <2>3, <2>4, <2>5, CounterMove
<1>4. ASSUME NEW t \in Tasks, CallWrite(t)
      PROVE  CounterInv'
  <2>1. /\ UNCHANGED <<back, send_error_counter, fails, server_sock, mode>>
        /\ pc[t] = "idle" /\ Go(t, "send") /\ t \in Senders
    BY <1>4 DEF CallWrite, Step
  <2>2. GivingUp(t)' <=> GivingUp(t)
    BY <2>1 DEF GivingUp, Go, CounterInv
  <2> QED
    BY <1>0, <2>1, <2>2, CounterMove DEF CounterInv
<1>5. ASSUME UNCHANGED <<pc, back, send_error_counter, fails, server_sock, mode>>
      PROVE  CounterInv'
  BY <1>5, CounterFrame
<1>6. ASSUME NEW m \in Modes, InitConnector(m)
      PROVE  CounterInv'
  <2>1. /\ UNCHANGED <<pc, back, send_error_counter, fails>>
        /\ mode = "none" /\ server_sock' = -1
    BY <1>6 DEF InitConnector, taskVars, histVars
  <2>2. fails = 0
    BY <2>1 DEF CounterInv
  <2> QED
    BY <2>1, <2>2 DEF CounterInv, GivingUp
<1>7. CASE Wifi
  BY <1>5, <1>7 DEF Wifi, taskVars, histVars, memberVars
<1>8. CASE EventLoop
  BY <1>5, <1>8, HandlersFrame
<1>9. CASE \E fd \in Fds : ConnectionLost(fd)
  BY <1>5, <1>9 DEF ConnectionLost, taskVars, histVars, memberVars
<1>10. CASE UNCHANGED vars
  BY <1>5, <1>10 DEF vars, taskVars, histVars, memberVars
<1> QED
  BY <1>1, <1>2, <1>3, <1>4, <1>6, <1>7, <1>8, <1>9, <1>10, CounterSend, CounterReset
     DEF Next, Inside

LEMMA IdleStep ==
  ASSUME IdleBeforeInit, [Next]_vars
  PROVE  IdleBeforeInit'
<1>1. ASSUME NEW m \in Modes, InitConnector(m)
      PROVE  IdleBeforeInit'
  BY <1>1, LimitsAssumption DEF InitConnector, IdleBeforeInit
<1>2. ASSUME mode' = mode, pc' = pc
      PROVE  IdleBeforeInit'
  BY <1>2 DEF IdleBeforeInit
<1>3. ASSUME NEW t \in Tasks, CallConnect(t) \/ CallDisconnect(t) \/ CallWrite(t)
      PROVE  IdleBeforeInit'
  BY <1>3 DEF CallConnect, CallDisconnect, CallWrite, Step, IdleBeforeInit
<1>4. ASSUME NEW t \in Tasks, Inside(t)
      PROVE  IdleBeforeInit'
  <2>1. mode' = mode /\ pc[t] # "idle"
    BY <1>4 DEF Inside, StartupDone, CheckWifi, PeerDone, PeerTimeout, Socket,
       ConnectSock, Connected, ConnectFailed, Disconnect, Close, Closed, SendOk,
       SendFailed, CounterZero, Step
  <2> QED
    BY <2>1 DEF IdleBeforeInit
<1>5. CASE Wifi
  BY <1>2, <1>5 DEF Wifi, taskVars, memberVars
<1>6. CASE EventLoop
  BY <1>2, <1>6, HandlersFrame
<1>7. CASE \E fd \in Fds : ConnectionLost(fd)
  BY <1>2, <1>7 DEF ConnectionLost, taskVars, memberVars
<1>8. CASE UNCHANGED vars
  BY <1>2, <1>8 DEF vars, taskVars, memberVars
<1> QED
  BY <1>1, <1>3, <1>4, <1>5, <1>6, <1>7, <1>8 DEF Next

\* No socket outlives the limit of failures in a row: the sender is then on its
\* way through the disconnect.
THEOREM GivesUp == Spec => []GivesUpInTime
<1>1. Init => CounterInv /\ IdleBeforeInit
  BY CounterInit DEF Init, IdleBeforeInit
<1>2. CounterInv => GivesUpInTime
  <2> SUFFICES ASSUME CounterInv PROVE GivesUpInTime
    OBVIOUS
  <2>1. fails <= Max /\ (fails = Max => send_error_counter = Max)
    BY LimitsAssumption DEF CounterInv, Max
  <2>2. fails = Max => \A t \in Tasks : pc[t] # "zero"
    BY LimitsAssumption DEF CounterInv, Max
  <2> QED
    BY <2>1, <2>2 DEF CounterInv, GivesUpInTime, Max
<1> QED
  BY <1>1, <1>2, IdleStep, CounterStep, PTL DEF Spec

----------------------------------------------------------------------------
(***************************************************************************)
(* Nothing announced is lost.  BitsNotLost alone is not inductive: it does *)
(* not say which task holds which bit, nor that a task that waits waits    *)
(* for the right ones.  A task holds what it is going to set again.        *)
(***************************************************************************)
StaWait  == [mask |-> GotIp, all |-> FALSE]
ApWait   == [mask |-> {"AP_STARTED_BIT"}, all |-> TRUE]
PeerWait == [mask |-> {"CLIENT_CONNECTED_BIT"}, all |-> TRUE]

\* What a task at each label may be blocked on.
WaitAt(t) == CASE pc[t] = "startup" -> IF mode = "STA_CL" THEN StaWait ELSE ApWait
               [] pc[t] = "peer"    -> PeerWait
               [] OTHER             -> NoWait

Holds(t, b) ==
  /\ ~Blocked(t)
  /\ \/ pc[t] = "startup" /\ mode = "STA_CL" /\ b \in ret[t]
     \/ pc[t] = "startup" /\ mode # "STA_CL" /\ b = "AP_STARTED_BIT"
     \/ pc[t] = "peer" /\ b = "CLIENT_CONNECTED_BIT"

EventsTyped == /\ pc \in [Tasks -> PC]
               /\ bits \subseteq Bits /\ told \subseteq Bits
               /\ wait \in [Tasks -> {NoWait, StaWait, ApWait, PeerWait}]
               /\ ret \in [Tasks -> SUBSET Bits]

WaitsRight == \A t \in Tasks : Blocked(t) => wait[t] = WaitAt(t)

\* A woken task has been given what it waited for.
WokenRight == \A t \in Tasks : \A b \in Bits :
                Holds(t, b) /\ ~(pc[t] = "startup" /\ mode = "STA_CL") => b \in ret[t]

NothingLost == \A b \in told : b \in bits \/ \E t \in Tasks : Holds(t, b)

EventsInv == EventsTyped /\ WaitsRight /\ WokenRight /\ NothingLost

LEMMA WaitsDiffer ==
  /\ StaWait # NoWait /\ ApWait # NoWait /\ PeerWait # NoWait
  /\ StaWait.mask = GotIp /\ ~StaWait.all
  /\ ApWait.mask = {"AP_STARTED_BIT"} /\ ApWait.all
  /\ PeerWait.mask = {"CLIENT_CONNECTED_BIT"} /\ PeerWait.all
  /\ NoWait.mask = {}
BY DEF StaWait, ApWait, PeerWait, NoWait, GotIp

\* What xEventGroupSetBits does to the bits and to every task.
LEMMA SetBitsEffect ==
  ASSUME EventsTyped, NEW B \in SUBSET Bits, set(B)
  PROVE  /\ bits' \subseteq Bits
         /\ wait' \in [Tasks -> {NoWait, StaWait, ApWait, PeerWait}]
         /\ ret' \in [Tasks -> SUBSET Bits]
         /\ \A t \in Tasks : \/ wait'[t] = wait[t] /\ ret'[t] = ret[t]
                             \/ /\ Satisfied(wait[t], bits \cup B)
                                /\ wait'[t] = NoWait /\ ret'[t] = bits \cup B
         /\ \A b \in bits \cup B :
              \/ b \in bits'
              \/ \E t \in Tasks : /\ Satisfied(wait[t], bits \cup B)
                                  /\ wait'[t] = NoWait /\ ret'[t] = bits \cup B
                                  /\ b \in wait[t].mask
BY DEF set, SetBits, EventsTyped

\* A woken task holds every bit that its wait has cleared.
LEMMA WokenHolds ==
  ASSUME EventsTyped, WaitsRight, NEW t \in Tasks, NEW v \in SUBSET Bits,
         Satisfied(wait[t], v),
         wait'[t] = NoWait, ret'[t] = v, pc'[t] = pc[t], mode' = mode
  PROVE  /\ \A b \in wait[t].mask \cap v : Holds(t, b)'
         /\ \A b \in Bits : Holds(t, b)' => b \in v
<1>1. Blocked(t)
  BY WaitsDiffer DEF Satisfied, Blocked
<1>2. wait[t] = WaitAt(t)
  BY <1>1 DEF WaitsRight
<1>3. pc[t] \in {"startup", "peer"}
  BY <1>1, <1>2 DEF WaitAt, Blocked
<1>4. CASE pc[t] = "startup" /\ mode = "STA_CL"
  BY <1>4 DEF Holds, Blocked
<1>5. CASE pc[t] = "startup" /\ mode # "STA_CL"
  <2>1. wait[t] = ApWait
    BY <1>2, <1>5 DEF WaitAt
  <2>2. wait[t].mask = {"AP_STARTED_BIT"} /\ "AP_STARTED_BIT" \in v
    BY <2>1, WaitsDiffer DEF Satisfied
  <2> QED
    BY <1>5, <2>2 DEF Holds, Blocked
<1>6. CASE pc[t] = "peer"
  <2>1. wait[t] = PeerWait
    BY <1>2, <1>6 DEF WaitAt
  <2>2. wait[t].mask = {"CLIENT_CONNECTED_BIT"} /\ "CLIENT_CONNECTED_BIT" \in v
    BY <2>1, WaitsDiffer DEF Satisfied
  <2> QED
    BY <1>6, <2>2 DEF Holds, Blocked
<1> QED
  BY <1>3, <1>4, <1>5, <1>6

\* Setting bits loses nothing: neither a handler that announces some, nor a
\* task that puts back what it holds and goes on.
LEMMA SetKeeps ==
  ASSUME EventsInv, NEW B \in SUBSET Bits, set(B), told' \subseteq told \cup B,
         mode' = mode, pc' \in [Tasks -> PC],
         \A u \in Tasks : \/ pc'[u] = pc[u]
                          \/ /\ ~Blocked(u) /\ pc'[u] \notin {"startup", "peer"}
                             /\ \A b \in Bits : Holds(u, b) => b \in B
  PROVE  EventsInv'
<1> DEFINE v == bits \cup B
<1>1. EventsTyped /\ WaitsRight /\ WokenRight /\ NothingLost
  BY DEF EventsInv
<1>2. v \in SUBSET Bits
  BY <1>1 DEF EventsTyped
<1> HIDE DEF v
<1>3. /\ \A t \in Tasks : \/ wait'[t] = wait[t] /\ ret'[t] = ret[t]
                          \/ /\ Satisfied(wait[t], v)
                             /\ wait'[t] = NoWait /\ ret'[t] = v
      /\ \A b \in v : \/ b \in bits'
                      \/ \E t \in Tasks : /\ Satisfied(wait[t], v)
                                          /\ wait'[t] = NoWait /\ ret'[t] = v
                                          /\ b \in wait[t].mask
  BY <1>1, SetBitsEffect DEF v
<1>4. EventsTyped'
  <2>1. /\ bits' \subseteq Bits
        /\ wait' \in [Tasks -> {NoWait, StaWait, ApWait, PeerWait}]
        /\ ret' \in [Tasks -> SUBSET Bits]
    BY <1>1, SetBitsEffect
  <2> QED
    BY <1>1, <2>1 DEF EventsTyped
<1>5. \A u \in Tasks : Satisfied(wait[u], v) => Blocked(u) /\ pc'[u] = pc[u]
  BY WaitsDiffer DEF Satisfied, Blocked
<1>6. WaitsRight'
  <2> SUFFICES ASSUME NEW u \in Tasks, Blocked(u)' PROVE (wait[u] = WaitAt(u))'
    BY DEF WaitsRight
  <2>1. wait'[u] = wait[u] /\ Blocked(u)
    BY <1>3 DEF Blocked
  <2>2. wait[u] = WaitAt(u) /\ pc'[u] = pc[u]
    BY <1>1, <2>1 DEF WaitsRight
  <2> QED
    BY <2>1, <2>2 DEF WaitAt
<1>7. WokenRight'
  <2> SUFFICES ASSUME NEW u \in Tasks, NEW b \in Bits, Holds(u, b)',
                      ~(pc'[u] = "startup" /\ mode' = "STA_CL")
               PROVE  b \in ret'[u]
    BY DEF WokenRight
  <2>1. pc'[u] = pc[u]
    BY DEF Holds
  <2>2. CASE wait'[u] = wait[u] /\ ret'[u] = ret[u]
    <3>1. Holds(u, b)
      BY <2>1, <2>2 DEF Holds, Blocked
    <3> QED
      BY <1>1, <2>1, <2>2, <3>1 DEF WokenRight
  <2>3. CASE Satisfied(wait[u], v) /\ wait'[u] = NoWait /\ ret'[u] = v
    BY <1>1, <1>2, <2>1, <2>3, WokenHolds
  <2> QED
    BY <1>3, <2>2, <2>3
<1>8. NothingLost'
  <2> SUFFICES ASSUME NEW b \in told', b \notin bits'
               PROVE  \E u \in Tasks : Holds(u, b)'
    BY DEF NothingLost
  <2>1. CASE b \in v
    <3>1. PICK u \in Tasks : /\ Satisfied(wait[u], v)
                             /\ wait'[u] = NoWait /\ ret'[u] = v
                             /\ b \in wait[u].mask
      BY <1>3, <2>1
    <3>2. pc'[u] = pc[u]
      BY <1>5, <3>1
    <3>3. Holds(u, b)'
      BY <1>1, <1>2, <2>1, <3>1, <3>2, WokenHolds
    <3> QED
      BY <3>3
  <2>2. CASE b \notin v
    <3>1. b \in told /\ b \notin bits /\ b \notin B
      BY <2>2 DEF v
    <3>2. PICK u \in Tasks : Holds(u, b)
      BY <1>1, <3>1 DEF NothingLost
    <3>3. pc'[u] = pc[u] /\ ~Blocked(u)
      BY <1>1, <3>1, <3>2 DEF Holds, EventsTyped
    <3>4. wait'[u] = wait[u] /\ ret'[u] = ret[u]
      BY <1>3, <1>5, <3>3
    <3>5. Holds(u, b)'
      BY <3>2, <3>3, <3>4 DEF Holds, Blocked
    <3> QED
      BY <3>5
  <2> QED
    BY <2>1, <2>2
<1> QED
  BY <1>4, <1>6, <1>7, <1>8 DEF EventsInv

\* Withdrawing a bit.
LEMMA ClearKeeps ==
  ASSUME EventsInv, NEW B \in SUBSET Bits, clear(B), told' = told \ B,
         UNCHANGED <<mode, pc>>
  PROVE  EventsInv'
<1>1. \A u \in Tasks : \A b : (Holds(u, b)' <=> Holds(u, b)) /\ (Blocked(u)' <=> Blocked(u))
  BY DEF clear, ClearBits, Holds, Blocked
<1>2. EventsTyped'
  BY DEF EventsInv, EventsTyped, clear, ClearBits
<1>3. WaitsRight' /\ WokenRight'
  BY <1>1 DEF EventsInv, WaitsRight, WokenRight, WaitAt, clear, ClearBits
<1>4. NothingLost'
  BY <1>1 DEF EventsInv, NothingLost, clear, ClearBits
<1> QED
  BY <1>2, <1>3, <1>4 DEF EventsInv

\* A task outside of the waits moves to another label outside of them.
LEMMA MoveKeeps ==
  ASSUME EventsInv, UNCHANGED <<eventVars, told>>,
         mode' = mode \/ \A u \in Tasks : pc[u] \notin {"startup", "peer"},
         pc' \in [Tasks -> PC],
         \A u \in Tasks : \/ pc'[u] = pc[u]
                          \/ {pc[u], pc'[u]} \cap {"startup", "peer"} = {}
  PROVE  EventsInv'
<1>1. \A u \in Tasks : \A b : (Holds(u, b)' <=> Holds(u, b)) /\ (Blocked(u)' <=> Blocked(u))
  BY DEF eventVars, Holds, Blocked
<1>2. EventsTyped'
  BY DEF EventsInv, EventsTyped, eventVars
<1>3. \A u \in Tasks : WaitAt(u)' = WaitAt(u)
  BY DEF WaitAt
<1>4. WaitsRight'
  BY <1>1, <1>3 DEF EventsInv, WaitsRight, eventVars
<1>5. WokenRight'
  BY <1>1 DEF EventsInv, WokenRight, Holds, eventVars
<1>6. NothingLost'
  BY <1>1 DEF EventsInv, NothingLost, eventVars
<1> QED
  BY <1>2, <1>4, <1>5, <1>6 DEF EventsInv

\* A task begins to wait.
LEMMA EnterKeeps ==
  ASSUME EventsInv, NEW t \in Tasks, pc[t] \notin {"startup", "peer"},
         NEW label \in {"startup", "peer"}, Go(t, label), UNCHANGED <<mode, told>>,
         NEW w \in {StaWait, ApWait, PeerWait}, w = WaitAt(t)', WaitBits(t, w)
  PROVE  EventsInv'
<1>1. EventsTyped /\ WaitsRight /\ WokenRight /\ NothingLost
  BY DEF EventsInv
<1>2. /\ pc' \in [Tasks -> PC] /\ pc'[t] = label
      /\ \A u \in Tasks : u # t => pc'[u] = pc[u]
  BY <1>1 DEF EventsTyped, Go, PC
<1>3. wait[t] = NoWait
  BY <1>1 DEF WaitsRight, WaitAt, Blocked
<1>4. w # NoWait /\ w.mask \subseteq Bits
  BY WaitsDiffer, TasksAssumption DEF GotIp, AllBits
<1>5. \A u \in Tasks : u # t => wait'[u] = wait[u] /\ ret'[u] = ret[u]
  BY <1>1 DEF WaitBits, EventsTyped
<1>6. \A u \in Tasks : \A b : u # t => (Holds(u, b)' <=> Holds(u, b))
  BY <1>2, <1>5 DEF Holds, Blocked
<1>7. EventsTyped'
  BY <1>1, <1>2 DEF EventsTyped, WaitBits
<1>8. CASE Satisfied(w, bits)
  <2>1. wait' = wait /\ bits' = bits \ w.mask /\ ret'[t] = bits
    BY <1>1, <1>8 DEF WaitBits, EventsTyped
  <2>2. WaitsRight'
    BY <1>1, <1>2, <1>3, <2>1 DEF WaitsRight, WaitAt, Blocked
  <2>3. CASE w = StaWait
    <3>1. label = "startup" /\ mode' = "STA_CL"
      BY <1>2, <2>3, WaitsDiffer DEF WaitAt
    <3>2. \A b \in bits : Holds(t, b)'
      BY <1>2, <1>3, <2>1, <3>1 DEF Holds, Blocked
    <3>3. WokenRight'
      BY <1>1, <1>2, <1>5, <1>6, <3>1 DEF WokenRight
    <3>4. NothingLost'
      BY <1>1, <1>2, <1>6, <2>1, <3>2 DEF NothingLost, Holds
    <3> QED
      BY <1>7, <2>2, <3>3, <3>4 DEF EventsInv
  <2>4. CASE w # StaWait
    <3>1. PICK a : w.mask = {a} /\ a \in bits /\ \A b : Holds(t, b)' <=> b = a
      <4>1. CASE w = ApWait
        <5>1. label = "startup" /\ mode' # "STA_CL"
          BY <1>2, <2>4, <4>1, WaitsDiffer DEF WaitAt
        <5>2. \A b : Holds(t, b)' <=> b = "AP_STARTED_BIT"
          BY <1>2, <1>3, <2>1, <5>1 DEF Holds, Blocked
        <5> QED
          BY <1>8, <4>1, <5>2, WaitsDiffer DEF Satisfied
      <4>2. CASE w = PeerWait
        <5>1. label = "peer"
          BY <1>2, <2>4, <4>2, WaitsDiffer DEF WaitAt
        <5>2. \A b : Holds(t, b)' <=> b = "CLIENT_CONNECTED_BIT"
          BY <1>2, <1>3, <2>1, <5>1 DEF Holds, Blocked
        <5> QED
          BY <1>8, <4>2, <5>2, WaitsDiffer DEF Satisfied
      <4> QED
        BY <2>4, <4>1, <4>2
    <3>2. WokenRight'
      BY <1>1, <1>2, <1>5, <1>6, <2>1, <3>1 DEF WokenRight
    <3>3. NothingLost'
      BY <1>1, <1>2, <1>6, <2>1, <3>1 DEF NothingLost, Holds
    <3> QED
      BY <1>7, <2>2, <3>2, <3>3 DEF EventsInv
  <2> QED
    BY <2>3, <2>4
<1>9. CASE ~Satisfied(w, bits)
  <2>1. wait' = [wait EXCEPT ![t] = w] /\ bits' = bits /\ ret' = ret
    BY <1>9 DEF WaitBits
  <2>2. wait'[t] = w
    BY <1>1, <2>1 DEF EventsTyped
  <2>3. WaitsRight'
    BY <1>1, <1>2, <1>5, <2>2 DEF WaitsRight, WaitAt, Blocked
  <2>4. \A b : ~Holds(t, b)'
    BY <1>4, <2>2 DEF Holds, Blocked
  <2>5. WokenRight'
    BY <1>1, <1>2, <1>6, <2>1, <2>4 DEF WokenRight
  <2>6. NothingLost'
    BY <1>1, <1>2, <1>6, <2>1 DEF NothingLost, Holds
  <2> QED
    BY <1>7, <2>3, <2>5, <2>6 DEF EventsInv
<1> QED
  BY <1>8, <1>9

\* A task stops waiting for the client because the time is over.
LEMMA TimeoutKeeps ==
  ASSUME EventsInv, NEW t \in Tasks, PeerTimeout(t)
  PROVE  EventsInv'
<1>1. EventsTyped /\ WaitsRight /\ WokenRight /\ NothingLost
  BY DEF EventsInv
<1>2. /\ pc' \in [Tasks -> PC] /\ pc'[t] = "idle" /\ mode' = mode /\ told' = told
      /\ \A u \in Tasks : u # t => pc'[u] = pc[u]
  BY <1>1 DEF PeerTimeout, Step, Go, PC, EventsTyped
<1>3. /\ bits' = bits /\ wait'[t] = NoWait
      /\ \A u \in Tasks : u # t => wait'[u] = wait[u] /\ ret'[u] = ret[u]
  BY <1>1 DEF PeerTimeout, WaitTimeout, EventsTyped
<1>4. EventsTyped'
  BY <1>1, <1>2 DEF EventsTyped, PeerTimeout, WaitTimeout
<1>5. \A b : ~Holds(t, b)' /\ ~Holds(t, b)
  BY <1>2 DEF Holds, PeerTimeout
<1>6. \A u \in Tasks : \A b : Holds(u, b)' <=> Holds(u, b)
  BY <1>2, <1>3, <1>5 DEF Holds, Blocked
<1>7. WaitsRight'
  BY <1>1, <1>2, <1>3 DEF WaitsRight, WaitAt, Blocked
<1>8. WokenRight'
  BY <1>1, <1>2, <1>3, <1>5, <1>6 DEF WokenRight
<1>9. NothingLost'
  BY <1>1, <1>2, <1>3, <1>6 DEF NothingLost
<1> QED
  BY <1>4, <1>7, <1>8, <1>9 DEF EventsInv

\* The steps of the event loop task.
LEMMA HandlersKeep ==
  ASSUME EventsInv, EventLoop
  PROVE  EventsInv'
<1>1. pc' = pc /\ mode' = mode /\ pc' \in [Tasks -> PC]
  BY HandlersFrame DEF EventsInv, EventsTyped
<1>2. CASE UNCHANGED <<eventVars, told>>
  BY <1>1, <1>2, MoveKeeps
<1>3. ASSUME NEW b \in Bits, set({b}), told' = told \cup {b}
      PROVE  EventsInv'
  BY <1>1, <1>3, SetKeeps
<1>4. ASSUME NEW b \in Bits, clear({b}), told' = told \ {b}
      PROVE  EventsInv'
  BY <1>1, <1>4, ClearKeeps
<1>5. {"IPV4_GOTIP_BIT", "IPV6_GOTIP_BIT", "AP_STARTED_BIT", "CLIENT_CONNECTED_BIT",
       "CLIENT_DISCONNECTED_BIT"} = Bits
  BY TasksAssumption DEF AllBits, GotIp
<1>6. CASE GotIp4 \/ GotIp6 \/ ApStart \/ ApStaAnnounce \/ ApStaDisconnected
  BY <1>3, <1>5, <1>6 DEF GotIp4, GotIp6, ApStart, ApStaAnnounce, ApStaDisconnected
<1>7. CASE StaDisconnected \/ StaDisconnectedIp6
  BY <1>4, <1>5, <1>7 DEF StaDisconnected, StaDisconnectedIp6
<1>8. CASE StaStart \/ StaConnected \/ GotIp4Store \/ GotIp4Length \/ ApStaConnected
  BY <1>2, <1>8 DEF StaStart, StaConnected, GotIp4Store, GotIp4Length, ApStaConnected
<1>9. CASE ApStaConnectedLater \/ ApStaLists \/ ApStaWifiOff \/ ApStaTcpOff
  BY <1>2, <1>9 DEF ApStaConnectedLater, ApStaLists, ApStaWifiOff, ApStaTcpOff
<1> QED
  BY <1>6, <1>7, <1>8, <1>9 DEF EventLoop

\* The two steps that put bits back.
LEMMA PutBackKeeps ==
  ASSUME EventsInv, NEW t \in Tasks, StartupDone(t) \/ PeerDone(t)
  PROVE  EventsInv'
<1>1. EventsTyped /\ WokenRight
  BY DEF EventsInv
<1>2. /\ ~Blocked(t) /\ mode' = mode /\ told' = told
      /\ \E step \in {"checkWifi", "socket"} : Go(t, step)
  BY DEF StartupDone, PeerDone, Step
<1>3. /\ pc' \in [Tasks -> PC] /\ pc'[t] \notin {"startup", "peer"}
      /\ \A u \in Tasks : u # t => pc'[u] = pc[u]
  BY <1>1, <1>2 DEF Go, PC, EventsTyped
<1>4. {"AP_STARTED_BIT", "CLIENT_CONNECTED_BIT"} \subseteq Bits /\ ret[t] \subseteq Bits
  BY <1>1, TasksAssumption DEF AllBits, EventsTyped
<1>5. ASSUME NEW B \in SUBSET Bits, set(B), \A b \in Bits : Holds(t, b) => b \in B
      PROVE  EventsInv'
  <2>1. \A u \in Tasks : \/ pc'[u] = pc[u]
                         \/ /\ ~Blocked(u) /\ pc'[u] \notin {"startup", "peer"}
                            /\ \A b \in Bits : Holds(u, b) => b \in B
    BY <1>2, <1>3, <1>5
  <2> QED
    BY <1>2, <1>3, <1>5, <2>1, SetKeeps
<1>6. CASE StartupDone(t)
  <2>1. pc[t] = "startup"
    BY <1>6 DEF StartupDone, Step
  <2>2. CASE mode = "STA_CL"
    BY <1>4, <1>5, <1>6, <2>1, <2>2 DEF StartupDone, Holds
  <2>3. CASE mode # "STA_CL"
    BY <1>4, <1>5, <1>6, <2>1, <2>3 DEF StartupDone, Holds
  <2> QED
    BY <2>2, <2>3
<1>7. CASE PeerDone(t)
  <2>1. pc[t] = "peer"
    BY <1>7 DEF PeerDone, Step
  <2> QED
    BY <1>4, <1>5, <1>7, <2>1 DEF PeerDone, Holds
<1> QED
  BY <1>6, <1>7

\* The two steps that begin to wait.
LEMMA CallsKeep ==
  ASSUME EventsInv, NEW t \in Tasks, CallConnect(t) \/ CheckWifi(t)
  PROVE  EventsInv'
<1>1. EventsTyped
  BY DEF EventsInv
<1>2. mode' = mode /\ told' = told /\ pc[t] \in {"idle", "checkWifi"}
  BY DEF CallConnect, CheckWifi, Step
<1>3. ASSUME NEW step \in {"checkWifi", "socket"}, Go(t, step), UNCHANGED eventVars
      PROVE  EventsInv'
  <2>1. /\ pc' \in [Tasks -> PC]
        /\ \A u \in Tasks : \/ pc'[u] = pc[u]
                            \/ {pc[u], pc'[u]} \cap {"startup", "peer"} = {}
    BY <1>1, <1>2, <1>3 DEF Go, PC, EventsTyped
  <2> QED
    BY <1>2, <1>3, <2>1, MoveKeeps
<1>4. ASSUME NEW label \in {"startup", "peer"}, Go(t, label)
      PROVE  pc'[t] = label
  BY <1>1, <1>4 DEF Go, EventsTyped
<1>5. CASE CallConnect(t)
  <2>1. CASE mode = "STA_CL"
    <3>1. Go(t, "startup") /\ WaitBits(t, StaWait)
      BY <1>5, <2>1 DEF CallConnect, wait_for_one, StaWait
    <3>2. StaWait = WaitAt(t)'
      BY <1>2, <1>4, <2>1, <3>1 DEF WaitAt
    <3> QED
      BY <1>2, <3>1, <3>2, EnterKeeps
  <2>2. CASE mode = "AP_CL"
    <3>1. Go(t, "startup") /\ WaitBits(t, ApWait)
      BY <1>5, <2>2 DEF CallConnect, wait_for, ApWait
    <3>2. ApWait = WaitAt(t)'
      BY <1>2, <1>4, <2>2, <3>1 DEF WaitAt
    <3> QED
      BY <1>2, <3>1, <3>2, EnterKeeps
  <2>3. CASE mode \notin {"STA_CL", "AP_CL"}
    BY <1>3, <1>5, <2>3 DEF CallConnect
  <2> QED
    BY <2>1, <2>2, <2>3
<1>6. CASE CheckWifi(t)
  <2>1. CASE wifi_connected
    BY <1>3, <1>6, <2>1 DEF CheckWifi
  <2>2. CASE ~wifi_connected
    <3>1. Go(t, "peer") /\ WaitBits(t, PeerWait)
      BY <1>6, <2>2 DEF CheckWifi, wait_for, PeerWait
    <3>2. PeerWait = WaitAt(t)'
      BY <1>4, <3>1 DEF WaitAt
    <3> QED
      BY <1>2, <3>1, <3>2, EnterKeeps
  <2> QED
    BY <2>1, <2>2
<1> QED
  BY <1>5, <1>6

LEMMA EventsStep ==
  ASSUME EventsInv, IdleBeforeInit, CounterInv, [Next]_vars
  PROVE  EventsInv'
<1>1. EventsTyped /\ pc \in [Tasks -> PC] /\ back \in [Tasks -> {"idle", "zero"}]
  BY DEF EventsInv, EventsTyped, CounterInv
<1>2. ASSUME UNCHANGED <<eventVars, told, mode, pc>>
      PROVE  EventsInv'
  BY <1>1, <1>2, MoveKeeps
<1>3. ASSUME NEW m \in Modes, InitConnector(m)
      PROVE  EventsInv'
  <2>1. UNCHANGED <<eventVars, told, pc>> /\ \A u \in Tasks : pc[u] = "idle"
    BY <1>3 DEF InitConnector, IdleBeforeInit, taskVars, histVars
  <2> QED
    BY <1>1, <2>1, MoveKeeps
<1>4. ASSUME NEW t \in Tasks,
             CallDisconnect(t) \/ CallWrite(t) \/ Socket(t) \/ ConnectSock(t)
               \/ Connected(t) \/ ConnectFailed(t) \/ Disconnect(t) \/ Close(t)
               \/ Closed(t) \/ SendOk(t) \/ SendFailed(t) \/ CounterZero(t)
      PROVE  EventsInv'
  <2>1. UNCHANGED <<eventVars, told, mode>> /\ pc[t] \notin {"startup", "peer"}
    BY <1>4 DEF CallDisconnect, CallWrite, Socket, ConnectSock, Connected,
       ConnectFailed, Disconnect, Close, Closed, SendOk, SendFailed, CounterZero, Step
  <2>2. \E step \in PC \ {"startup", "peer"} : Go(t, step)
    <3>1. back[t] \in PC \ {"startup", "peer"}
      BY <1>1 DEF PC
    <3> QED
      BY <1>4, <3>1 DEF CallDisconnect, CallWrite, Socket, ConnectSock, Connected,
         ConnectFailed, Disconnect, Close, Closed, SendOk, SendFailed, CounterZero, PC
  <2>3. PICK step \in PC \ {"startup", "peer"} : Go(t, step)
    BY <2>2
  <2>4. /\ pc' \in [Tasks -> PC]
        /\ \A u \in Tasks : \/ pc'[u] = pc[u]
                            \/ {pc[u], pc'[u]} \cap {"startup", "peer"} = {}
    BY <1>1, <2>1, <2>3 DEF Go
  <2> QED
    BY <2>1, <2>4, MoveKeeps
<1>5. CASE Wifi
  BY <1>2, <1>5 DEF Wifi, taskVars, memberVars, histVars
<1>6. CASE \E fd \in Fds : ConnectionLost(fd)
  BY <1>2, <1>6 DEF ConnectionLost, taskVars, memberVars, histVars
<1>7. CASE UNCHANGED vars
  BY <1>2, <1>7 DEF vars, taskVars, memberVars, histVars
<1> QED
  BY <1>3, <1>4, <1>5, <1>6, <1>7, HandlersKeep, PutBackKeeps, CallsKeep, TimeoutKeeps
     DEF Next, Inside

LEMMA EventsInit == Init => EventsInv /\ IdleBeforeInit
<1> SUFFICES ASSUME Init PROVE EventsInv /\ IdleBeforeInit
  OBVIOUS
<1>1. EventsTyped /\ \A t \in Tasks : ~Blocked(t) /\ pc[t] = "idle"
  BY DEF Init, EventInit, EventsTyped, Blocked, PC
<1> QED
  BY <1>1 DEF Init, EventsInv, WaitsRight, WokenRight, NothingLost, Holds, IdleBeforeInit

\* Whatever the handlers have announced is in the event group, or a woken
\* task has it and puts it back, for any number of tasks that connect.
THEOREM NothingAnnouncedIsLost == Spec => []BitsNotLost
<1>1. EventsInv => BitsNotLost
  BY DEF EventsInv, EventsTyped, WokenRight, NothingLost, BitsNotLost, Holds
<1> QED
  BY <1>1, EventsInit, CounterInit, CounterStep, IdleStep, EventsStep, PTL DEF Spec

----------------------------------------------------------------------------
(***************************************************************************)
(* Types.  What the two invariants above do not say yet: the events and    *)
(* the handler carry lengths of address texts, the loops that look for the *)
(* end of a text stop inside of the member, and an established connection  *)
(* has a socket.                                                           *)
(***************************************************************************)
Posted == Seq([name : EventNames, len : 0 .. 15])

SockTyped == /\ mode \in {"none", "OFF", "STA_CL", "AP_CL"}
             /\ server_sock \in {-1, 0} \cup Fds
             /\ tcp_connected \in BOOLEAN /\ wifi_connected \in BOOLEAN
             /\ open \subseteq Fds /\ up \subseteq open

WifiTyped == /\ handler \in [step : HandlerSteps, len : 0 .. 15]
             /\ link \in {"off", "down", "joining", "up"}
             /\ events \in Posted /\ posted \in 0 .. MaxEvents
             /\ ipAddress \in 0 .. 15 /\ ipAddressLen \in 0 .. 15
             /\ ipAddressClient \in 0 .. 15 /\ ipAddressClientLen \in 0 .. 15

LEMMA PostTyped ==
  ASSUME WifiTyped, NEW e \in [name : EventNames, len : 0 .. 15], Post(e)
  PROVE  events' \in Posted /\ posted' \in 0 .. MaxEvents
BY LimitsAssumption DEF WifiTyped, Post, Posted

LEMMA HeadTail == ASSUME NEW S, NEW q \in Seq(S), q # <<>>
                  PROVE  Tail(q) \in Seq(S) /\ Head(q) \in S
OBVIOUS

\* The three events of the driver, and those that init posts.
LEMMA WifiStepTyped ==
  ASSUME WifiTyped, Wifi \/ \E m \in Modes : InitConnector(m)
  PROVE  WifiTyped'
<1>1. \A name \in EventNames : Event(name) \in [name : EventNames, len : 0 .. 15]
  BY DEF Event
<1>2. ASSUME NEW name \in EventNames, Post(Event(name)), UNCHANGED <<handler, ipVars>>,
             link' \in {"down", "up", link}
      PROVE  WifiTyped'
  <2>1. events' \in Posted /\ posted' \in 0 .. MaxEvents
    BY <1>1, <1>2, PostTyped
  <2> QED
    BY <1>2, <2>1 DEF WifiTyped, ipVars
<1>3. CASE LinkUp /\ UNCHANGED <<handler, ipVars>>
  BY <1>2, <1>3 DEF LinkUp, EventNames
<1>4. CASE LinkDown /\ UNCHANGED <<handler, ipVars>>
  BY <1>2, <1>4 DEF LinkDown, EventNames
<1>5. CASE Address /\ UNCHANGED <<handler, ipVars>>
  <2>1. ASSUME NEW n \in AddrLens, Post([name |-> "GOT_IP", len |-> n])
        PROVE  events' \in Posted /\ posted' \in 0 .. MaxEvents
    <3>1. [name |-> "GOT_IP", len |-> n] \in [name : EventNames, len : 0 .. 15]
      BY LimitsAssumption DEF EventNames
    <3> QED
      BY <2>1, <3>1, PostTyped
  <2>2. CASE \E n \in AddrLens : Post([name |-> "GOT_IP", len |-> n])
    BY <1>5, <2>1, <2>2 DEF Address, WifiTyped, ipVars
  <2>3. CASE Post(Event("GOT_IP6"))
    BY <1>2, <1>5, <2>3 DEF Address, EventNames
  <2> QED
    BY <1>5, <2>2, <2>3 DEF Address
<1>6. ASSUME NEW m \in Modes, InitConnector(m)
      PROVE  WifiTyped'
  <2>1. UNCHANGED <<handler, ipVars>> /\ m \in {"OFF", "STA_CL", "AP_CL"}
    BY <1>6, LimitsAssumption DEF InitConnector
  <2>2. CASE m = "OFF"
    BY <1>6, <2>1, <2>2 DEF InitConnector, WifiTyped, ipVars
  <2>3. CASE m = "STA_CL"
    BY <1>2, <1>6, <2>1, <2>3 DEF InitConnector, EventNames
  <2>4. CASE m = "AP_CL"
    BY <1>2, <1>6, <2>1, <2>4 DEF InitConnector, EventNames
  <2> QED
    BY <2>1, <2>2, <2>3, <2>4
<1> QED
  BY <1>3, <1>4, <1>5, <1>6 DEF Wifi

LEMMA HandlersTyped ==
  ASSUME WifiTyped, EventLoop
  PROVE  WifiTyped'
<1>1. ASSUME events # <<>>
      PROVE  /\ Tail(events) \in Posted
             /\ Head(events) \in [name : EventNames, len : 0 .. 15]
  BY <1>1, HeadTail DEF WifiTyped, Posted
<1>2. \A n \in 0 .. 15, old \in 0 .. 15 : GrownLen(old, n) \in 0 .. 15
  BY DEF GrownLen
<1>3. \A step \in HandlerSteps :
        [Idle EXCEPT !.step = step] \in [step : HandlerSteps, len : 0 .. 15]
  BY DEF Idle
<1>4. Idle \in [step : HandlerSteps, len : 0 .. 15]
  BY DEF Idle, HandlerSteps
<1>5. {"clearIp6", "ipLen", "delay", "lists", "announce", "wifiOff", "tcpOff"}
        \subseteq HandlerSteps
  BY DEF HandlerSteps
<1>6. CASE StaStart \/ StaConnected \/ GotIp6 \/ ApStart
  BY <1>1, <1>6 DEF StaStart, StaConnected, GotIp6, ApStart, Handle, WifiTyped, ipVars
<1>7. CASE StaDisconnected \/ ApStaConnected \/ ApStaDisconnected
  BY <1>1, <1>3, <1>5, <1>7 DEF StaDisconnected, ApStaConnected, ApStaDisconnected,
     Handle, WifiTyped, ipVars
<1>8. CASE GotIp4
  BY <1>1, <1>8 DEF GotIp4, Handle, WifiTyped, ipVars, HandlerSteps
<1>9. CASE StaDisconnectedIp6 \/ ApStaAnnounce
  BY <1>4, <1>9 DEF StaDisconnectedIp6, ApStaAnnounce, HandlerContinues, WifiTyped, ipVars
<1>10. CASE GotIp4Store
  <2>1. handler.len \in 0 .. 15
    BY DEF WifiTyped
  <2> QED
    BY <1>3, <1>5, <1>10, <2>1 DEF GotIp4Store, HandlerContinues, WifiTyped
<1>11. CASE GotIp4Length
  BY <1>2, <1>4, <1>11 DEF GotIp4Length, HandlerContinues, WifiTyped
<1>12. CASE ApStaConnectedLater \/ ApStaWifiOff
  BY <1>3, <1>5, <1>12 DEF ApStaConnectedLater, ApStaWifiOff, HandlerContinues, WifiTyped,
     ipVars
<1>13. CASE ApStaTcpOff
  BY <1>4, <1>13 DEF ApStaTcpOff, HandlerContinues, WifiTyped, ipVars
<1>14. CASE ApStaLists
  <2>1. \A n \in AddrLens : n \in 0 .. 15
    BY LimitsAssumption
  <2>2. handler' \in [step : HandlerSteps, len : 0 .. 15]
    BY <1>3, <1>4, <1>5, <1>14 DEF ApStaLists
  <2>3. ipAddressClient' \in 0 .. 15 /\ ipAddressClientLen' \in 0 .. 15
    BY <1>2, <1>14, <2>1 DEF ApStaLists, WifiTyped
  <2> QED
    BY <1>14, <2>2, <2>3 DEF ApStaLists, HandlerContinues, WifiTyped
<1> QED
  BY <1>6, <1>7, <1>8, <1>9, <1>10, <1>11, <1>12, <1>13, <1>14 DEF EventLoop

LEMMA WifiTypedStep ==
  ASSUME WifiTyped, [Next]_vars
  PROVE  WifiTyped'
<1>1. ASSUME UNCHANGED <<wifiVars, ipVars>>
      PROVE  WifiTyped'
  BY <1>1 DEF WifiTyped, wifiVars, ipVars
<1>2. ASSUME NEW t \in Tasks,
             CallConnect(t) \/ CallDisconnect(t) \/ CallWrite(t) \/ Inside(t)
      PROVE  WifiTyped'
  BY <1>1, <1>2 DEF CallConnect, CallDisconnect, CallWrite, Inside, StartupDone,
     CheckWifi, PeerDone, PeerTimeout, Socket, ConnectSock, Connected, ConnectFailed,
     Disconnect, Close, Closed, SendOk, SendFailed, CounterZero, Step
<1>3. CASE \E fd \in Fds : ConnectionLost(fd)
  BY <1>1, <1>3 DEF ConnectionLost
<1>4. CASE UNCHANGED vars
  BY <1>1, <1>4 DEF vars
<1> QED
  BY <1>2, <1>3, <1>4, WifiStepTyped, HandlersTyped DEF Next

LEMMA SockTypedStep ==
  ASSUME SockTyped, [Next]_vars
  PROVE  SockTyped'
<1>1. ASSUME UNCHANGED <<memberVars, sockVars>>
      PROVE  SockTyped'
  BY <1>1 DEF SockTyped, memberVars, sockVars
<1>2. ASSUME NEW m \in Modes, InitConnector(m)
      PROVE  SockTyped'
  BY <1>2, LimitsAssumption DEF InitConnector, SockTyped, sockVars
<1>3. CASE Wifi
  BY <1>1, <1>3 DEF Wifi
<1>4. CASE ApStaConnectedLater \/ ApStaWifiOff \/ ApStaTcpOff
  BY <1>4 DEF ApStaConnectedLater, ApStaWifiOff, ApStaTcpOff, HandlerContinues, SockTyped,
     sockVars
<1>5. CASE StaStart \/ StaConnected \/ StaDisconnected \/ StaDisconnectedIp6 \/ GotIp4
           \/ GotIp4Store
  BY <1>1, <1>5 DEF StaStart, StaConnected, StaDisconnected, StaDisconnectedIp6, GotIp4,
     GotIp4Store, Handle, HandlerContinues
<1>6. CASE GotIp4Length \/ GotIp6 \/ ApStart \/ ApStaConnected \/ ApStaLists
           \/ ApStaAnnounce \/ ApStaDisconnected
  BY <1>1, <1>6 DEF GotIp4Length, GotIp6, ApStart, ApStaConnected, ApStaLists,
     ApStaAnnounce, ApStaDisconnected, Handle, HandlerContinues
<1>7. ASSUME NEW t \in Tasks,
             CallConnect(t) \/ StartupDone(t) \/ CheckWifi(t) \/ PeerDone(t)
               \/ PeerTimeout(t) \/ CallDisconnect(t) \/ Disconnect(t) \/ CallWrite(t)
               \/ SendOk(t) \/ SendFailed(t) \/ CounterZero(t)
      PROVE  SockTyped'
  BY <1>7 DEF CallConnect, StartupDone, CheckWifi, PeerDone, PeerTimeout, CallDisconnect,
     Disconnect, CallWrite, SendOk, SendFailed, CounterZero, Step, SockTyped, sockVars
<1>8. ASSUME NEW t \in Tasks,
             Socket(t) \/ ConnectSock(t) \/ Connected(t) \/ ConnectFailed(t)
               \/ Close(t) \/ Closed(t)
      PROVE  SockTyped'
  BY <1>8 DEF Socket, ConnectSock, Connected, ConnectFailed, Close, Closed, Step,
     SockTyped, sockVars
<1>9. CASE \E fd \in Fds : ConnectionLost(fd)
  BY <1>9 DEF ConnectionLost, SockTyped, memberVars
<1>10. CASE UNCHANGED vars
  BY <1>1, <1>10 DEF vars
<1> QED
  BY <1>2, <1>3, <1>4, <1>5, <1>6, <1>7, <1>8, <1>9, <1>10 DEF Next, Inside, EventLoop

\* Every variable keeps its type: the addresses stay within their members, an
\* established connection has a socket, and the event group has only its bits.
THEOREM TypeCorrect == Spec => []TypeOK
<1>1. Init => /\ EventsInv /\ IdleBeforeInit /\ CounterInv
              /\ SockTyped /\ WifiTyped
  <2> SUFFICES ASSUME Init PROVE SockTyped /\ WifiTyped
    BY CounterInit, EventsInit
  <2>1. SockTyped
    BY DEF Init, SockTyped
  <2>2. events \in Posted
    BY DEF Init, Posted
  <2>3. WifiTyped
    BY <2>2, LimitsAssumption DEF Init, WifiTyped, Idle, HandlerSteps
  <2> QED
    BY <2>1, <2>3
<1>2. EventsInv /\ CounterInv /\ SockTyped /\ WifiTyped => TypeOK
  <2> SUFFICES ASSUME EventsInv, CounterInv, SockTyped, WifiTyped PROVE TypeOK
    OBVIOUS
  <2>1. {NoWait, StaWait, ApWait, PeerWait} \subseteq [mask : SUBSET Bits, all : BOOLEAN]
    BY TasksAssumption DEF NoWait, StaWait, ApWait, PeerWait, AllBits, GotIp
  <2>2. wait \in [Tasks -> [mask : SUBSET Bits, all : BOOLEAN]]
    BY <2>1 DEF EventsInv, EventsTyped
  <2>3. EventTypeOK /\ told \subseteq Bits
    BY <2>2 DEF EventsInv, EventsTyped, EventTypeOK
  <2>4. /\ pc \in [Tasks -> PC] /\ back \in [Tasks -> {"idle", "zero"}]
        /\ send_error_counter \in 0 .. SEND_FAIL_MAX_FOR_DISCONNECT
    BY DEF CounterInv, Max
  <2>5. {ipAddress, ipAddressLen, ipAddressClient, ipAddressClientLen} \subseteq 0 .. 15
    BY DEF WifiTyped
  <2> QED
    BY <2>3, <2>4, <2>5 DEF SockTyped, WifiTyped, Posted, TypeOK
<1> QED
  BY <1>1, <1>2, CounterStep, IdleStep, EventsStep, SockTypedStep, WifiTypedStep, PTL
     DEF Spec

----------------------------------------------------------------------------
(***************************************************************************)
(* One socket.  If one task does everything and connects only when         *)
(* is_connected() is false, the global socket and the sockets of lwIP      *)
(* agree, but for the moment between close() and server_sock = -1.         *)
(***************************************************************************)
Alone ==
  /\ pc \in [Tasks -> PC] /\ back \in [Tasks -> {"idle", "zero"}]
  /\ server_sock \in {-1, 0} \cup Fds
  /\ \A t \in Tasks \ {c} : pc[t] = "idle"
  /\ server_sock = 0 <=> mode = "none"
  /\ mode = "none" => pc[c] = "idle"
  /\ open = IF server_sock > 0 /\ pc[c] # "closed" THEN {server_sock} ELSE {}
  /\ pc[c] \in {"startup", "checkWifi", "peer", "socket"} => server_sock <= 0
  /\ pc[c] \in {"connect", "close", "send"} => server_sock > 0

LEMMA AloneMove ==
  ASSUME Alone, NEW step \in PC, Go(c, step), UNCHANGED <<mode, open, server_sock>>,
         back' \in [Tasks -> {"idle", "zero"}], mode # "none",
         pc[c] = "closed" <=> step = "closed",
         step \in {"startup", "checkWifi", "peer", "socket"} => server_sock <= 0,
         step \in {"connect", "close", "send"} => server_sock > 0
  PROVE  Alone'
<1>1. /\ pc' \in [Tasks -> PC] /\ pc'[c] = step
      /\ \A t \in Tasks \ {c} : pc'[t] = "idle"
  BY InstanceAssumption DEF Alone, Go
<1> QED
  BY <1>1 DEF Alone

LEMMA AloneFrame ==
  ASSUME Alone, UNCHANGED <<pc, back, mode, open, server_sock>>
  PROVE  Alone'
BY DEF Alone

LEMMA SingleHandlersFrame ==
  ASSUME Single!EventLoop
  PROVE  UNCHANGED <<pc, back, mode, open, server_sock>>
<1> USE DEF Single!Handle, Single!HandlerContinues, Single!taskVars, Single!memberVars,
            Single!sockVars
<1>1. CASE \/ Single!StaStart \/ Single!StaConnected \/ Single!StaDisconnected
           \/ Single!StaDisconnectedIp6 \/ Single!GotIp4 \/ Single!GotIp4Store
  BY <1>1 DEF Single!StaStart, Single!StaConnected, Single!StaDisconnected,
     Single!StaDisconnectedIp6, Single!GotIp4, Single!GotIp4Store
<1>2. CASE \/ Single!GotIp4Length \/ Single!GotIp6 \/ Single!ApStart
           \/ Single!ApStaConnected \/ Single!ApStaConnectedLater \/ Single!ApStaLists
  BY <1>2 DEF Single!GotIp4Length, Single!GotIp6, Single!ApStart, Single!ApStaConnected,
     Single!ApStaConnectedLater, Single!ApStaLists
<1>3. CASE \/ Single!ApStaAnnounce \/ Single!ApStaDisconnected \/ Single!ApStaWifiOff
           \/ Single!ApStaTcpOff
  BY <1>3 DEF Single!ApStaAnnounce, Single!ApStaDisconnected, Single!ApStaWifiOff,
     Single!ApStaTcpOff
<1> QED
  BY <1>1, <1>2, <1>3 DEF Single!EventLoop

LEMMA AloneStep ==
  ASSUME Alone, Single!Next
  PROVE  Alone'
<1> USE DEF Single!Go, Go
<1>1. /\ pc \in [Tasks -> PC] /\ back \in [Tasks -> {"idle", "zero"}]
      /\ server_sock \in {-1, 0} \cup Fds
      /\ \A t \in Tasks : t # c => pc[t] = "idle"
  BY DEF Alone
<1>2. ASSUME NEW m \in {"OFF", "STA_CL", "AP_CL"}, Single!InitConnector(m)
      PROVE  Alone'
  <2>1. /\ mode = "none" /\ mode' = m /\ server_sock' = -1
        /\ UNCHANGED <<pc, back, open>>
    BY <1>2 DEF Single!InitConnector, Single!taskVars, Single!sockVars
  <2>2. pc[c] = "idle" /\ m # "none"
    BY <2>1 DEF Alone
  <2> QED
    BY <1>1, <2>1, <2>2 DEF Alone
<1>3. CASE Single!Wifi \/ Single!EventLoop \/ \E fd \in Single!Fds : Single!ConnectionLost(fd)
  <2>1. UNCHANGED <<pc, back, mode, open, server_sock>>
    <3>1. CASE Single!EventLoop
      BY <3>1, SingleHandlersFrame
    <3>2. CASE Single!Wifi \/ \E fd \in Single!Fds : Single!ConnectionLost(fd)
      BY <3>2 DEF Single!Wifi, Single!ConnectionLost, Single!taskVars, Single!memberVars,
         Single!sockVars
    <3> QED
      BY <1>3, <3>1, <3>2
  <2> QED
    BY <2>1, AloneFrame
<1>4. ASSUME NEW t \in Tasks,
             Single!CallConnect(t) \/ Single!CallDisconnect(t) \/ Single!CallWrite(t)
               \/ Single!Inside(t)
      PROVE  t = c /\ mode' = mode /\ mode # "none"
  <2>1. CASE Single!CallConnect(t) \/ Single!CallDisconnect(t) \/ Single!CallWrite(t)
    BY <2>1 DEF Single!CallConnect, Single!CallDisconnect, Single!CallWrite, Single!Step
  <2>2. CASE Single!Inside(t)
    <3>1. pc[t] # "idle" /\ mode' = mode
      BY <2>2 DEF Single!Inside, Single!StartupDone, Single!CheckWifi, Single!PeerDone,
         Single!PeerTimeout, Single!Socket, Single!ConnectSock, Single!Connected,
         Single!ConnectFailed, Single!Disconnect, Single!Close, Single!Closed,
         Single!SendOk, Single!SendFailed, Single!CounterZero, Single!Step
    <3> QED
      BY <1>1, <3>1 DEF Alone
  <2> QED
    BY <1>4, <2>1, <2>2
<1>5. CASE \/ Single!CallConnect(c) \/ Single!StartupDone(c) \/ Single!CheckWifi(c)
           \/ Single!PeerDone(c) \/ Single!PeerTimeout(c)
  <2>1. /\ UNCHANGED <<mode, open, server_sock, back>> /\ mode # "none"
        /\ pc[c] \in {"idle", "startup", "checkWifi", "peer"}
    BY <1>4, <1>5, InstanceAssumption DEF Single!CallConnect, Single!StartupDone,
       Single!CheckWifi, Single!PeerDone, Single!PeerTimeout, Single!Inside, Single!Step,
       Single!sockVars
  <2>2. server_sock <= 0
    BY <1>1, <1>5, <2>1 DEF Single!CallConnect, Single!is_connected, Alone,
       Single!StartupDone, Single!CheckWifi, Single!PeerDone, Single!PeerTimeout,
       Single!Step, Fds
  <2>3. PICK step \in {"idle", "startup", "checkWifi", "peer", "socket"} : Go(c, step)
    BY <1>5 DEF Single!CallConnect, Single!StartupDone, Single!CheckWifi,
       Single!PeerDone, Single!PeerTimeout
  <2> QED
    BY <1>1, <2>1, <2>2, <2>3, AloneMove DEF PC
<1>6. CASE Single!Socket(c)
  <2>1. /\ pc[c] = "socket" /\ UNCHANGED <<mode, back>> /\ open = {} /\ mode # "none"
    BY <1>6 DEF Single!Socket, Single!Step, Alone
  <2>2. /\ pc' \in [Tasks -> PC]
        /\ \A t \in Tasks \ {c} : pc'[t] = "idle"
        /\ \/ /\ server_sock' \in Fds /\ open' = {server_sock'} /\ pc'[c] = "connect"
           \/ server_sock' = -1 /\ open' = {} /\ pc'[c] = "failed"
    BY <1>1, <1>6, <2>1, InstanceAssumption DEF Single!Socket, PC, Single!Fds, Fds
  <2> QED
    BY <1>1, <2>1, <2>2, LimitsAssumption DEF Alone, Fds
<1>7. CASE \/ Single!ConnectSock(c) \/ Single!Connected(c) \/ Single!ConnectFailed(c)
           \/ Single!CallDisconnect(c)
  <2>1. /\ UNCHANGED <<mode, open, server_sock>> /\ mode # "none"
        /\ pc[c] \in {"connect", "connected", "failed", "idle"}
        /\ back' \in [Tasks -> {"idle", "zero"}]
    BY <1>1, <1>4, <1>7, InstanceAssumption DEF Single!ConnectSock, Single!Connected,
       Single!ConnectFailed, Single!CallDisconnect, Single!Inside, Single!Step,
       Single!sockVars
  <2>2. PICK step \in {"connected", "failed", "idle", "disconnect"} : Go(c, step)
    BY <1>7 DEF Single!ConnectSock, Single!Connected, Single!ConnectFailed,
       Single!CallDisconnect
  <2> QED
    BY <2>1, <2>2, AloneMove DEF PC
<1>8. CASE Single!Disconnect(c)
  <2>1. /\ UNCHANGED <<mode, open, server_sock, back>> /\ mode # "none"
        /\ pc[c] = "disconnect"
        /\ Go(c, IF server_sock # -1 THEN "close" ELSE back[c])
    BY <1>4, <1>8, InstanceAssumption DEF Single!Disconnect, Single!Inside, Single!Step,
       Single!sockVars
  <2>2. CASE server_sock # -1
    <3>1. server_sock > 0
      BY <1>1, <2>1, <2>2, LimitsAssumption DEF Alone, Fds
    <3> QED
      BY <1>1, <2>1, <2>2, <3>1, AloneMove DEF PC
  <2>3. CASE server_sock = -1
    <3>1. back[c] \in {"idle", "zero"}
      BY <1>1, InstanceAssumption
    <3> QED
      BY <1>1, <2>1, <2>3, <3>1, AloneMove DEF PC
  <2> QED
    BY <2>2, <2>3
<1>9. CASE Single!Close(c)
  <2>1. /\ pc[c] = "close" /\ UNCHANGED <<mode, server_sock, back>>
        /\ open = {server_sock} /\ open' = {} /\ mode # "none"
    BY <1>9 DEF Single!Close, Single!Step, Alone
  <2>2. /\ pc' \in [Tasks -> PC] /\ pc'[c] = "closed"
        /\ \A t \in Tasks \ {c} : pc'[t] = "idle"
    BY <1>1, <1>9, InstanceAssumption DEF Single!Close, PC
  <2> QED
    BY <1>1, <2>1, <2>2 DEF Alone
<1>10. CASE Single!Closed(c)
  <2>1. /\ pc[c] = "closed" /\ UNCHANGED <<mode, open, back>> /\ server_sock' = -1
        /\ open = {} /\ mode # "none"
    BY <1>10 DEF Single!Closed, Single!Step, Single!sockVars, Alone
  <2>2. back[c] \in {"idle", "zero"}
    BY <1>1, InstanceAssumption
  <2>3. /\ pc' \in [Tasks -> PC] /\ pc'[c] \in {"idle", "zero"}
        /\ \A t \in Tasks \ {c} : pc'[t] = "idle"
    BY <1>1, <1>10, <2>2, InstanceAssumption DEF Single!Closed, PC
  <2> QED
    BY <1>1, <2>1, <2>3 DEF Alone
<1>11. CASE \/ Single!CallWrite(c) \/ Single!SendOk(c) \/ Single!SendFailed(c)
            \/ Single!CounterZero(c)
  <2>1. /\ UNCHANGED <<mode, open, server_sock>> /\ mode # "none"
        /\ pc[c] \in {"idle", "send", "zero"}
        /\ back' \in [Tasks -> {"idle", "zero"}]
    BY <1>1, <1>4, <1>11, InstanceAssumption DEF Single!CallWrite, Single!SendOk,
       Single!SendFailed, Single!CounterZero, Single!Inside, Single!Step, Single!sockVars
  <2>2. PICK step \in {"idle", "send", "disconnect"} :
          Go(c, step) /\ (step = "send" => server_sock > 0)
    BY <1>11 DEF Single!CallWrite, Single!SendOk, Single!SendFailed, Single!CounterZero,
       Single!is_connected
  <2> QED
    BY <2>1, <2>2, AloneMove DEF PC
<1> QED
  BY <1>2, <1>3, <1>4, <1>5, <1>6, <1>7, <1>8, <1>9, <1>10, <1>11
     DEF Single!Next, Single!Inside

\* A program that does everything in one task and connects only when it is not
\* connected leaks no socket, closes none twice and uses none after its end.
THEOREM OneTaskOneSocket == MCSpec => []SingleHasOneSocket
<1> DEFINE I == usage = "single" => Alone
<1>1. MCInit => I
  <2> SUFFICES ASSUME Init PROVE Alone
    BY DEF MCInit
  <2>1. /\ pc = [t \in Tasks |-> "idle"] /\ back = [t \in Tasks |-> "idle"]
        /\ mode = "none" /\ server_sock = 0 /\ open = {}
    BY DEF Init
  <2>2. pc \in [Tasks -> PC] /\ back \in [Tasks -> {"idle", "zero"}]
    BY <2>1 DEF PC
  <2> QED
    BY <2>1, <2>2, InstanceAssumption DEF Alone
<1>2. I /\ [MCNext]_<<vars, usage>> => I'
  <2> SUFFICES ASSUME I, [MCNext]_<<vars, usage>>, usage' = "single" PROVE Alone'
    OBVIOUS
  <2>1. CASE Single!Next /\ usage = "single"
    BY <2>1, AloneStep
  <2>2. CASE UNCHANGED <<vars, usage>>
    BY <2>2, AloneFrame DEF vars, taskVars, memberVars, sockVars
  <2> QED
    BY <2>1, <2>2 DEF MCNext
<1>3. I => SingleHasOneSocket
  <2> SUFFICES ASSUME Alone PROVE Single!OneSocket
    BY DEF SingleHasOneSocket
  <2> QED
    BY InstanceAssumption DEF Alone, Single!OneSocket, Single!is_connected
<1> QED
  BY <1>1, <1>2, <1>3, PTL DEF MCSpec
===================================================================================
