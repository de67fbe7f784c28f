----------------------------------- MODULE AddWifi -----------------------------------
(***************************************************************************)
(* The script driver_pi/scripts/add_wifi_network.py, which                 *)
(* TcpConnector::init runs at every start of a station: it edits the lines *)
(* of wpa_supplicant.conf so that the network "Ours" is in it, enabled and *)
(* with the password "Pw", and writes the file back.                       *)
(*                                                                         *)
(* The loop runs over indices and pops lines on its way, so the line after *)
(* a popped one is only tested for what comes later in the loop's body.    *)
(***************************************************************************)
EXTENDS Naturals, Sequences, SequencesExt

CONSTANTS Ours, Pw,      \* the arguments of the script
          Files,         \* what the file may hold before the first start
          MAX_CRASHES    \* bound: power failures

\* A line, as the script tells lines apart.
Open == [kind |-> "network={", value |-> ""]
Ssid(name) == [kind |-> "ssid", value |-> name]
Psk(pw) == [kind |-> "psk", value |-> pw]
Disabled == [kind |-> "disabled=1", value |-> ""]
Close == [kind |-> "}", value |-> ""]

VARIABLES file,          \* the lines on the card
          before,        \* history: the file at the first start
          lines, i, net_exists, current_block, edited,
          step,          \* where the script is, "off" when it does not run
          crashes        \* power failures so far

vars == <<file, before, lines, i, net_exists, current_block, edited, step, crashes>>

Init == /\ file \in Files /\ before = file
        /\ lines = <<>> /\ i = 1
        /\ net_exists = FALSE /\ current_block = FALSE /\ edited = FALSE
        /\ step = "off" /\ crashes = 0

----------------------------------------------------------------------------
\* A start of the script, up to its loop.
Start == /\ step = "off"
         /\ lines' = file /\ i' = 1
         /\ net_exists' = FALSE /\ current_block' = FALSE /\ edited' = FALSE
         /\ step' = "loop"
         /\ UNCHANGED <<file, before, crashes>>

Names(line) == line = Ssid(Ours)

\* lines.pop(i)
Pop(ls, k) == IF ls[k] = Disabled THEN RemoveAt(ls, k) ELSE ls

\* A deviation: the block is not left at its end.
InBlockForEver(block, line) == block

InBlock(block, line) == block /\ line # Close

PskWrong(block, line) == block /\ line.kind = "psk" /\ line # Psk(Pw)

\* A deviation: a popped line does not count as an edit.
EditsPsk(rest, wrong) == wrong

Edits(rest, wrong) == rest # lines \/ wrong

\* One round of the loop: after pop the rest of the body looks at the line that
\* moved up.  If there is none the script ends with an IndexError and writes
\* nothing.
Round ==
  LET block == current_block \/ Names(lines[i])
      rest == Pop(lines, i)
      wrong == PskWrong(block, rest[i])
  IN  /\ step = "loop" /\ i <= Len(lines)
      /\ net_exists' = (net_exists \/ Names(lines[i]))
      /\ IF i > Len(rest)
           THEN step' = "off" /\ UNCHANGED <<lines, i, current_block, edited>>
           ELSE /\ lines' = IF wrong THEN [rest EXCEPT ![i] = Psk(Pw)] ELSE rest
                /\ edited' = (edited \/ Edits(rest, wrong))
                /\ current_block' = InBlock(block, rest[i])
                /\ i' = i + 1
                /\ step' = "loop"
      /\ UNCHANGED <<file, before, crashes>>

\* The range was fixed before lines were popped; the loop ends early then.
LoopDone ==
  /\ step = "loop" /\ i > Len(lines)
  /\ lines' = IF net_exists THEN lines
              ELSE lines \o <<Open, Ssid(Ours), Psk(Pw), Close>>
  /\ step' = IF edited \/ ~net_exists THEN "open" ELSE "off"
  /\ UNCHANGED <<file, before, i, net_exists, current_block, edited, crashes>>

\* open(..., 'w') empties the file; the lines leave the buffer of the script in
\* one piece, at close().
Truncate == /\ step = "open" /\ step' = "write"
            /\ file' = <<>>
            /\ UNCHANGED <<before, lines, i, net_exists, current_block, edited, crashes>>

WriteOut == /\ step = "write" /\ step' = "off"
            /\ file' = lines
            /\ UNCHANGED <<before, lines, i, net_exists, current_block, edited, crashes>>

\* The power fails; the file is as it was, or empty after the truncation.
Crash == /\ step # "off" /\ crashes < MAX_CRASHES
         /\ crashes' = crashes + 1
         /\ step' = "off"
         /\ UNCHANGED <<file, before, lines, i, net_exists, current_block, edited>>

Script == Round \/ LoopDone \/ Truncate \/ WriteOut

Next == Start \/ Script \/ Crash

Spec == Init /\ [][Next]_vars

\* The script runs to its end, and the Raspberry Pi is started again some day.
FairSpec == Spec /\ WF_vars(Script) /\ WF_vars(Start)

----------------------------------------------------------------------------
\* Line k of ls is in the block of a network that line h names.
InBlockOf(ls, h, k) ==
  h < k /\ ls[h].kind = "ssid" /\ \A j \in h .. k : ls[j] # Close

Entries(ls) == {<<ls[p[1]].value, ls[p[2]].value>> : p \in
                  {q \in (1 .. Len(ls)) \X (1 .. Len(ls)) :
                     InBlockOf(ls, q[1], q[2]) /\ ls[q[2]].kind = "psk"}}

(* Whatever is popped and whenever the power fails, no other network ever  *)
(* gets a password that was not its own.                                   *)
OthersKeepPsk ==
  \A e \in Entries(file) : e[1] # Ours => e \in Entries(before)

\* The file lets the supplicant join the network, and holds another password.
Usable(ls) == \E e \in Entries(ls) : e = <<Ours, Pw>>
Stale(ls) == \E e \in Entries(ls) : e[1] = Ours /\ e[2] # Pw

(* After enough starts the network stays in the file with the password     *)
(* given, without a disabled line and without a stale password, whatever   *)
(* an interrupted run has left; in files that name a network before its    *)
(* password.                                                               *)
Settled == step = "off" => Usable(file) /\ ~Stale(file) /\ ~Contains(file, Disabled)
Converges == <>[]Settled
======================================================================================
