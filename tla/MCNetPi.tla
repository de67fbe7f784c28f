---------------------------------- MODULE MCNetPi ----------------------------------
(***************************************************************************)
(* The Raspberry Pi's way to the network, one part at a time: the          *)
(* connection of TcpConnector to its server; its start as a station, which *)
(* runs the configuration script; and the upload of a folder.              *)
(***************************************************************************)
EXTENDS TcpConnectorPi, Sequences

CONSTANTS Texts,                   \* that a line of wpa_supplicant.conf may assign
          OurNetwork, OurPassword, WpaFiles, PowerFailures,
          LocalPaths, RemotePaths, Missing, Part

VARIABLES part,
          file, before, lines, i, net_exists, current_block, edited, step, crashes,
          local, server, todo, doing, remote, delete_after_upload,
          delete_exceptions, total_suc, found, done, deleted

script == <<file, before, lines, i, net_exists, current_block, edited, step, crashes>>
sftp == <<local, server, todo, doing, remote, delete_after_upload,
          delete_exceptions, total_suc, found, done, deleted>>
all == <<part, vars, script, sftp>>

Line(k, v) == [kind |-> k, value |-> v]
Lines == [kind : {"network={", "ssid", "psk", "disabled=1", "}"}, value : Texts]
BlockEnd == Line("}", "")

\* What the supplicant accepts: a block names one network, and has an end.
EndsWithin(ls, h, g) == \E k \in h .. g : ls[k] = BlockEnd
WellFormed(ls) ==
  \A h \in 1 .. Len(ls) : ls[h].kind = "ssid" =>
    /\ EndsWithin(ls, h, Len(ls))
    /\ \A g \in h + 1 .. Len(ls) : ls[g].kind = "ssid" => EndsWithin(ls, h, g)

ASSUME ScriptAssumption == /\ {"", OurNetwork, OurPassword} \subseteq Texts
                           /\ \A ls \in WpaFiles : ls \in Seq(Lines) /\ WellFormed(ls)
ASSUME UploadAssumption == Missing \notin LocalPaths /\ Part \notin LocalPaths \cup {Missing}

\* Files of no, one or two networks, in which a line disabled=1 may be anywhere
\* in a block.
SomeTexts == {"", "ours", "other", "pw", "old"}
If(b, line) == IF b THEN <<line>> ELSE <<>>
Off == Line("disabled=1", "")
Block(name, pw, d) ==
  <<Line("network={", "")>> \o If(d = 1, Off) \o <<Line("ssid", name)>>
    \o If(d = 2, Off) \o <<Line("psk", pw)>> \o If(d = 3, Off) \o <<BlockEnd>>
Blocks == {Block(name, pw, d) : name \in {"ours", "other"}, pw \in {"pw", "old"}, d \in 0 .. 3}
SomeFiles == {<<>>} \cup Blocks \cup {b \o c : b, c \in Blocks}

Wifi == INSTANCE AddWifi WITH Ours <- OurNetwork, Pw <- OurPassword, Files <- WpaFiles,
                              MAX_CRASHES <- PowerFailures
Upload == INSTANCE Sftp WITH Paths <- LocalPaths, Remotes <- RemotePaths, None <- Missing

MCInit ==
  /\ part \in {"connection", "startup", "upload"}
  /\ Init /\ Wifi!Init /\ Upload!Init
  /\ part # "connection" => ~app_disconnects /\ asks_first
  /\ part # "startup" => file = <<>>

Connection == part = "connection" /\ Next /\ UNCHANGED <<part, script, sftp>>

\* init(STA) waits for the script; a power failure starts the program again.
StartStation == /\ part = "startup"
                /\ InitConnector("sta_cl") /\ Wifi!Start
                /\ UNCHANGED <<part, sftp>>
Configure == /\ part = "startup" /\ connector = "script"
             /\ Wifi!Script
             /\ UNCHANGED <<part, vars, sftp>>
StationStarted == /\ part = "startup" /\ step = "off"
                  /\ ScriptReturns
                  /\ UNCHANGED <<part, script, sftp>>
PowerFailure == /\ part = "startup"
                /\ Wifi!Crash
                /\ connector' = "idle"
                /\ UNCHANGED <<part, config, sock, tcp_connected, send_error_counter,
                               fds, fails, connecting, sender, sftp>>

Uploading == part = "upload" /\ Upload!Next /\ UNCHANGED <<part, vars, script>>

MCNext == \/ Connection
          \/ StartStation \/ Configure \/ StationStarted \/ PowerFailure
          \/ Uploading

MCSpec == /\ MCInit /\ [][MCNext]_all
          /\ Fairness
          /\ WF_all(StartStation) /\ WF_all(Configure) /\ WF_all(StationStarted)

(* However the script's loop pops lines and whenever the power fails, no   *)
(* other network gets a password that was not its own.                     *)
OthersKeepPsk == Wifi!OthersKeepPsk

(* Started again and again, the script leaves the network enabled and with *)
(* the password given, and it stays so.                                    *)
Converges == <>[](part = "startup" => Wifi!Settled)

(* A file is deleted only while it is whole on the server.                 *)
DeletesUploaded == Upload!DeletesUploaded

(* What has been deleted stays on the server.                              *)
DeletedAreKept == Upload!DeletedAreKept

(* upload_folder returns true only when all it found has been uploaded.    *)
TrueMeansUploaded == Upload!TrueMeansUploaded
====================================================================================
