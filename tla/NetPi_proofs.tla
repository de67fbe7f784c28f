------------------------------- MODULE NetPi_proofs -------------------------------
(***************************************************************************)
(* The networking of the Raspberry Pi in three parts: the upload of any    *)
(* folder to any remote paths, the configuration script on any well-formed *)
(* file of networks, and the connection with any number of descriptors and *)
(* any limit of failed sends, alone and beside the script.                 *)
(*                                                                         *)
(* The upload.  From the end of a transfer to the deletion of the file     *)
(* nothing else is written to the remote path (Uploaded), so that a file   *)
(* is deleted only while its content is on the server; and as long as no   *)
(* upload has failed, what was found is uploaded or still to come (ToCome).*)
(***************************************************************************)
EXTENDS MCNetPi, SequenceTheorems, TLAPS

UploadTyped ==
  /\ local \in [LocalPaths -> LocalPaths \cup {Missing, Part}]
  /\ server \in [RemotePaths -> LocalPaths \cup {Missing, Part}]
  /\ todo \subseteq LocalPaths /\ doing \in LocalPaths \cup {Missing}
  /\ remote \in RemotePaths

Uploaded == doing # Missing => doing \notin todo /\ server[remote] = local[doing]

ToCome == total_suc => found \subseteq done \cup {local[f] : f \in todo}

UploadInv == UploadTyped /\ Uploaded /\ ToCome

LEMMA UploadInit == Upload!Init => UploadInv
BY UploadAssumption
   DEF Upload!Init, UploadInv, UploadTyped, Uploaded, ToCome

LEMMA UploadCalled ==
  ASSUME UploadInv, NEW r \in RemotePaths, NEW del \in BOOLEAN, NEW ex \in SUBSET LocalPaths,
         Upload!CallUploadFolder(r, del, ex)
  PROVE  UploadInv'
<1>1. /\ doing = Missing /\ UNCHANGED <<local, server, doing>>
      /\ todo' = Upload!Entries /\ remote' = r
      /\ found' = {local[f] : f \in Upload!Entries} /\ done' = {}
  BY DEF Upload!CallUploadFolder
<1>2. Upload!Entries \subseteq LocalPaths
  BY DEF Upload!Entries
<1> QED
  BY <1>1, <1>2 DEF UploadInv, UploadTyped, Uploaded, ToCome

LEMMA UploadEnds ==
  ASSUME UploadInv, NEW f \in LocalPaths, Upload!UploadFile(f)
  PROVE  UploadInv'
<1>1. /\ doing = Missing /\ f \in todo /\ doing' = f /\ todo' = todo \ {f}
      /\ server' = [server EXCEPT ![remote] = local[f]]
      /\ done' = done \cup {local[f]}
      /\ UNCHANGED <<local, remote, total_suc, found>>
  BY DEF Upload!UploadFile, Upload!args
<1>2. UploadTyped' /\ Uploaded'
  BY <1>1 DEF UploadInv, UploadTyped, Uploaded
<1>3. ToCome'
  BY <1>1 DEF UploadInv, ToCome
<1> QED
  BY <1>2, <1>3 DEF UploadInv

LEMMA UploadBreaksOff ==
  ASSUME UploadInv, NEW f \in LocalPaths, Upload!UploadFails(f)
  PROVE  UploadInv'
<1>1. /\ doing = Missing /\ todo' = todo \ {f} /\ total_suc' = FALSE
      /\ UNCHANGED <<local, remote, doing, found, done>>
      /\ server' \in {server, [server EXCEPT ![remote] = Part]}
  BY DEF Upload!UploadFails, Upload!args
<1> QED
  BY <1>1 DEF UploadInv, UploadTyped, Uploaded, ToCome

LEMMA UploadDeletes ==
  ASSUME UploadInv, Upload!Remove \/ Upload!RemoveFails
  PROVE  UploadInv'
<1>1. /\ doing # Missing /\ doing' = Missing /\ doing \in LocalPaths
      /\ UNCHANGED <<server, todo, remote, total_suc, found, done>>
      /\ \/ UNCHANGED local
         \/ local' = [local EXCEPT ![doing] = Missing]
  BY DEF Upload!Remove, Upload!RemoveFails, Upload!args, UploadInv, UploadTyped
<1>2. UploadTyped' /\ Uploaded'
  BY <1>1 DEF UploadInv, UploadTyped, Uploaded
<1>3. ToCome'
  <2>1. \A f \in todo : local'[f] = local[f]
    BY <1>1 DEF UploadInv, UploadTyped, Uploaded
  <2> QED
    BY <1>1, <2>1 DEF UploadInv, ToCome
<1> QED
  BY <1>2, <1>3 DEF UploadInv

LEMMA UploadDownload ==
  ASSUME UploadInv, NEW f \in LocalPaths, NEW r \in RemotePaths, Upload!Download(f, r)
  PROVE  UploadInv'
<1>1. /\ doing = Missing /\ todo = {}
      /\ UNCHANGED <<server, todo, doing, remote, total_suc, found, done>>
      /\ \E c \in LocalPaths \cup {Missing, Part} : local' = [local EXCEPT ![f] = c]
  BY DEF Upload!Download, Upload!args, UploadInv, UploadTyped
<1> QED
  BY <1>1 DEF UploadInv, UploadTyped, Uploaded, ToCome

LEMMA UploadStep == UploadInv /\ [Upload!Next]_sftp => UploadInv'
<1> SUFFICES ASSUME UploadInv, [Upload!Next]_sftp PROVE UploadInv'
  OBVIOUS
<1>1. CASE Upload!Crash
  BY <1>1 DEF Upload!Crash, Upload!args, UploadInv, UploadTyped, Uploaded, ToCome
<1>2. CASE UNCHANGED sftp
  BY <1>2 DEF sftp, UploadInv, UploadTyped, Uploaded, ToCome
<1> QED
  BY <1>1, <1>2, UploadCalled, UploadEnds, UploadBreaksOff, UploadDeletes, UploadDownload
     DEF Upload!Next

(* The three parts of the instance take their steps one at a time.          *)
LEMMA OnlyUploading == [MCNext]_all => [Upload!Next]_sftp
BY DEF MCNext, all, Connection, StartStation, Configure, StationStarted, PowerFailure,
   Uploading

LEMMA UploadInvariant == MCSpec => []UploadInv
<1>1. MCInit => UploadInv
  BY UploadInit DEF MCInit
<1> QED
  BY <1>1, UploadStep, OnlyUploading, PTL DEF MCSpec

(* The only step that empties a path is remove, right after its transfer.   *)
LEMMA UploadDeletion ==
  ASSUME UploadInv, Upload!Next, NEW f \in LocalPaths, local[f] # Missing,
         local'[f] = Missing
  PROVE  \E r \in RemotePaths : server[r] = local[f]
<1>1. local \in [LocalPaths -> LocalPaths \cup {Missing, Part}]
  BY DEF UploadInv, UploadTyped
<1>2. CASE Upload!Remove
  <2>1. doing # Missing /\ (UNCHANGED local \/ local' = [local EXCEPT ![doing] = Missing])
    BY <1>2 DEF Upload!Remove
  <2>2. f = doing
    BY <1>1, <2>1
  <2> QED
    BY <2>1, <2>2 DEF UploadInv, UploadTyped, Uploaded
<1>3. CASE \E g \in LocalPaths, r \in RemotePaths : Upload!Download(g, r)
  <2>1. PICK g \in LocalPaths, r \in RemotePaths : Upload!Download(g, r)
    BY <1>3
  <2>2. PICK c \in {server[r], Part} : local' = [local EXCEPT ![g] = c]
    BY <2>1 DEF Upload!Download
  <2>3. c # Missing \/ Part = Missing
    BY <2>1, <2>2 DEF Upload!Download
  <2> QED
    BY <1>1, <2>2, <2>3, UploadAssumption
<1>4. CASE UNCHANGED local
  BY <1>4
<1> QED
  BY <1>2, <1>3, <1>4
     DEF Upload!Next, Upload!CallUploadFolder, Upload!UploadFile, Upload!UploadFails,
         Upload!RemoveFails, Upload!Crash

(* Whatever transfers break off, whichever files cannot be deleted and      *)
(* wherever the process ends: a file is deleted only while it is whole on   *)
(* the server.  What is written over it later is not said (DeletedAreKept). *)
THEOREM DeletesOnlyUploaded == MCSpec => DeletesUploaded
<1>1. UploadInv /\ [Upload!Next]_sftp
        => [\A f \in LocalPaths : local[f] # Missing /\ local'[f] = Missing
              => \E r \in RemotePaths : server[r] = local[f]]_sftp
  BY UploadDeletion
<1> QED
  BY <1>1, UploadInvariant, OnlyUploading, PTL
     DEF MCSpec, DeletesUploaded, Upload!DeletesUploaded, sftp, Upload!vars

(* upload_folder does not return true after a failure, nor before its end.  *)
THEOREM TrueIsTold == MCSpec => []TrueMeansUploaded
<1>1. UploadInv => TrueMeansUploaded
  BY DEF UploadInv, ToCome, TrueMeansUploaded, Upload!TrueMeansUploaded
<1> QED
  BY <1>1, UploadInvariant, PTL


----------------------------------------------------------------------------
(***************************************************************************)
(* The script.  A network is never given another's password, because the   *)
(* script is in a block only from our network's name to the block's end    *)
(* (InOurBlock), and a block has one name.  A line that is popped is none  *)
(* of those that tell blocks apart.                                        *)
(***************************************************************************)

\* Each line of psk that another network has in ls it has had before.
OthersOwn(ls) ==
  \A h, k \in 1 .. Len(ls) :
    Wifi!InBlockOf(ls, h, k) /\ ls[k].kind = "psk" /\ ls[h].value # OurNetwork
      => <<ls[h].value, ls[k].value>> \in Wifi!Entries(before)

Sound(ls) == ls \in Seq(Lines) /\ WellFormed(ls) /\ OthersOwn(ls)

OpenedBy(ls, h, k) == /\ h \in 1 .. k /\ ls[h] = Wifi!Ssid(OurNetwork)
                      /\ \A j \in h .. k - 1 : ls[j] # BlockEnd
InOurBlock(ls, k) == \E h \in 1 .. k : OpenedBy(ls, h, k)

ScriptInv ==
  /\ Sound(file)
  /\ step # "off" => Sound(lines)
  /\ step = "loop" => /\ i \in 1 .. Len(lines) + 1
                      /\ current_block => \E h \in 1 .. i - 1 : OpenedBy(lines, h, i)

(* The lines that the script tells apart.                                   *)
LEMMA Kinds ==
  /\ BlockEnd.kind = "}" /\ Wifi!Close = BlockEnd
  /\ Wifi!Disabled.kind = "disabled=1" /\ Wifi!Open.kind = "network={"
  /\ Wifi!Ssid(OurNetwork).kind = "ssid" /\ Wifi!Ssid(OurNetwork).value = OurNetwork
  /\ Wifi!Psk(OurPassword).kind = "psk"
  /\ {Wifi!Open, Wifi!Close, Wifi!Ssid(OurNetwork), Wifi!Psk(OurPassword)} \subseteq Lines
<1> USE DEF BlockEnd, Line, Wifi!Close, Wifi!Disabled, Wifi!Open, Wifi!Ssid, Wifi!Psk
<1>1. /\ BlockEnd.kind = "}" /\ Wifi!Close = BlockEnd
      /\ Wifi!Disabled.kind = "disabled=1" /\ Wifi!Open.kind = "network={"
  OBVIOUS
<1>2. /\ Wifi!Ssid(OurNetwork).kind = "ssid" /\ Wifi!Ssid(OurNetwork).value = OurNetwork
      /\ Wifi!Psk(OurPassword).kind = "psk"
  OBVIOUS
<1>3. {Wifi!Open, Wifi!Close, Wifi!Ssid(OurNetwork), Wifi!Psk(OurPassword)} \subseteq Lines
  <2>1. {"", OurNetwork, OurPassword} \subseteq Texts
    BY ScriptAssumption
  <2>2. /\ [kind |-> "network={", value |-> ""] \in Lines
        /\ [kind |-> "}", value |-> ""] \in Lines
    BY <2>1 DEF Lines
  <2>3. /\ [kind |-> "ssid", value |-> OurNetwork] \in Lines
        /\ [kind |-> "psk", value |-> OurPassword] \in Lines
    BY <2>1 DEF Lines
  <2> QED
    BY <2>2, <2>3
<1> QED
  BY <1>1, <1>2, <1>3

(* The elements of a concatenation.                                         *)
LEMMA Joined ==
  ASSUME NEW a \in Seq(Lines), NEW b \in Seq(Lines)
  PROVE  \E ab \in Seq(Lines) :
           /\ ab = a \o b /\ Len(ab) = Len(a) + Len(b)
           /\ \A j \in 1 .. Len(a) : ab[j] = a[j]
           /\ \A j \in Len(a) + 1 .. Len(a) + Len(b) : ab[j] = b[j - Len(a)]
<1> DEFINE ab == a \o b
<1>1. Len(a) \in Nat /\ Len(b) \in Nat
  OBVIOUS
<1>2. /\ ab \in Seq(Lines) /\ Len(ab) = Len(a) + Len(b)
      /\ \A j \in 1 .. Len(a) + Len(b) : ab[j] = IF j <= Len(a) THEN a[j] ELSE b[j - Len(a)]
  BY ConcatProperties
<1>3. ab = a \o b
  OBVIOUS
<1> HIDE DEF ab
<1>4. \A j \in 1 .. Len(a) : ab[j] = a[j]
  BY <1>1, <1>2
<1>5. \A j \in Len(a) + 1 .. Len(a) + Len(b) : ab[j] = b[j - Len(a)]
  BY <1>1, <1>2
<1> QED
  BY <1>2, <1>3, <1>4, <1>5

(* Taking a line out moves those behind it.                                 *)
LEMMA Removed ==
  ASSUME NEW ls \in Seq(Lines), NEW n \in 1 .. Len(ls)
  PROVE  /\ Wifi!RemoveAt(ls, n) \in Seq(Lines)
         /\ Len(Wifi!RemoveAt(ls, n)) = Len(ls) - 1
         /\ \A j \in 1 .. Len(ls) - 1 :
              Wifi!RemoveAt(ls, n)[j] = ls[IF j < n THEN j ELSE j + 1]
<1> DEFINE front == SubSeq(ls, 1, n - 1)
           rear == SubSeq(ls, n + 1, Len(ls))
<1>1. /\ Len(ls) \in Nat /\ n \in Nat /\ \A j \in 1 .. Len(ls) : ls[j] \in Lines
  BY LenProperties
<1>2. /\ front \in Seq(Lines) /\ Len(front) = n - 1
      /\ \A j \in 1 .. n - 1 : front[j] = ls[j]
  BY <1>1, SubSeqProperties
<1>3. /\ rear \in Seq(Lines) /\ Len(rear) = Len(ls) - n
      /\ \A j \in 1 .. Len(ls) - n : rear[j] = ls[n + j]
  BY <1>1, SubSeqProperties
<1>4. Wifi!RemoveAt(ls, n) = front \o rear
  BY DEF Wifi!RemoveAt
<1> HIDE DEF front, rear
<1>5. PICK both \in Seq(Lines) :
        /\ both = front \o rear /\ Len(both) = Len(front) + Len(rear)
        /\ \A j \in 1 .. Len(front) : both[j] = front[j]
        /\ \A j \in Len(front) + 1 .. Len(front) + Len(rear) : both[j] = rear[j - Len(front)]
  BY <1>2, <1>3, Joined
<1>6. ASSUME NEW j \in 1 .. Len(ls) - 1
      PROVE  both[j] = ls[IF j < n THEN j ELSE j + 1]
  <2>1. CASE j < n
    BY <1>1, <1>2, <1>5, <2>1
  <2>2. CASE j >= n
    <3>1. /\ j \in Len(front) + 1 .. Len(front) + Len(rear)
          /\ j - (n - 1) \in 1 .. Len(ls) - n
      BY <1>1, <1>2, <1>3, <2>2
    <3>2. both[j] = rear[j - (n - 1)] /\ n + (j - (n - 1)) = j + 1
      BY <1>1, <1>2, <1>5, <3>1
    <3> QED
      BY <1>1, <1>3, <2>2, <3>1, <3>2
  <2> QED
    BY <1>1, <2>1, <2>2
<1>7. Len(both) = Len(ls) - 1
  BY <1>1, <1>2, <1>3, <1>5
<1> QED
  BY <1>4, <1>5, <1>6, <1>7

(* A popped line is neither a name nor an end, and no password.             *)
LEMMA PopIsSound ==
  ASSUME NEW ls, Sound(ls), NEW n \in 1 .. Len(ls)
  PROVE  /\ Sound(Wifi!Pop(ls, n))
         /\ \A j \in 1 .. n - 1 : Wifi!Pop(ls, n)[j] = ls[j]
         /\ n - 1 <= Len(Wifi!Pop(ls, n))
<1> DEFINE r == Wifi!RemoveAt(ls, n)
           Old(j) == IF j < n THEN j ELSE j + 1
<1>1. Len(ls) \in Nat /\ n \in Nat /\ ls \in Seq(Lines)
  BY DEF Sound
<1>2. CASE ls[n] # Wifi!Disabled
  BY <1>1, <1>2 DEF Wifi!Pop
<1>3. CASE ls[n] = Wifi!Disabled
  <2>1. Wifi!Pop(ls, n) = r
    BY <1>3 DEF Wifi!Pop
  <2>2. /\ r \in Seq(Lines) /\ Len(r) = Len(ls) - 1
        /\ \A j \in 1 .. Len(r) : r[j] = ls[Old(j)]
    BY <1>1, Removed
  <2> HIDE DEF r
  <2>3. ASSUME NEW h \in 1 .. Len(r), NEW g \in h .. Len(r), NEW k \in Old(h) .. Old(g),
               ls[k] = BlockEnd
        PROVE  \E j \in h .. g : r[j] = BlockEnd
    <3>1. k # n
      BY <1>3, <2>3, Kinds
    <3>2. PICK j \in h .. g : Old(j) = k
      <4>1. CASE k < n
        <5>1. k \in h .. g /\ Old(k) = k
          BY <1>1, <2>2, <4>1
        <5> QED
          BY <5>1
      <4>2. CASE k > n
        <5>1. k - 1 \in h .. g /\ Old(k - 1) = k
          BY <1>1, <2>2, <4>2
        <5> QED
          BY <5>1
      <4> QED
        BY <1>1, <2>2, <3>1, <4>1, <4>2
    <3>3. j \in 1 .. Len(r)
      BY <1>1, <2>2
    <3> QED
      BY <2>2, <2>3, <3>2, <3>3
  <2>4. WellFormed(r)
    <3>1. ASSUME NEW h \in 1 .. Len(r), r[h].kind = "ssid"
          PROVE  EndsWithin(r, h, Len(r))
      <4>1. Old(h) \in 1 .. Len(ls) /\ ls[Old(h)].kind = "ssid"
        BY <1>1, <2>2, <3>1
      <4>2. PICK k \in Old(h) .. Len(ls) : ls[k] = BlockEnd
        BY <4>1 DEF Sound, WellFormed, EndsWithin
      <4>3. k \in Old(h) .. Old(Len(r))
        <5>1. k # n
          BY <1>3, <4>2, Kinds
        <5> QED
          BY <1>1, <2>2, <4>1, <4>2, <5>1
      <4>4. \E j \in h .. Len(r) : r[j] = BlockEnd
        <5>1. Len(r) \in h .. Len(r)
          BY <1>1, <2>2
        <5> QED
          BY <2>3, <4>2, <4>3, <5>1
      <4> QED
        BY <4>4 DEF EndsWithin
    <3>2. ASSUME NEW h \in 1 .. Len(r), r[h].kind = "ssid",
                 NEW g \in h + 1 .. Len(r), r[g].kind = "ssid"
          PROVE  EndsWithin(r, h, g)
      <4>1. /\ Old(h) \in 1 .. Len(ls) /\ ls[Old(h)].kind = "ssid"
            /\ Old(g) \in Old(h) + 1 .. Len(ls) /\ ls[Old(g)].kind = "ssid"
        BY <1>1, <2>2, <3>2
      <4>2. PICK k \in Old(h) .. Old(g) : ls[k] = BlockEnd
        BY <4>1 DEF Sound, WellFormed, EndsWithin
      <4>3. g \in h .. Len(r)
        BY <1>1, <2>2
      <4>4. \E j \in h .. g : r[j] = BlockEnd
        BY <2>3, <4>2, <4>3
      <4> QED
        BY <4>4 DEF EndsWithin
    <3> QED
      BY <3>1, <3>2 DEF WellFormed
  <2>5. OthersOwn(r)
    <3> SUFFICES ASSUME NEW h \in 1 .. Len(r), NEW g \in 1 .. Len(r),
                        Wifi!InBlockOf(r, h, g), r[g].kind = "psk",
                        r[h].value # OurNetwork
                 PROVE  <<r[h].value, r[g].value>> \in Wifi!Entries(before)
      BY DEF OthersOwn
    <3>1. /\ h < g /\ r[h].kind = "ssid"
          /\ \A j \in h .. g : r[j] # BlockEnd
      BY Kinds DEF Wifi!InBlockOf
    <3>2. /\ Old(h) \in 1 .. Len(ls) /\ Old(g) \in 1 .. Len(ls) /\ Old(h) < Old(g)
          /\ ls[Old(h)] = r[h] /\ ls[Old(g)] = r[g]
      BY <1>1, <2>2, <3>1
    <3>3. g \in h .. Len(r)
      BY <1>1, <2>2, <3>1
    <3>4. \A k \in Old(h) .. Old(g) : ls[k] # BlockEnd
      BY <2>3, <3>1, <3>3
    <3>5. Wifi!InBlockOf(ls, Old(h), Old(g))
      BY <3>1, <3>2, <3>4, Kinds DEF Wifi!InBlockOf
    <3> QED
      BY <3>2, <3>5 DEF Sound, OthersOwn
  <2>6. \A j \in 1 .. n - 1 : r[j] = ls[j]
    BY <1>1, <2>2
  <2> QED
    BY <1>1, <2>1, <2>2, <2>4, <2>5, <2>6 DEF Sound
<1> QED
  BY <1>2, <1>3

(* A password is replaced in our block, in which no other network is named. *)
LEMMA EditIsSound ==
  ASSUME NEW ls, Sound(ls), NEW n \in 1 .. Len(ls), ls[n].kind = "psk", InOurBlock(ls, n)
  PROVE  Sound([ls EXCEPT ![n] = Wifi!Psk(OurPassword)])
<1> DEFINE r == [ls EXCEPT ![n] = Wifi!Psk(OurPassword)]
<1>1. Len(ls) \in Nat /\ n \in Nat /\ ls \in Seq(Lines)
  BY DEF Sound
<1>2. Wifi!Psk(OurPassword) \in Lines
  BY ScriptAssumption DEF Wifi!Psk, Lines
<1>3. /\ r \in Seq(Lines) /\ Len(r) = Len(ls)
      /\ \A j \in 1 .. Len(ls) : r[j] = IF j = n THEN Wifi!Psk(OurPassword) ELSE ls[j]
  BY <1>1, <1>2, ExceptSeq
<1> HIDE DEF r
<1>4. \A j \in 1 .. Len(ls) : /\ r[j].kind = ls[j].kind
                              /\ r[j] = BlockEnd <=> ls[j] = BlockEnd
  BY <1>3, Kinds
<1>5. WellFormed(r)
  <2>1. ASSUME NEW h \in 1 .. Len(r), r[h].kind = "ssid"
        PROVE  EndsWithin(r, h, Len(r))
    <3>1. PICK k \in h .. Len(ls) : ls[k] = BlockEnd
      BY <1>3, <1>4, <2>1 DEF Sound, WellFormed, EndsWithin
    <3> QED
      BY <1>1, <1>3, <1>4, <3>1 DEF EndsWithin
  <2>2. ASSUME NEW h \in 1 .. Len(r), r[h].kind = "ssid",
               NEW g \in h + 1 .. Len(r), r[g].kind = "ssid"
        PROVE  EndsWithin(r, h, g)
    <3>1. g \in 1 .. Len(ls)
      BY <1>1, <1>3
    <3>2. PICK k \in h .. g : ls[k] = BlockEnd
      BY <1>3, <1>4, <2>2, <3>1 DEF Sound, WellFormed, EndsWithin
    <3> QED
      BY <1>1, <1>3, <1>4, <3>1, <3>2 DEF EndsWithin
  <2> QED
    BY <2>1, <2>2 DEF WellFormed
<1>6. OthersOwn(r)
  <2> SUFFICES ASSUME NEW h \in 1 .. Len(r), NEW g \in 1 .. Len(r),
                      Wifi!InBlockOf(r, h, g), r[g].kind = "psk",
                      r[h].value # OurNetwork
               PROVE  <<r[h].value, r[g].value>> \in Wifi!Entries(before)
    BY DEF OthersOwn
  <2>1. /\ h < g /\ r[h].kind = "ssid"
        /\ \A j \in h .. g : ls[j] # BlockEnd
    <3>1. /\ h < g /\ r[h].kind = "ssid"
          /\ \A j \in h .. g : r[j] # BlockEnd
      BY Kinds DEF Wifi!InBlockOf
    <3> QED
      BY <1>1, <1>3, <1>4, <3>1
  <2>2. h # n /\ r[h] = ls[h] /\ ls[h].kind = "ssid"
    BY <1>3, <1>4, <2>1
  <2>3. CASE g = n
    <3>1. PICK o \in 1 .. n : OpenedBy(ls, o, n)
      BY DEF InOurBlock
    <3>2. ls[o].kind = "ssid" /\ ls[o].value = OurNetwork /\ o \in 1 .. Len(ls) /\ o # n
      <4>1. ls[o] = Wifi!Ssid(OurNetwork)
        BY <3>1 DEF OpenedBy
      <4>2. ls[o].kind = "ssid" /\ ls[o].value = OurNetwork
        BY <4>1, Kinds, Zenon
      <4> QED
        BY <1>1, <4>2
    <3>3. \A j \in o .. n : ls[j] # BlockEnd
      <4>1. ls[n] # BlockEnd /\ \A j \in o .. n - 1 : ls[j] # BlockEnd
        BY <3>1, Kinds DEF OpenedBy
      <4> QED
        BY <1>1, <4>1
    <3>4. h # o
      BY <2>2, <3>2
    <3>5. CASE h < o
      <4>1. EndsWithin(ls, h, o)
        BY <1>1, <1>3, <2>2, <3>2, <3>5 DEF Sound, WellFormed
      <4> QED
        BY <1>1, <2>1, <2>3, <3>2, <4>1 DEF EndsWithin
    <3>6. CASE o < h
      <4>1. EndsWithin(ls, o, h)
        BY <1>1, <1>3, <2>2, <3>2, <3>6 DEF Sound, WellFormed
      <4> QED
        BY <1>1, <2>1, <2>3, <3>2, <3>3, <4>1 DEF EndsWithin
    <3> QED
      BY <1>1, <1>3, <3>2, <3>4, <3>5, <3>6
  <2>4. CASE g # n
    <3>1. Wifi!InBlockOf(ls, h, g) /\ r[g] = ls[g]
      BY <1>3, <2>1, <2>2, <2>4, Kinds DEF Wifi!InBlockOf
    <3> QED
      BY <1>3, <2>2, <3>1 DEF Sound, OthersOwn
  <2> QED
    BY <2>3, <2>4
<1> QED
  BY <1>3, <1>5, <1>6 DEF Sound, r

(* A network is added behind blocks that have all come to their end.        *)
LEMMA AddedIsSound ==
  ASSUME NEW ls, Sound(ls)
  PROVE  Sound(ls \o <<Wifi!Open, Wifi!Ssid(OurNetwork), Wifi!Psk(OurPassword), Wifi!Close>>)
<1> DEFINE new == <<Wifi!Open, Wifi!Ssid(OurNetwork), Wifi!Psk(OurPassword), Wifi!Close>>
           r == ls \o new
           n == Len(ls)
<1>1. n \in Nat /\ ls \in Seq(Lines)
  BY DEF Sound
<1>2. /\ new \in Seq(Lines) /\ Len(new) = 4
      /\ new[1] = Wifi!Open /\ new[2] = Wifi!Ssid(OurNetwork)
      /\ new[3] = Wifi!Psk(OurPassword) /\ new[4] = BlockEnd
  <2>1. Wifi!Close = BlockEnd
    BY Kinds
  <2>2. \A a, b, p, q \in Lines : <<a, b, p, q>> \in Seq(Lines)
    OBVIOUS
  <2>3. new \in Seq(Lines)
    BY <2>2, Kinds, Zenon
  <2> QED
    BY <2>1, <2>3
<1> HIDE DEF new, n
<1>3. /\ r \in Seq(Lines) /\ Len(r) = n + 4
      /\ \A j \in 1 .. n : r[j] = ls[j]
      /\ \A j \in n + 1 .. n + 4 : r[j] = new[j - n]
  <2>1. PICK both \in Seq(Lines) :
          /\ both = r /\ Len(both) = Len(ls) + Len(new)
          /\ \A j \in 1 .. Len(ls) : both[j] = ls[j]
          /\ \A j \in Len(ls) + 1 .. Len(ls) + Len(new) : both[j] = new[j - Len(ls)]
    BY <1>1, <1>2, Joined
  <2> HIDE DEF r
  <2> QED
    BY <1>2, <2>1 DEF n
<1> HIDE DEF r
<1>4. /\ r[n + 1] = Wifi!Open /\ r[n + 2] = Wifi!Ssid(OurNetwork)
      /\ r[n + 3] = Wifi!Psk(OurPassword) /\ r[n + 4] = BlockEnd
  <2>1. \A j \in 1 .. 4 : n + j \in n + 1 .. n + 4 /\ (n + j) - n = j
    BY <1>1
  <2>2. \A j \in 1 .. 4 : r[n + j] = new[j]
    BY <1>3, <2>1
  <2> QED
    BY <1>2, <2>2
<1>5. ASSUME NEW h \in 1 .. n + 4, r[h].kind = "ssid"
      PROVE  \/ h \in 1 .. n /\ EndsWithin(r, h, n)
             \/ h = n + 2
  <2>1. CASE h \in 1 .. n
    <3>1. PICK k \in h .. n : ls[k] = BlockEnd
      BY <1>3, <1>5, <2>1 DEF Sound, WellFormed, EndsWithin, n
    <3> QED
      BY <1>1, <1>3, <1>4, <2>1, <3>1 DEF EndsWithin
  <2>2. CASE h \in n + 1 .. n + 4
    <3>1. h \in {n + 1, n + 2, n + 3, n + 4}
      BY <1>1, <2>2
    <3> QED
      BY <1>4, <1>5, <3>1, Kinds
  <2> QED
    BY <1>1, <2>1, <2>2
<1>6. WellFormed(r)
  <2>1. ASSUME NEW h \in 1 .. n + 4, r[h].kind = "ssid"
        PROVE  EndsWithin(r, h, n + 4)
    BY <1>1, <1>3, <1>4, <1>5, <2>1 DEF EndsWithin
  <2>2. ASSUME NEW h \in 1 .. n + 4, r[h].kind = "ssid",
               NEW g \in h + 1 .. n + 4, r[g].kind = "ssid"
        PROVE  EndsWithin(r, h, g)
    <3>1. CASE h \in 1 .. n /\ EndsWithin(r, h, n)
      <4>1. g \in 1 .. n \/ g = n + 2
        BY <1>1, <1>4, <1>5, <2>2
      <4>2. CASE g \in 1 .. n
        <5>1. PICK k \in h .. g : ls[k] = BlockEnd
          BY <1>1, <1>3, <1>4, <2>2, <3>1, <4>2 DEF Sound, WellFormed, EndsWithin, n
        <5>2. k \in 1 .. n
          BY <1>1, <3>1, <4>2, <5>1
        <5>3. r[k] = BlockEnd
          BY <1>3, <5>1, <5>2
        <5> QED
          BY <5>1, <5>3 DEF EndsWithin
      <4>3. CASE g = n + 2
        BY <1>1, <3>1, <4>3 DEF EndsWithin
      <4> QED
        BY <4>1, <4>2, <4>3
    <3>2. CASE h = n + 2
      BY <1>1, <1>5, <2>2, <3>2
    <3> QED
      BY <1>5, <2>2, <3>1, <3>2
  <2> QED
    BY <1>3, <2>1, <2>2 DEF WellFormed
<1>7. OthersOwn(r)
  <2> SUFFICES ASSUME NEW h \in 1 .. n + 4, NEW g \in 1 .. n + 4,
                      Wifi!InBlockOf(r, h, g), r[g].kind = "psk",
                      r[h].value # OurNetwork
               PROVE  <<r[h].value, r[g].value>> \in Wifi!Entries(before)
    BY <1>3 DEF OthersOwn
  <2>1. /\ h < g /\ r[h].kind = "ssid"
        /\ \A j \in h .. g : r[j] # BlockEnd
    BY Kinds DEF Wifi!InBlockOf
  <2>2. h \in 1 .. n /\ EndsWithin(r, h, n)
    BY <1>4, <1>5, <2>1, Kinds
  <2>3. g \in 1 .. n
    BY <1>1, <2>1, <2>2 DEF EndsWithin
  <2>4. r[h] = ls[h] /\ r[g] = ls[g] /\ \A j \in h .. g : ls[j] # BlockEnd
    <3>1. \A j \in h .. g : j \in 1 .. n
      BY <1>1, <2>2, <2>3
    <3> QED
      BY <1>3, <2>1, <2>2, <2>3, <3>1
  <2>5. Wifi!InBlockOf(ls, h, g)
    BY <2>1, <2>4, Kinds DEF Wifi!InBlockOf
  <2> QED
    BY <2>2, <2>3, <2>4, <2>5 DEF Sound, OthersOwn, n
<1> QED
  BY <1>3, <1>6, <1>7 DEF Sound, r, new


LEMMA ScriptInit == Wifi!Init => ScriptInv
<1> SUFFICES ASSUME Wifi!Init PROVE ScriptInv
  OBVIOUS
<1>1. file \in WpaFiles /\ before = file /\ step = "off"
  BY DEF Wifi!Init
<1>2. OthersOwn(file)
  <2> SUFFICES ASSUME NEW h \in 1 .. Len(file), NEW k \in 1 .. Len(file),
                      Wifi!InBlockOf(file, h, k), file[k].kind = "psk"
               PROVE  <<file[h].value, file[k].value>> \in Wifi!Entries(file)
    BY <1>1 DEF OthersOwn
  <2> DEFINE p == <<h, k>>
  <2>1. /\ p \in (1 .. Len(file)) \X (1 .. Len(file))
        /\ Wifi!InBlockOf(file, p[1], p[2]) /\ file[p[2]].kind = "psk"
    OBVIOUS
  <2>2. <<file[p[1]].value, file[p[2]].value>> \in Wifi!Entries(file)
    BY <2>1 DEF Wifi!Entries
  <2> QED
    BY <2>2
<1> QED
  BY <1>1, <1>2, ScriptAssumption DEF ScriptInv, Sound

(* One round of the loop.                                                   *)
LEMMA ScriptRound ==
  ASSUME ScriptInv, Wifi!Round
  PROVE  ScriptInv'
<1> DEFINE block == current_block \/ Wifi!Names(lines[i])
           rest == Wifi!Pop(lines, i)
           wrong == Wifi!PskWrong(block, rest[i])
<1>1. /\ step = "loop" /\ i \in 1 .. Len(lines) /\ UNCHANGED <<file, before>>
      /\ Sound(file) /\ Sound(lines) /\ Len(lines) \in Nat
      /\ current_block => \E h \in 1 .. i - 1 : OpenedBy(lines, h, i)
  BY DEF Wifi!Round, ScriptInv, Sound
<1>2. /\ Sound(rest) /\ i - 1 <= Len(rest) /\ \A j \in 1 .. i - 1 : rest[j] = lines[j]
  BY <1>1, PopIsSound
<1>3. Len(rest) \in Nat
  BY <1>2 DEF Sound
<1>4. CASE i > Len(rest)
  <2>1. step' = "off"
    BY <1>4 DEF Wifi!Round
  <2> QED
    BY <1>1, <2>1 DEF ScriptInv, Sound, OthersOwn, WellFormed
<1>5. CASE i <= Len(rest)
  <2>1. /\ lines' = IF wrong THEN [rest EXCEPT ![i] = Wifi!Psk(OurPassword)] ELSE rest
        /\ current_block' = Wifi!InBlock(block, rest[i])
        /\ i' = i + 1 /\ step' = "loop"
    BY <1>3, <1>5, <1>1 DEF Wifi!Round
  <2>2. i \in 1 .. Len(rest)
    BY <1>1, <1>3, <1>5
  <2>3. block => InOurBlock(rest, i)
    <3>1. CASE current_block
      <4>1. PICK h \in 1 .. i - 1 : OpenedBy(lines, h, i)
        BY <1>1, <3>1
      <4>2. OpenedBy(rest, h, i)
        BY <1>1, <1>2, <4>1 DEF OpenedBy
      <4> QED
        BY <1>1, <4>2 DEF InOurBlock
    <3>2. CASE Wifi!Names(lines[i])
      <4>1. rest = lines /\ lines[i] = Wifi!Ssid(OurNetwork)
        BY <3>2, Kinds DEF Wifi!Names, Wifi!Pop
      <4>2. OpenedBy(rest, i, i)
        BY <1>1, <4>1 DEF OpenedBy
      <4> QED
        BY <1>1, <4>2 DEF InOurBlock
    <3> QED
      BY <3>1, <3>2
  <2>4. wrong => block /\ rest[i].kind = "psk"
    BY DEF Wifi!PskWrong
  <2>5. current_block' => block /\ rest[i] # BlockEnd
    BY <2>1, Kinds DEF Wifi!InBlock
  <2> HIDE DEF block, rest, wrong
  <2>6. Sound(lines')
    BY <1>2, <2>1, <2>2, <2>3, <2>4, EditIsSound
  <2>7. /\ Len(lines') = Len(rest) /\ \A j \in 1 .. i - 1 : lines'[j] = rest[j]
        /\ lines'[i] = IF wrong THEN Wifi!Psk(OurPassword) ELSE rest[i]
    BY <1>1, <1>2, <1>3, <2>1, <2>2 DEF Sound
  <2>8. current_block' => \E h \in 1 .. i : OpenedBy(lines', h, i + 1)
    <3> SUFFICES ASSUME current_block' PROVE \E h \in 1 .. i : OpenedBy(lines', h, i + 1)
      OBVIOUS
    <3>1. PICK h \in 1 .. i : OpenedBy(rest, h, i)
      BY <2>3, <2>5 DEF InOurBlock
    <3>2. lines'[i] # BlockEnd
      BY <2>5, <2>7, Kinds
    <3>3. lines'[h] = Wifi!Ssid(OurNetwork)
      <4>1. rest[h] = Wifi!Ssid(OurNetwork)
        BY <3>1 DEF OpenedBy
      <4>2. h = i => ~wrong
        BY <2>4, <4>1, Kinds
      <4> QED
        BY <1>1, <2>7, <4>1, <4>2
    <3>4. \A j \in h .. i : lines'[j] # BlockEnd
      <4>1. \A j \in h .. i - 1 : rest[j] # BlockEnd
        BY <3>1 DEF OpenedBy
      <4> QED
        BY <1>1, <2>7, <3>2, <4>1
    <3> QED
      BY <1>1, <3>3, <3>4 DEF OpenedBy
  <2>9. Sound(file)'
    BY <1>1 DEF Sound, OthersOwn, WellFormed
  <2>10. Sound(lines)'
    BY <1>1, <2>6 DEF Sound, OthersOwn, WellFormed
  <2>11. i' \in 1 .. Len(lines') + 1
    BY <1>1, <1>3, <2>1, <2>2, <2>7
  <2>12. current_block' => \E h \in 1 .. i' - 1 : OpenedBy(lines', h, i')
    <3>1. i' = i + 1 /\ i' - 1 = i
      BY <1>1, <2>1
    <3> QED
      BY <2>8, <3>1, Zenon
  <2> QED
    BY <2>1, <2>9, <2>10, <2>11, <2>12 DEF ScriptInv, OpenedBy
<1> QED
  BY <1>1, <1>3, <1>4, <1>5

(* A start, the end of the loop, the two writes and a power failure.        *)
LEMMA ScriptStep == ScriptInv /\ [Wifi!Next]_script => ScriptInv'
<1> SUFFICES ASSUME ScriptInv, [Wifi!Next]_script PROVE ScriptInv'
  OBVIOUS
<1>1. ASSUME before' = before, Sound(file')
      PROVE  Sound(file)'
  BY <1>1 DEF Sound, OthersOwn, WellFormed
<1>2. ASSUME before' = before, Sound(lines')
      PROVE  Sound(lines)'
  BY <1>2 DEF Sound, OthersOwn, WellFormed
<1>3. CASE Wifi!Start
  <2>1. /\ lines' = file /\ i' = 1 /\ current_block' = FALSE /\ step' = "loop"
        /\ UNCHANGED <<file, before>>
    BY <1>3 DEF Wifi!Start
  <2>2. Len(file) \in Nat
    BY DEF ScriptInv, Sound
  <2> QED
    BY <1>1, <1>2, <2>1, <2>2 DEF ScriptInv
<1>4. CASE Wifi!LoopDone
  <2>1. /\ step' # "loop" /\ UNCHANGED <<file, before>> /\ Sound(lines)
        /\ lines' = IF net_exists THEN lines
                    ELSE lines \o <<Wifi!Open, Wifi!Ssid(OurNetwork), Wifi!Psk(OurPassword),
                                    Wifi!Close>>
    BY <1>4 DEF Wifi!LoopDone, ScriptInv
  <2>2. Sound(lines')
    BY <2>1, AddedIsSound
  <2> QED
    BY <1>1, <1>2, <2>1, <2>2 DEF ScriptInv
<1>5. CASE Wifi!Truncate
  <2>1. /\ file' = <<>> /\ step = "open" /\ step' = "write" /\ UNCHANGED <<before, lines>>
    BY <1>5 DEF Wifi!Truncate
  <2>2. Sound(<<>>)
    BY DEF Sound, WellFormed, OthersOwn
  <2> QED
    BY <1>1, <1>2, <2>1, <2>2 DEF ScriptInv
<1>6. CASE Wifi!WriteOut
  <2>1. file' = lines /\ step = "write" /\ step' = "off" /\ UNCHANGED before
    BY <1>6 DEF Wifi!WriteOut
  <2> QED
    BY <1>1, <2>1 DEF ScriptInv
<1>7. CASE Wifi!Crash
  <2>1. step' = "off" /\ UNCHANGED <<file, before>>
    BY <1>7 DEF Wifi!Crash
  <2> QED
    BY <1>1, <2>1 DEF ScriptInv
<1>8. CASE UNCHANGED script
  <2>1. UNCHANGED <<file, before, lines, i, current_block, step>>
    BY <1>8 DEF script
  <2> QED
    BY <1>1, <1>2, <2>1 DEF ScriptInv, OpenedBy
<1> QED
  BY ScriptRound, <1>3, <1>4, <1>5, <1>6, <1>7, <1>8 DEF Wifi!Next, Wifi!Script

LEMMA OnlyTheScript == [MCNext]_all => [Wifi!Next]_script
BY DEF MCNext, all, Connection, StartStation, Configure, StationStarted, PowerFailure,
   Uploading, Wifi!Next

(* For every file the supplicant accepts: whichever lines the loop skips    *)
(* and wherever the power fails, no network but ours has a password in the  *)
(* file that it did not have at first.                                      *)
THEOREM NoForeignPassword == MCSpec => []OthersKeepPsk
<1>1. MCInit => ScriptInv
  BY ScriptInit DEF MCInit
<1>2. ScriptInv => OthersKeepPsk
  <2> SUFFICES ASSUME ScriptInv, NEW e \in Wifi!Entries(file), e[1] # OurNetwork
               PROVE  e \in Wifi!Entries(before)
    BY DEF OthersKeepPsk, Wifi!OthersKeepPsk
  <2>1. PICK h \in 1 .. Len(file), k \in 1 .. Len(file) :
          /\ e = <<file[h].value, file[k].value>>
          /\ Wifi!InBlockOf(file, h, k) /\ file[k].kind = "psk"
    BY DEF Wifi!Entries
  <2> QED
    BY <2>1 DEF ScriptInv, Sound, OthersOwn
<1> QED
  BY <1>1, <1>2, ScriptStep, OnlyTheScript, PTL DEF MCSpec

----------------------------------------------------------------------------
(***************************************************************************)
(* The connection.  Where the two threads of TcpConnectorPi ask first they *)
(* need no lock for the flag, because each gives it up to the other: the   *)
(* connecting thread works only while it is false, all of a call of the    *)
(* sending thread but its end only while it is true (Turns).  So nobody    *)
(* touches the new socket before the flag is set (Fresh), and no failure   *)
(* is counted on a connection before its first send (Counted).  The types  *)
(* and the limit of the counter need no such care.                         *)
(***************************************************************************)
Turns == asks_first =>
  /\ connector \in {"socket", "connect", "connected"} => ~tcp_connected
  /\ sender \notin {"idle", "giveUp2"} => tcp_connected

Fresh == asks_first =>
  /\ connector = "connect" => connecting = sock
  /\ connector = "connected" => sock \in Fds /\ fds[sock] \in Established

\* A call that goes on has a socket, or none if the other thread forgot it.
Stored == connector = "socket" => sock # -1

\* The counter is at its limit exactly while write_bytes gives up.
Limit == IF sender \in {"giveUp", "giveUp0", "giveUp1", "giveUp2"}
           THEN send_error_counter = SEND_FAIL_MAX_FOR_DISCONNECT
           ELSE send_error_counter < SEND_FAIL_MAX_FOR_DISCONNECT

Counted == asks_first /\ ~app_disconnects =>
  /\ sender \notin {"disconnect", "disconnect0", "disconnect1"}
  /\ sender # "giveUp2" => /\ send_error_counter <= fails
                           /\ ~tcp_connected => send_error_counter = 0

Inv == TypeOK /\ Turns /\ Fresh /\ Stored /\ OpenIsConnected /\ Limit /\ Counted

LEMMA InitInv == Init => Inv
<1> SUFFICES ASSUME Init PROVE Inv
  OBVIOUS
<1>1. fds \in [Fds -> SocketStates]
  BY DEF Init, SocketStates
<1>2. TypeOK
  <2>1. /\ app_disconnects \in BOOLEAN /\ asks_first \in BOOLEAN
        /\ wlan \in BOOLEAN /\ tcp_connected \in BOOLEAN
    BY DEF Init
  <2>2. send_error_counter \in 0 .. SEND_FAIL_MAX_FOR_DISCONNECT /\ fails \in Nat
    BY ConnectorAssumption DEF Init
  <2>3. /\ mode \in Modes /\ sock \in Fds \cup {0, -1}
        /\ connector \in {"idle", "script", "socket", "connect", "connected"}
        /\ connecting \in Fds \cup {0}
        /\ sender \in SenderPC
    BY DEF Init, Modes, SenderPC
  <2> QED BY <1>1, <2>1, <2>2, <2>3 DEF TypeOK
<1>3. Turns /\ Fresh /\ Stored /\ OpenIsConnected
  BY DEF Init, Turns, Fresh, Stored, OpenIsConnected
<1>4. Limit /\ Counted
  BY ConnectorAssumption DEF Init, Limit, Counted
<1> QED BY <1>2, <1>3, <1>4 DEF Inv

(* init and the return of the script touch nothing that the parts of Inv    *)
(* relate; neither leads into connect_to_server.                           *)
LEMMA StepStart ==
  ASSUME Inv, (\E m \in Modes : InitConnector(m)) \/ ScriptReturns
  PROVE  Inv'
<1>1. /\ UNCHANGED <<usage, sock, tcp_connected, send_error_counter, fds, fails,
                     connecting, sender>>
      /\ connector' \in {"idle", "script"}
  BY DEF InitConnector, ScriptReturns, config
<1>2. mode' \in Modes /\ wlan' \in BOOLEAN
  BY DEF InitConnector, ScriptReturns, config, Inv, TypeOK
<1> QED BY <1>1, <1>2
        DEF usage, Inv, TypeOK, Turns, Fresh, Stored, OpenIsConnected, Limit, Counted

(* A call of connect_to_server begins a new count; where the threads ask    *)
(* first, the counter is 0 then.                                           *)
LEMMA StepSocket ==
  ASSUME Inv, Socket
  PROVE  Inv'
<1>1. /\ asks_first => ~tcp_connected /\ sender \in {"idle", "giveUp2"}
      /\ UNCHANGED <<app_disconnects, asks_first, mode, wlan, tcp_connected,
                     send_error_counter, connecting, sender>>
      /\ fails' = 0
  BY DEF Inv, TypeOK, SenderPC, Turns, Socket, is_connected, config, usage
<1>2. /\ sock' \in Fds \cup {-1}
      /\ fds' \in [Fds -> SocketStates]
      /\ connector' = IF sock' = -1 THEN "idle" ELSE "socket"
  BY DEF Inv, TypeOK, Socket, SocketStates
<1>3. TypeOK'
  BY <1>1, <1>2 DEF Inv, TypeOK
<1>4. Counted'
  BY <1>1, ConnectorAssumption DEF Inv, TypeOK, Counted
<1>5. Turns' /\ Fresh' /\ Stored' /\ OpenIsConnected'
  BY <1>1, <1>2 DEF Inv, Turns, Fresh, Stored, OpenIsConnected
<1>6. Limit'
  BY <1>1 DEF Inv, Limit
<1> QED BY <1>3, <1>4, <1>5, <1>6 DEF Inv

LEMMA StepConnect ==
  ASSUME Inv, ConnectCalled \/ ConnectFails \/ ConnectSucceeds \/ Connected
  PROVE  Inv'
<1>1. /\ UNCHANGED <<app_disconnects, asks_first, mode, wlan, sock, send_error_counter,
                     fails, sender>>
      /\ connector \in {"socket", "connect", "connected"}
  BY DEF ConnectCalled, ConnectFails, ConnectSucceeds, Connected, config, usage
<1>2. Limit'
  BY <1>1 DEF Inv, Limit
<1>3. CASE ConnectCalled
  <2>1. /\ UNCHANGED <<tcp_connected, fds>> /\ connecting' = sock
        /\ connector = "socket" /\ connector' = "connect"
    BY <1>3 DEF ConnectCalled
  <2> QED BY <1>1, <1>2, <2>1
          DEF Inv, TypeOK, Turns, Fresh, Stored, OpenIsConnected, Counted
<1>4. CASE ConnectFails
  <2>1. UNCHANGED <<tcp_connected, fds>> /\ connecting' = 0 /\ connector' = "idle"
    BY <1>4 DEF ConnectFails
  <2> QED BY <1>1, <1>2, <2>1
          DEF Inv, TypeOK, Turns, Fresh, Stored, OpenIsConnected, Counted
<1>5. CASE ConnectSucceeds
  <2>1. /\ UNCHANGED tcp_connected
        /\ asks_first => ~tcp_connected /\ connecting = sock
        /\ connector' = "connected" /\ connecting \in Fds /\ connecting' = 0
        /\ fds' = [fds EXCEPT ![connecting] = "connected"]
    BY <1>5 DEF ConnectSucceeds, Inv, Turns, Fresh
  <2>2. fds' \in [Fds -> SocketStates] /\ fds'[connecting] \in Established
    BY <2>1 DEF Inv, TypeOK, SocketStates, Established
  <2> QED BY <1>1, <1>2, <2>1, <2>2
          DEF Inv, TypeOK, Turns, Fresh, Stored, OpenIsConnected, Counted
<1>6. CASE Connected
  <2>1. /\ UNCHANGED <<fds, connecting>> /\ tcp_connected' = TRUE
        /\ connector = "connected" /\ connector' = "idle"
        /\ asks_first => sock \in Fds /\ fds[sock] \in Established
    BY <1>6 DEF Connected, Inv, Fresh
  <2> QED BY <1>1, <1>2, <2>1
          DEF Inv, TypeOK, Turns, Fresh, Stored, OpenIsConnected, Counted
<1> QED BY <1>3, <1>4, <1>5, <1>6

(* A send counts a failure; where the threads ask first, on a connection    *)
(* that is open.                                                           *)
LEMMA StepSend ==
  ASSUME Inv, CallWrite \/ SendOk \/ SendFails \/ CallDisconnect
  PROVE  Inv'
<1>1. /\ UNCHANGED <<app_disconnects, asks_first, mode, wlan, sock, tcp_connected, fds,
                     connector, connecting>>
      /\ asks_first => tcp_connected
  BY DEF CallWrite, SendOk, SendFails, CallDisconnect, config, usage, connect_pc, socket_is_open,
         is_connected, Inv, Turns
<1>2. CASE CallWrite \/ CallDisconnect
  BY <1>1, <1>2
     DEF CallWrite, CallDisconnect, Inv, TypeOK, Turns, Fresh, Stored, OpenIsConnected, Limit,
         Counted, SenderPC
<1>3. CASE SendOk
  BY <1>1, <1>3, ConnectorAssumption
     DEF SendOk, Inv, TypeOK, Turns, Fresh, Stored, OpenIsConnected, Limit, Counted, SenderPC
<1>4. CASE SendFails
  <2>1. /\ sender = "send"
        /\ send_error_counter' = send_error_counter + 1 /\ fails' = fails + 1
        /\ sender' = IF send_error_counter + 1 >= SEND_FAIL_MAX_FOR_DISCONNECT
                       THEN "giveUp" ELSE "idle"
    BY <1>4 DEF SendFails
  <2>2. /\ send_error_counter \in Nat /\ fails \in Nat
        /\ send_error_counter < SEND_FAIL_MAX_FOR_DISCONNECT
    BY <2>1 DEF Inv, TypeOK, Limit
  <2>3. TypeOK'
    BY <1>1, <2>1, <2>2, ConnectorAssumption DEF Inv, TypeOK, SenderPC
  <2>4. Limit'
    BY <2>1, <2>2, ConnectorAssumption DEF Limit
  <2>5. Counted'
    BY <1>1, <2>1, <2>2 DEF Inv, Counted
  <2>6. Turns' /\ Fresh' /\ Stored' /\ OpenIsConnected'
    BY <1>1, <2>1 DEF Inv, Turns, Fresh, Stored, OpenIsConnected
  <2> QED BY <2>3, <2>4, <2>5, <2>6 DEF Inv
<1> QED BY <1>2, <1>3, <1>4

(* Where the threads ask first the flag stays true while a disconnect is    *)
(* under way, so the other thread is outside of connect_to_server.         *)
LEMMA StepDisconnect ==
  ASSUME Inv, Disconnecting
  PROVE  Inv'
<1>1. UNCHANGED <<app_disconnects, asks_first, mode, wlan, fails, connector, connecting>>
  BY DEF Disconnecting, Shutdown, ForgetSocket, ForgetConnection, GivenUp, config, usage,
         connect_pc
<1>2. CASE Shutdown
  <2>1. fds' \in [Fds -> SocketStates]
    BY <1>2 DEF Shutdown, Inv, TypeOK, SocketStates
  <2> QED BY <1>1, <1>2, <2>1
          DEF Shutdown, Inv, TypeOK, Turns, Fresh, Stored, OpenIsConnected, Limit,
         Counted, SenderPC
<1>3. CASE ForgetSocket
  BY <1>1, <1>3
     DEF ForgetSocket, Inv, TypeOK, Turns, Fresh, Stored, OpenIsConnected, Limit,
         Counted, SenderPC
<1>4. CASE ForgetConnection
  BY <1>1, <1>4
     DEF ForgetConnection, Inv, TypeOK, Turns, Fresh, Stored, OpenIsConnected, Limit, Counted,
         SenderPC
<1>5. CASE GivenUp
  BY <1>1, <1>5, ConnectorAssumption
     DEF GivenUp, Inv, TypeOK, Turns, Fresh, Stored, OpenIsConnected, Limit, Counted, SenderPC
<1> QED BY <1>2, <1>3, <1>4, <1>5 DEF Disconnecting

(* A connection whose peer is gone stays one that connect() succeeded on.   *)
LEMMA StepNetwork ==
  ASSUME Inv, Network
  PROVE  Inv'
<1>1. UNCHANGED <<config, sock, tcp_connected, send_error_counter, fails, connect_pc, sender>>
  BY DEF Network, PeerGone, PeerNoticed
<1>2. PICK f \in Fds, s \in {"lost", "dead"} :
        fds[f] \in Established /\ fds' = [fds EXCEPT ![f] = s]
  BY DEF Network, PeerGone, PeerNoticed, Established
<1>3. /\ fds' \in [Fds -> SocketStates]
      /\ \A g \in Fds : fds[g] \in Established => fds'[g] \in Established
  BY <1>2 DEF Inv, TypeOK, SocketStates, Established
<1> QED BY <1>1, <1>3
        DEF config, usage, connect_pc, Inv, TypeOK, Turns, Fresh, Stored, OpenIsConnected,
            Limit, Counted

LEMMA StepInv == Inv /\ [Next]_vars => Inv'
<1> SUFFICES ASSUME Inv, [Next]_vars PROVE Inv'
  OBVIOUS
<1>1. CASE Next
  BY <1>1, StepStart, StepSocket, StepConnect, StepSend, StepDisconnect, StepNetwork
     DEF Next, ConnectorStep, SenderStep
<1>2. CASE UNCHANGED vars
  BY <1>2 DEF vars, config, usage, connect_pc, Inv, TypeOK, Turns, Fresh, Stored,
                 OpenIsConnected, Limit, Counted
<1> QED BY <1>1, <1>2

LEMMA Invariant == Spec => []Inv
BY InitInv, StepInv, PTL DEF Spec

(* The variables keep their types; the counter never passes its limit.      *)
THEOREM TypeCorrect == Spec => []TypeOK
<1>1. Inv => TypeOK
  BY DEF Inv
<1> QED BY <1>1, Invariant, PTL

(* Where both threads ask before they connect or disconnect, is_connected() *)
(* is true only of a socket that connect() succeeded on, whatever fails and *)
(* however the two threads interleave without a lock.                      *)
THEOREM FlagIsTrue == Spec => []OpenIsConnected
<1>1. Inv => OpenIsConnected
  BY DEF Inv
<1> QED BY <1>1, Invariant, PTL

LEMMA GaveUpInTime == Inv => NotHasty
<1> SUFFICES ASSUME Inv, asks_first, ~app_disconnects, sender = "giveUp"
             PROVE  fails >= SEND_FAIL_MAX_FOR_DISCONNECT
  BY DEF NotHasty
<1> QED BY ConnectorAssumption DEF Inv, TypeOK, Limit, Counted

(* write_bytes gives a connection up only after the full number of sends    *)
(* have failed on it, as long as nothing else disconnects and nobody        *)
(* connects over a connection.                                             *)
THEOREM GivesUpNotHastily == Spec => []NotHasty
BY GaveUpInTime, Invariant, PTL

(* A start of the program runs the script in init(STA); a power failure     *)
(* ends that init and nothing else of the connection has begun.            *)
LEMMA ComposedStep == Inv /\ [MCNext]_all => Inv'
<1> SUFFICES ASSUME Inv, [MCNext]_all PROVE Inv'
  OBVIOUS
<1>1. CASE StartStation \/ StationStarted
  BY <1>1, StepStart DEF StartStation, StationStarted, Modes
<1>2. CASE PowerFailure
  BY <1>2
     DEF PowerFailure, config, usage, Inv, TypeOK, Turns, Fresh, Stored, OpenIsConnected, Limit,
         Counted
<1>3. CASE Connection \/ Configure \/ Uploading \/ UNCHANGED all
  BY <1>3, StepInv DEF Connection, Configure, Uploading, all
<1> QED BY <1>1, <1>2, <1>3 DEF MCNext

(* What holds of the connection alone holds of it in the program that       *)
(* starts with the script, is cut off by power failures and starts again.  *)
THEOREM ConnectionInProgram == MCSpec => [](TypeOK /\ OpenIsConnected /\ NotHasty)
<1>1. MCInit => Inv
  BY InitInv DEF MCInit
<1>2. Inv => TypeOK /\ OpenIsConnected /\ NotHasty
  BY GaveUpInTime DEF Inv
<1> QED BY <1>1, <1>2, ComposedStep, PTL DEF MCSpec

===================================================================================
