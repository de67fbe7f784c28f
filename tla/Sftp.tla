------------------------------------- MODULE Sftp -------------------------------------
(***************************************************************************)
(* Sftp of driver_pi/Sftp.cpp: the upload of a folder over a CFTPClient,   *)
(* with the local files deleted once they are uploaded.  A transfer may    *)
(* break off and leave a part of the file at its destination, and the      *)
(* process may end between the upload and the deletion of a file; then, or *)
(* when a file failed, the application calls again.                        *)
(*                                                                         *)
(* upload_folder gives every file of the folder the same remote path, so   *)
(* that each upload replaces the one before.                               *)
(***************************************************************************)
CONSTANTS Paths,         \* the files of the local folder
          Remotes,       \* remote paths
          None, Part     \* no file; a file that is not whole

\* The content of a file is named by the path it was first at.
VARIABLES local,         \* the content of each local path
          server,        \* the content of each remote path
          todo,          \* the entries upload_folder has still to come to
          doing,         \* the entry whose upload has succeeded, not yet deleted
          remote, delete_after_upload, delete_exceptions,   \* arguments
          total_suc,
          found,         \* history: contents that upload_folder has found
          done,          \* history: contents that upload_folder has uploaded whole
          deleted        \* history: contents whose file upload_file has deleted

vars == <<local, server, todo, doing, remote, delete_after_upload,
          delete_exceptions, total_suc, found, done, deleted>>
args == <<remote, delete_after_upload, delete_exceptions>>

Contents == Paths \cup {None, Part}
Entries == {f \in Paths : local[f] # None}

Init == /\ local = [f \in Paths |-> f]
        /\ server = [r \in Remotes |-> None]
        /\ todo = {} /\ doing = None
        /\ remote \in Remotes /\ delete_after_upload = FALSE /\ delete_exceptions = {}
        /\ total_suc = TRUE
        /\ found = {} /\ done = {} /\ deleted = {}

----------------------------------------------------------------------------
\* A call of upload_folder; directory_iterator lists the folder in some order.
CallUploadFolder(r, del, exceptions) ==
  /\ todo = {} /\ doing = None /\ Entries # {}
  /\ todo' = Entries
  /\ remote' = r /\ delete_after_upload' = del /\ delete_exceptions' = exceptions
  /\ total_suc' = TRUE /\ done' = {}
  /\ found' = {local[f] : f \in Entries}
  /\ UNCHANGED <<local, server, doing, deleted>>

\* CFTPClient::UploadFile: the whole file arrives, or a part of it, or nothing.
UploadFile(f) ==
  /\ doing = None /\ f \in todo
  /\ todo' = todo \ {f}
  /\ server' = [server EXCEPT ![remote] = local[f]]
  /\ done' = done \cup {local[f]}
  /\ doing' = f
  /\ UNCHANGED <<local, args, total_suc, found, deleted>>

\* A deviation: the result of the upload is not looked at.
UploadFailsUnseen(f) ==
  /\ doing = None /\ f \in todo
  /\ todo' = todo \ {f}
  /\ server' \in {server, [server EXCEPT ![remote] = Part]}
  /\ doing' = f
  /\ UNCHANGED <<local, args, total_suc, found, done, deleted>>

\* A deviation: a failure is forgotten when a later file succeeds.
UploadFailsQuietly(f) ==
  /\ doing = None /\ f \in todo
  /\ todo' = todo \ {f}
  /\ UNCHANGED <<local, server, args, doing, total_suc, found, done, deleted>>

UploadFails(f) ==
  /\ doing = None /\ f \in todo
  /\ todo' = todo \ {f}
  /\ server' \in {server, [server EXCEPT ![remote] = Part]}
  /\ total_suc' = FALSE
  /\ UNCHANGED <<local, args, doing, found, done, deleted>>

DeleteThis(f) == delete_after_upload /\ f \notin delete_exceptions

\* remove(local_path), whose result is not looked at.
Remove ==
  /\ doing # None
  /\ IF DeleteThis(doing)
       THEN /\ local' = [local EXCEPT ![doing] = None]
            /\ deleted' = deleted \cup ({local[doing]} \cap Paths)
       ELSE UNCHANGED <<local, deleted>>
  /\ doing' = None
  /\ UNCHANGED <<server, todo, args, total_suc, found, done>>

RemoveFails ==
  /\ doing # None /\ DeleteThis(doing)
  /\ doing' = None
  /\ UNCHANGED <<local, server, todo, args, total_suc, found, done, deleted>>

\* download_file, when the server has the file; it may break off.
Download(f, r) ==
  /\ todo = {} /\ doing = None /\ server[r] # None
  /\ \E c \in {server[r], Part} : local' = [local EXCEPT ![f] = c]
  /\ UNCHANGED <<server, todo, doing, args, total_suc, found, done, deleted>>

\* The process ends within a call; the application calls again later.
Crash ==
  /\ todo # {} \/ doing # None
  /\ todo' = {} /\ doing' = None /\ total_suc' = FALSE
  /\ UNCHANGED <<local, server, args, found, done, deleted>>

Next ==
  \/ \E r \in Remotes, del \in BOOLEAN, ex \in SUBSET Paths : CallUploadFolder(r, del, ex)
  \/ \E f \in Paths : UploadFile(f) \/ UploadFails(f)
  \/ \E f \in Paths, r \in Remotes : Download(f, r)
  \/ Remove \/ RemoveFails \/ Crash

Spec == Init /\ [][Next]_vars

----------------------------------------------------------------------------
(* A file of the folder is deleted only while its content is whole on the  *)
(* server: whichever transfers break off, and if the process ends between  *)
(* the transfer and the deletion.                                          *)
DeletesUploaded ==
  [][\A f \in Paths : local[f] # None /\ local'[f] = None
       => \E r \in Remotes : server[r] = local[f]]_vars

(* What upload_folder has deleted stays on the server.  The comment of     *)
(* Sftp.cpp:45 gives each file a remote path of its own; in the code they  *)
(* have one for all, so that the next file writes over it.                 *)
DeletedAreKept ==
  \A c \in deleted : \/ \E f \in Paths : local[f] = c
                     \/ \E r \in Remotes : server[r] = c

(* upload_folder returns true only when every file it found has been       *)
(* uploaded whole in this call, whichever of them fail on the way.         *)
TrueMeansUploaded == (todo = {} /\ doing = None /\ total_suc) => found \subseteq done
=======================================================================================
