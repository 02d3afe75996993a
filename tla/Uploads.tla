------------------------------ MODULE Uploads ------------------------------
(***************************************************************************)
(* Files attached to a card: FileService over FileRepository and the       *)
(* object store, the FileUploadButton of the frontend, which requests an   *)
(* upload, PUTs the bytes to the presigned URL and confirms, other callers *)
(* of confirm, who may never have uploaded anything, and the hourly        *)
(* StaleUploadTask.                                                        *)
(***************************************************************************)
EXTENDS BoardOrder

CONSTANTS
    HostCard,  \* the card the files are attached to
    Files      \* file ids, used or not

ASSUME HostCardIsACard == HostCard \in Cards

VARIABLES
    file       \* rows of file_attachments, with their objects in the store

\* object: the bytes in the store.  Two history variables: blind, no bytes
\* were there when the row was completed; excused, the store refused to
\* delete them, or they arrived after the row was archived.
FileRow == [by : DOMAIN RoleOf, status : {"pending", "completed", "failed"},
            archived : BOOLEAN, object : {"none", "stored", "deleted"},
            blind : BOOLEAN, excused : BOOLEAN]

UploadsTypeOK ==
    DOMAIN file \subseteq Files /\ \A f \in DOMAIN file : file[f] \in FileRow

UploadsInit == file = <<>>

-----------------------------------------------------------------------------
AskFile(u, op, data) ==
    /\ Admit(u, op, data)
    /\ UNCHANGED <<orderVars, file>>

\* requestUpload: the card is found; the board is not looked at.
AskUpload(u) == Live(HostCard) /\ AskFile(u, "file.request", [id |-> Board])

RequestUpload(r) ==
    /\ r.op = "file.request"
    /\ \E f \in Files \ DOMAIN file :
         /\ file' = [g \in DOMAIN file \cup {f} |->
                       IF g \in DOMAIN file THEN file[g]
                       ELSE [by |-> r.user, status |-> "pending", archived |-> FALSE,
                             object |-> "none", blind |-> FALSE, excused |-> FALSE]]
         /\ inflight' = (inflight \ {r}) \cup {[r EXCEPT !.op = "file.put", !.data.id = f]}
    /\ UNCHANGED <<asked, orderVars>>

\* The PUT is not checked against the row; it may fail, and the button gives up.
PutObject(r) ==
    /\ r.op = "file.put"
    /\ \/ /\ file' = [file EXCEPT ![r.data.id].object = "stored",
                                  ![r.data.id].excused = @ \/ file[r.data.id].archived]
          /\ Continue(r, "file.confirm")
       \/ Finish(r) /\ UNCHANGED file
    /\ UNCHANGED orderVars

\* POST /files/:id/confirm of somebody who need not have uploaded the bytes.
AskConfirm(u, f) == AskFile(u, "file.confirm", [id |-> f])

\* The uploader and the admins.
MayManage(u, f) == file[f].by = u \/ RoleOf[u] \in AdminRoles

\* confirm reads the row and never asks the store: a completed row is
\* answered, only a pending one goes on.
ConfirmRead(r) ==
    /\ r.op = "file.confirm"
    /\ IF /\ ~file[r.data.id].archived /\ MayManage(r.user, r.data.id)
          /\ file[r.data.id].status = "pending"
       THEN Continue(r, "file.complete") ELSE Finish(r)
    /\ UNCHANGED <<orderVars, file>>

\* By id, whatever the row has become since it was read.
Confirm(r) ==
    /\ r.op = "file.complete"
    /\ file' = [file EXCEPT ![r.data.id].status = "completed",
                            ![r.data.id].blind = @ \/ file[r.data.id].object # "stored"]
    /\ Finish(r)
    /\ UNCHANGED orderVars

\* delete: by the uploader or an admin; the row is archived, then the object goes.
AskDeleteFile(u, f) ==
    /\ ~file[f].archived
    /\ MayManage(u, f)
    /\ AskFile(u, "file.delete", [id |-> f])

ArchiveFile_ObjectFirst(r) ==
    /\ r.op = "file.delete"
    /\ file' = [file EXCEPT ![r.data.id].object = "deleted"]
    /\ Continue(r, "file.deleteObject")
    /\ UNCHANGED orderVars

ArchiveFile(r) ==
    /\ r.op = "file.delete"
    /\ file' = [file EXCEPT ![r.data.id].archived = TRUE]
    /\ Continue(r, "file.deleteObject")
    /\ UNCHANGED orderVars

\* A failing deleteObject is logged, and the object stays.
DeleteObject_CompletedOnly(r) ==
    /\ r.op = "file.deleteObject"
    /\ \/ /\ file[r.data.id].status = "completed"
          /\ file' = [file EXCEPT ![r.data.id].object = "deleted"]
       \/ file[r.data.id].status # "completed" /\ UNCHANGED file
       \/ file' = [file EXCEPT ![r.data.id].excused = TRUE]
    /\ Finish(r)
    /\ UNCHANGED orderVars

DeleteObject(r) ==
    /\ r.op = "file.deleteObject"
    /\ \/ file' = [file EXCEPT ![r.data.id].object = "deleted"]
       \/ file' = [file EXCEPT ![r.data.id].excused = TRUE]
    /\ Finish(r)
    /\ UNCHANGED orderVars

\* markStalePendingAsFailed: any pending file may be a day old by now.
SweepStale(old) ==
    /\ old # {} /\ \A f \in old : file[f].status = "pending"
    /\ file' = [f \in DOMAIN file |->
                  IF f \in old THEN [file[f] EXCEPT !.status = "failed"] ELSE file[f]]
    /\ UNCHANGED <<requestVars, orderVars>>

UploadsNext ==
    \/ MayAsk /\ \E u \in DOMAIN RoleOf :
        \/ AskUpload(u)
        \/ \E f \in DOMAIN file : AskConfirm(u, f) \/ AskDeleteFile(u, f)
    \/ \E r \in inflight :
        \/ RequestUpload(r) \/ PutObject(r) \/ ConfirmRead(r) \/ Confirm(r)
        \/ ArchiveFile(r) \/ DeleteObject(r)
    \/ \E old \in SUBSET DOMAIN file : SweepStale(old)

-----------------------------------------------------------------------------
\* Bytes that were there when a row was completed are there as long as the
\* file can be downloaded: delete archives the row before it deletes the
\* object, and the sweep and a second confirm leave both alone.  A row may
\* be completed without any bytes, since confirm asks the store nothing.
ServesItsBytes ==
    \A f \in DOMAIN file :
        file[f].status = "completed" /\ ~file[f].archived
            => file[f].object = "stored" \/ file[f].blind

\* FileService.delete takes the bytes out of the store, whatever became of
\* the upload meanwhile, unless the store refused, the bytes arrived after
\* the row was archived, or the call to the store is still to come.
DeletedBytesGone ==
    \A f \in DOMAIN file :
        file[f].archived /\ file[f].object = "stored" /\ ~file[f].excused
            => \E r \in inflight : r.op = "file.deleteObject" /\ r.data.id = f

\* The rows and the store, as FileService keeps them: no download loses its
\* bytes, and a deletion leaves none behind.
FilesMatchStore == ServesItsBytes /\ DeletedBytesGone

=============================================================================
