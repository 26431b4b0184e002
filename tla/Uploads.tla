------------------------------ MODULE Uploads ------------------------------
(***************************************************************************)
(* One upload session: resumable, with chunks kept as objects or streamed  *)
(* into a multipart upload, of the object store or of the local file       *)
(* system, or direct, where the browser writes the parts into the object   *)
(* store and the server completes the upload.                              *)
(*                                                                         *)
(* Requests run on any node. A resumable request takes the write lease of  *)
(* the session and loads the session again under it; a direct one goes on  *)
(* with the session it loaded before. A part is <<number, lease token>>;   *)
(* its bytes, media types and the presigned addresses are left out.        *)
(***************************************************************************)
EXTENDS Naturals, Sequences, FiniteSets, SequencesExt

CONSTANTS
    UploadRequest,   \* places for requests under way
    UploadParts,     \* parts of the file
    MaxUploadLease,  \* bound: leases taken
    MaxUploadFault   \* bound: errors of cache and store, crashes, leases outlived

ASSUME UploadAssumption == {UploadParts, MaxUploadLease, MaxUploadFault} \subseteq Nat

VARIABLES
    upKind,     \* chunks, multipart (media/s3), local (media/fs) or direct
    upRow,      \* the row uploadsession:* or directupload:*
    upLease,    \* token of the row uploadlease:*, 0 if released
    upExpired,  \* its ExpiresAt has come
    upTokens, upFaults,
    upReq,      \* the requests
    upStored,   \* chunk objects, or parts of the multipart upload, in the object store
    multipart,  \* the multipart upload: open, completed, aborted, or gone with its object
    fileRecord, \* the record of the file: none, started, completed or deleted
    told,       \* a client has been given the result
    upStale,    \* a direct request has gone on with a session another had changed or was changing
    upUnsaved,  \* the session was not saved with the result of its upload
    upTorn      \* a deletion has failed halfway, a request has outlived its lease, or it took
                \* back a part that its failed save had committed

uploadVars == <<upKind, upRow, upLease, upExpired, upTokens, upFaults, upReq, upStored, multipart,
                fileRecord, told, upStale, upUnsaved, upTorn>>

Session(present, parts, result) == [present |-> present, parts |-> parts, result |-> result]
NoSession == Session(FALSE, <<>>, FALSE)
NoRequest == [pc |-> "idle", op |-> "none", copy |-> NoSession, token |-> 0, late |-> FALSE]

UploadFault == upFaults < MaxUploadFault /\ upFaults' = upFaults + 1
Part(h) == <<Len(upReq[h].copy.parts) + 1, upReq[h].token>>
Mine(h) == Last(upReq[h].copy.parts)

UploadGoes(h, pc, copy) == upReq' = [upReq EXCEPT ![h].pc = pc, ![h].copy = copy]

-----------------------------------------------------------------------------
(* The lease. *)

\* loadResumableUpload, loadDirectUpload. The expiry of direct uploads takes no lease.
loadUpload(h) ==
    \E op \in IF upKind = "direct" THEN {"complete", "delete", "expire"} ELSE {"patch", "delete"} :
        /\ upReq[h].pc = "idle" /\ upRow.present
        /\ upReq' = [upReq EXCEPT ![h] = [NoRequest EXCEPT
              !.pc = IF op = "expire" THEN "delete" ELSE "lease", !.op = op, !.copy = upRow]]
        /\ UNCHANGED <<upKind, upRow, upLease, upExpired, upTokens, upFaults, upStored, multipart,
                       fileRecord, told, upStale, upUnsaved, upTorn>>

\* acquireResumableUploadLease: a lease that is free or has expired.
acquireLease(h) ==
    /\ upReq[h].pc = "lease"
    /\ IF upLease # 0 /\ ~upExpired
         THEN upReq' = [upReq EXCEPT ![h] = NoRequest] /\ UNCHANGED <<upLease, upExpired, upTokens>>
         ELSE /\ upTokens < MaxUploadLease
              /\ upTokens' = upTokens + 1 /\ upLease' = upTokens + 1 /\ upExpired' = FALSE
              /\ upReq' = [upReq EXCEPT ![h].token = upTokens + 1, ![h].pc =
                     IF upKind = "direct" THEN upReq[h].op ELSE "reload"]
    /\ UNCHANGED <<upKind, upRow, upFaults, upStored, multipart, fileRecord, told, upStale, upUnsaved, upTorn>>

reloadUpload(h) ==
    /\ upReq[h].pc = "reload"
    /\ UploadGoes(h, IF upRow.present THEN upReq[h].op ELSE "release", upRow)
    /\ UNCHANGED <<upKind, upRow, upLease, upExpired, upTokens, upFaults, upStored, multipart,
                   fileRecord, told, upStale, upUnsaved, upTorn>>

\* releaseResumableUploadLease compares the row with what it wrote.
releaseLease(h) ==
    /\ upReq[h].pc = "release"
    /\ upLease' = IF upLease = upReq[h].token THEN 0 ELSE upLease
    /\ upReq' = [upReq EXCEPT ![h] = NoRequest]
    /\ UNCHANGED <<upKind, upRow, upExpired, upTokens, upFaults, upStored, multipart, fileRecord, told,
                   upStale, upUnsaved, upTorn>>

\* The lease runs out: of a request that crashed, or of one slower than two minutes.
AtWork(h) == upReq[h].token # 0
leaseExpires ==
    /\ upLease # 0 /\ ~upExpired
    /\ upExpired' = TRUE
    /\ IF \E h \in UploadRequest : upReq[h].token = upLease
         THEN UploadFault /\ upTorn' = TRUE ELSE UNCHANGED <<upFaults, upTorn>>
    /\ upReq' = [h \in UploadRequest |->
          IF upReq[h].token = upLease THEN [upReq[h] EXCEPT !.late = TRUE] ELSE upReq[h]]
    /\ UNCHANGED <<upKind, upRow, upLease, upTokens, upStored, multipart, fileRecord, told, upStale,
                   upUnsaved>>

uploadCrashes(h) ==
    /\ AtWork(h) /\ UploadFault
    /\ upReq' = [upReq EXCEPT ![h] = NoRequest]
    /\ UNCHANGED <<upKind, upRow, upLease, upExpired, upTokens, upStored, multipart, fileRecord, told,
                   upStale, upUnsaved, upTorn>>

-----------------------------------------------------------------------------
(* PATCH: appendResumableChunk and appendResumableMultipartPart. *)

Chunked == upKind = "chunks"

\* The part is stored; of a multipart upload it replaces the part of that number. A session
\* with a result takes no more.
putPart(h) ==
    /\ upReq[h].pc = "patch"
    /\ \/ /\ ~upReq[h].copy.result /\ (~Chunked => multipart = "open")
          /\ upStored' = {p \in upStored : Chunked \/ p[1] # Part(h)[1]} \cup {Part(h)}
          /\ UploadGoes(h, IF Part(h)[1] < UploadParts THEN "save" ELSE "finish",
                        [upReq[h].copy EXCEPT !.parts = Append(@, Part(h))])
          /\ UNCHANGED <<upFaults, told>>
       \/ /\ upReq[h].copy.result
          /\ UploadGoes(h, "release", upReq[h].copy) /\ told' = TRUE
          /\ UNCHANGED <<upStored, upFaults>>
       \/ /\ ~upReq[h].copy.result
          /\ IF ~Chunked /\ multipart # "open" THEN UNCHANGED upFaults ELSE UploadFault
          /\ UploadGoes(h, "release", upReq[h].copy) /\ UNCHANGED <<upStored, told>>
    /\ UNCHANGED <<upKind, upRow, upLease, upExpired, upTokens, multipart, fileRecord, upStale,
                   upUnsaved, upTorn>>

\* Faulty variant: the request that failed deletes all chunks of the session.
undoPartAll(h) ==
    /\ upStored' = IF Chunked THEN upStored \ ToSet(upReq[h].copy.parts) ELSE upStored
    /\ UploadGoes(h, "release", upReq[h].copy)

\* The request fails: its own chunk is deleted.
undoPart(h) ==
    /\ upStored' = IF Chunked THEN upStored \ {Mine(h)} ELSE upStored
    /\ UploadGoes(h, "release", upReq[h].copy)

\* The session is saved. A save that fails may have been committed: the chunk goes all the same.
savePart(h) ==
    /\ upReq[h].pc = "save"
    /\ \/ /\ upRow' = upReq[h].copy /\ UploadGoes(h, "release", upReq[h].copy)
          /\ UNCHANGED <<upStored, upFaults, upTorn>>
       \/ /\ UploadFault /\ undoPart(h)
          /\ \/ UNCHANGED <<upRow, upTorn>>
             \/ upRow' = upReq[h].copy /\ upTorn' = (upTorn \/ Chunked)
    /\ UNCHANGED <<upKind, upLease, upExpired, upTokens, multipart, fileRecord, told, upStale, upUnsaved>>

\* What the last part needs: the chunks can be opened; the object store compares the parts it is
\* told of with those it has; the file system looks for its temporary file, or for the file that
\* an earlier completion made of it.
Whole(copy) ==
    \/ Chunked /\ ToSet(copy.parts) \subseteq upStored
    \/ upKind = "multipart" /\ multipart = "open" /\ ToSet(copy.parts) = upStored
    \/ upKind = "local" /\ multipart \in {"open", "completed"}

\* The last part: the chunks are uploaded as one file, or the multipart upload is completed, and
\* its record finished, if it is still there. If a multipart upload was completed and its record
\* cannot be written both are deleted, errors ignored. A content that does not fit the declared
\* type deletes a session of chunks, errors ignored.
finishUpload(h) ==
    LET copy == upReq[h].copy
    IN  /\ upReq[h].pc = "finish"
        /\ \/ /\ Whole(copy)
              /\ UploadGoes(h, "result", [copy EXCEPT !.result = TRUE])
              /\ multipart' = IF Chunked THEN multipart ELSE "completed"
              /\ fileRecord' = IF fileRecord = "deleted" THEN "deleted" ELSE "completed"
              /\ UNCHANGED <<upRow, upStored, upFaults, upTorn>>
           \/ /\ IF Whole(copy) THEN UploadFault ELSE UNCHANGED upFaults
              /\ undoPart(h)
              /\ UNCHANGED <<upRow, multipart, fileRecord, upTorn>>
           \/ /\ Whole(copy) /\ ~Chunked /\ UploadFault
              /\ multipart' \in {"completed", "gone"} /\ fileRecord' \in {fileRecord, "deleted"}
              /\ undoPart(h) /\ UNCHANGED <<upRow, upTorn>>
           \/ /\ Whole(copy) /\ Chunked
              /\ upStored' = upStored \ ToSet(copy.parts)
              /\ UploadGoes(h, "release", copy)
              /\ \/ upRow' = NoSession /\ UNCHANGED <<upFaults, upTorn>>
                 \/ UploadFault /\ upTorn' = TRUE /\ UNCHANGED upRow
              /\ UNCHANGED <<multipart, fileRecord>>
        /\ UNCHANGED <<upKind, upLease, upExpired, upTokens, told, upStale, upUnsaved>>

\* The session is saved with the result, and still with its chunks. Of a multipart upload the
\* client is told whether that succeeds or not; of chunks, when they have been deleted.
saveResult(h) ==
    LET copy == upReq[h].copy
    IN  /\ upReq[h].pc = "result"
        /\ \/ /\ upRow' = copy /\ UNCHANGED upFaults
              /\ UploadGoes(h, IF Chunked THEN "clean" ELSE "release", copy)
           \/ /\ UploadFault /\ upRow' \in {upRow, copy}
              /\ UploadGoes(h, "release", copy)
        /\ told' = (told \/ ~Chunked)
        /\ upUnsaved' = (upUnsaved \/ ~upRow'.result)
        /\ UNCHANGED <<upKind, upLease, upExpired, upTokens, upStored, multipart, fileRecord, upStale, upTorn>>

\* The chunks are deleted; if some cannot be, the session goes on listing all of them.
cleanChunks(h) ==
    LET copy == upReq[h].copy
    IN  /\ upReq[h].pc = "clean"
        /\ \/ /\ upStored' = upStored \ ToSet(copy.parts)
              /\ UploadGoes(h, "compact", [copy EXCEPT !.parts = <<>>])
              /\ UNCHANGED <<upFaults, told>>
           \/ /\ UploadFault /\ \E some \in SUBSET ToSet(copy.parts) : upStored' = upStored \ some
              /\ UploadGoes(h, "release", copy) /\ told' = TRUE
        /\ UNCHANGED <<upKind, upRow, upLease, upExpired, upTokens, multipart, fileRecord, upStale,
                       upUnsaved, upTorn>>

\* It is saved once more, without them; an error is only logged.
compactSession(h) ==
    /\ upReq[h].pc = "compact"
    /\ \/ upRow' = upReq[h].copy /\ UNCHANGED upFaults
       \/ UploadFault /\ UNCHANGED upRow
    /\ UploadGoes(h, "release", upReq[h].copy) /\ told' = TRUE
    /\ UNCHANGED <<upKind, upLease, upExpired, upTokens, upStored, multipart, fileRecord, upStale,
                   upUnsaved, upTorn>>

-----------------------------------------------------------------------------
(* Direct uploads, and the end of a session. *)

\* completeDirectUpload, with the session it loaded; the browser has written the parts.
completeDirectUpload(h) ==
    LET copy == upReq[h].copy
    IN  /\ upReq[h].pc = "complete"
        /\ \/ copy.result /\ UploadGoes(h, "release", copy) /\ told' = TRUE
              /\ UNCHANGED <<multipart, fileRecord, upFaults>>
           \/ /\ ~copy.result /\ multipart = "open"
              /\ multipart' = "completed" /\ fileRecord' = "completed"
              /\ UploadGoes(h, "result", [copy EXCEPT !.result = TRUE])
              /\ UNCHANGED <<told, upFaults>>
           \/ /\ ~copy.result /\ multipart = "open" /\ UploadFault
              /\ multipart' \in {"completed", "gone"} /\ fileRecord' \in {fileRecord, "deleted"}
              /\ UploadGoes(h, "release", copy) /\ UNCHANGED told
           \/ /\ ~copy.result
              /\ IF multipart = "open" THEN UploadFault ELSE UNCHANGED upFaults
              /\ UploadGoes(h, "release", copy) /\ UNCHANGED <<told, multipart, fileRecord>>
        /\ upStale' = (upStale \/ upRow # copy)
        /\ UNCHANGED <<upKind, upRow, upLease, upExpired, upTokens, upStored, upUnsaved, upTorn>>

\* AbortMultipartUpload: the object store knows an upload only while it is open; the file system
\* is content when the temporary file is gone, because the upload was completed, too. Then the
\* record of the file is deleted.
CanAbort == upKind = "local" \/ multipart = "open"
Abort ==
    /\ multipart' = IF multipart = "open" THEN "aborted" ELSE multipart
    /\ fileRecord' = "deleted"

\* deleteResumableUpload, on DELETE or when the session is a day old: chunks, then the multipart
\* upload, unless there is a result, then the row; an error keeps what is left.
deleteResumableUpload(h) ==
    LET copy == upReq[h].copy
        abort == ~Chunked /\ ~copy.result
    IN  /\ upReq[h].pc = "delete" /\ upKind # "direct"
        /\ upStored' = IF Chunked THEN upStored \ ToSet(copy.parts) ELSE upStored
        /\ \/ /\ abort => CanAbort
              /\ IF abort THEN Abort ELSE UNCHANGED <<multipart, fileRecord>>
              /\ upRow' = NoSession /\ UNCHANGED <<upFaults, upTorn>>
           \/ /\ IF abort /\ ~CanAbort THEN UNCHANGED upFaults ELSE UploadFault
              /\ \/ UNCHANGED <<multipart, fileRecord>>
                 \/ abort /\ CanAbort /\ Abort
              /\ upTorn' = TRUE /\ UNCHANGED upRow
        /\ UploadGoes(h, "release", copy)
        /\ UNCHANGED <<upKind, upLease, upExpired, upTokens, told, upStale, upUnsaved>>

\* abortDirectUpload ignores errors.
abortDirectUpload(h) ==
    LET copy == upReq[h].copy
    IN  /\ upReq[h].pc = "delete" /\ upKind = "direct"
        /\ IF copy.result THEN UNCHANGED <<multipart, fileRecord>> ELSE Abort
        /\ upRow' = NoSession
        /\ upStale' = (upStale \/ upRow # copy \/ \E g \in UploadRequest \ {h} : AtWork(g))
        /\ IF upReq[h].op = "expire" THEN upReq' = [upReq EXCEPT ![h] = NoRequest]
                                     ELSE UploadGoes(h, "release", copy)
        /\ UNCHANGED <<upKind, upLease, upExpired, upTokens, upFaults, upStored, told, upUnsaved, upTorn>>

-----------------------------------------------------------------------------
\* The session has been created: createResumableUpload, createDirectUpload.
UploadInit ==
    /\ upKind \in {"chunks", "multipart", "local", "direct"}
    /\ upRow = Session(TRUE, <<>>, FALSE)
    /\ upLease = 0 /\ upExpired = FALSE /\ upTokens = 0 /\ upFaults = 0
    /\ upReq = [h \in UploadRequest |-> NoRequest]
    /\ upStored = {} /\ multipart = IF upKind = "chunks" THEN "none" ELSE "open"
    /\ fileRecord = IF upKind = "chunks" THEN "none" ELSE "started"
    /\ told = FALSE /\ upStale = FALSE /\ upUnsaved = FALSE /\ upTorn = FALSE

UploadNext ==
    \/ \E h \in UploadRequest :
          \/ loadUpload(h) \/ acquireLease(h) \/ reloadUpload(h) \/ releaseLease(h) \/ uploadCrashes(h)
          \/ putPart(h) \/ savePart(h) \/ finishUpload(h)
          \/ saveResult(h) \/ cleanChunks(h) \/ compactSession(h)
          \/ completeDirectUpload(h) \/ deleteResumableUpload(h) \/ abortDirectUpload(h)
    \/ leaseExpires

UploadSpec == UploadInit /\ [][UploadNext]_uploadVars

-----------------------------------------------------------------------------
UploadPart == (1 .. UploadParts) \X (1 .. MaxUploadLease)

\* Type invariant.
UploadTypeOK ==
    /\ upRow.parts \in Seq(UploadPart) /\ upStored \subseteq UploadPart
    /\ multipart \in {"none", "open", "completed", "aborted", "gone"}
    /\ fileRecord \in {"none", "started", "completed", "deleted"}
    /\ upLease \in 0 .. upTokens /\ {upExpired, told, upStale, upUnsaved, upTorn} \subseteq BOOLEAN

\* Two requests whose leases have not run out are never at work on one session, even when a
\* request that outlived its lease releases it while another holds it.
OneWriter ==
    \A g, h \in UploadRequest :
        AtWork(g) /\ AtWork(h) /\ ~upReq[g].late /\ ~upReq[h].late => g = h

\* Every chunk of a saved session without a result can be read when the file is put together,
\* whichever requests failed, crashed or were repeated; unless a deletion failed halfway, a request
\* outlived its lease, or a save was committed and reported as failed.
ChunksAreKept ==
    upKind = "chunks" /\ upRow.present /\ ~upRow.result /\ ~upTorn => ToSet(upRow.parts) \subseteq upStored

\* The file whose address a client was given keeps its record: neither a repeated request nor
\* the deletion or expiry of the session removes it. With chunks, and with a multipart upload of the
\* object store, that holds even if the result could not be saved. On the file system and of a
\* direct upload it takes that it was, and that no request worked beside another one (file
\* system) or with a session that another changed meanwhile (direct).
ResultIsKept ==
    /\ told /\ upKind \in {"chunks", "multipart"} => fileRecord = "completed"
    /\ told /\ upKind = "local" /\ ~upUnsaved /\ ~upTorn => fileRecord = "completed"
    /\ told /\ upKind = "direct" /\ ~upUnsaved /\ ~upStale => fileRecord = "completed"

\* One writer at a time, no part lost before the end, no result lost after it.
UploadSafe == OneWriter /\ ChunksAreKept /\ ResultIsKept
=============================================================================
