--------------------------- MODULE FileProcessing ---------------------------
(***************************************************************************)
(* The processing of one uploaded file: a job in the persistent cache is   *)
(* queued by the upload or by the owner, claimed by the workers of all     *)
(* nodes with a lease, scanned, and the file isolated or given previews;   *)
(* an administrator reviews isolated files.                                *)
(*                                                                         *)
(* The job row only changes by compare-and-swap. The state shown to users  *)
(* is read once by each actor and then overwritten from its own copy, so   *)
(* every read and every write of it is a step. Time is whether the         *)
(* NextAttemptAt or LeaseUntil of the job has come; previews, digests and  *)
(* the reuse of a duplicate's previews are one step that may fail.         *)
(***************************************************************************)
EXTENDS Naturals

CONSTANTS
    FileWorker,       \* workers, of any node
    FileMaxAttempts,  \* max_attempts of the configuration
    MaxFileQueue,     \* bound: calls of queueFileProcessing
    MaxFileFault      \* bound: errors, crashes and leases that run out while in use

ASSUME FileAssumption == {FileMaxAttempts, MaxFileQueue, MaxFileFault} \subseteq Nat

VARIABLES
    content,     \* what a scan of the object finds
    scanner,     \* is a scanner configured
    place,       \* where the object is: normal, quarantine or deleted
    fileJob,     \* the row fileprocessjob:*
    fileRipe,    \* its NextAttemptAt or LeaseUntil is not after now
    fileState,   \* the row fileprocess:*
    fileCall,    \* the call of queueFileProcessing, its copy of the state
    fileWorker,  \* the workers, their claim and their copy of the state
    fileReview,  \* the call of ReviewQuarantinedFile
    fileCalls, fileFaults,
    found,       \* has a scan found malware: no, yes, or a reviewer has released the file
    processed,   \* rounds of queueing in which an attempt ended without an error
    overlapped   \* a worker claimed the job while another was still at work on it

fileVars == <<content, scanner, place, fileJob, fileRipe, fileState, fileCall, fileWorker, fileReview,
              fileCalls, fileFaults, found, processed, overlapped>>
fileConst == <<content, scanner>>

FileRow(round, status, attempts) == [round |-> round, status |-> status, attempts |-> attempts]
Shown(scan, process, quarantine) == [scan |-> scan, process |-> process, quarantine |-> quarantine]
FileIdle == [pc |-> "idle", job |-> FileRow(0, "absent", 0), copy |-> Shown("", "", "")]
NoCall == [pc |-> "idle", copy |-> Shown("", "", "")]

fileScanBlocksAccess(s) == s.scan \notin {"", "clean", "skipped", "disabled", "manually_released"}

\* A cache or storage error, or a crash, out of the bounded number.
FileFault == fileFaults < MaxFileFault /\ fileFaults' = fileFaults + 1

-----------------------------------------------------------------------------
(* queueFileProcessing, after the upload or on the owner's request: the state is read, the job *)
(* is queued, and only then the state written.                                                 *)

queueRead ==
    /\ fileCall.pc = "idle" /\ fileCalls < MaxFileQueue
    /\ fileCalls' = fileCalls + 1
    /\ fileCall' = [pc |-> "enqueue", copy |-> Shown("pending", "queued", fileState.quarantine)]
    /\ UNCHANGED <<fileConst, place, fileJob, fileRipe, fileState, fileWorker, fileReview, fileFaults,
                   found, processed, overlapped>>

\* enqueuePersistentFileProcessingJob: a new row, or a finished one queued again; a job still
\* under way is left alone.
enqueueJob ==
    /\ fileCall.pc = "enqueue"
    /\ IF fileJob.status \in {"absent", "completed", "dead"}
         THEN fileJob' = FileRow(fileCalls, "queued", 0) /\ fileRipe' = TRUE
         ELSE UNCHANGED <<fileJob, fileRipe>>
    /\ fileCall' = [fileCall EXCEPT !.pc = "save"]
    /\ UNCHANGED <<fileConst, place, fileState, fileWorker, fileReview, fileCalls, fileFaults, found,
                   processed, overlapped>>

enqueueFails ==
    /\ fileCall.pc = "enqueue" /\ FileFault
    /\ fileCall' = [pc |-> "save", copy |-> [fileCall.copy EXCEPT !.process = "failed"]]
    /\ UNCHANGED <<fileConst, place, fileJob, fileRipe, fileState, fileWorker, fileReview, fileCalls,
                   found, processed, overlapped>>

queueSave ==
    /\ fileCall.pc = "save"
    /\ fileState' = fileCall.copy
    /\ fileCall' = NoCall
    /\ UNCHANGED <<fileConst, place, fileJob, fileRipe, fileWorker, fileReview, fileCalls, fileFaults,
                   found, processed, overlapped>>

-----------------------------------------------------------------------------
(* The worker. *)

\* Faulty variant: a job whose worker died is not taken over.
claimJobOnce(w) ==
    /\ fileWorker[w].pc = "idle" /\ fileRipe /\ fileJob.status \in {"queued", "retrying"}
    /\ fileJob' = [fileJob EXCEPT !.status = "processing", !.attempts = @ + 1]
    /\ fileRipe' = FALSE
    /\ fileWorker' = [fileWorker EXCEPT ![w] = [FileIdle EXCEPT !.pc = "read", !.job = fileJob']]
    /\ overlapped' = (overlapped \/ \E v \in FileWorker : fileWorker[v].pc # "idle")
    /\ UNCHANGED <<fileConst, place, fileState, fileCall, fileReview, fileCalls, fileFaults, found,
                   processed>>

\* claimPersistentFileProcessingJob: a job that is due, or whose lease has run out.
claimJob(w) ==
    /\ fileWorker[w].pc = "idle" /\ fileRipe
    /\ fileJob.status \in {"queued", "retrying", "processing"}
    /\ fileJob' = [fileJob EXCEPT !.status = "processing", !.attempts = @ + 1]
    /\ fileRipe' = FALSE
    /\ fileWorker' = [fileWorker EXCEPT ![w] = [FileIdle EXCEPT !.pc = "read", !.job = fileJob']]
    /\ overlapped' = (overlapped \/ \E v \in FileWorker : fileWorker[v].pc # "idle")
    /\ UNCHANGED <<fileConst, place, fileState, fileCall, fileReview, fileCalls, fileFaults, found, processed>>

\* The attempt of w has ended without an error, or with one.
Goes(w, pc, copy) == fileWorker' = [fileWorker EXCEPT ![w].pc = pc, ![w].copy = copy]

processRead(w) ==
    /\ fileWorker[w].pc = "read"
    /\ Goes(w, "start", [fileState EXCEPT !.process = "processing"])
    /\ UNCHANGED <<fileConst, place, fileJob, fileRipe, fileState, fileCall, fileReview, fileCalls,
                   fileFaults, found, processed, overlapped>>

processStart(w) ==
    /\ fileWorker[w].pc = "start"
    /\ fileState' = fileWorker[w].copy
    /\ Goes(w, "download", fileWorker[w].copy)
    /\ UNCHANGED <<fileConst, place, fileJob, fileRipe, fileCall, fileReview, fileCalls, fileFaults,
                   found, processed, overlapped>>

\* The object is copied and its digest saved; with a scanner the scan begins.
downloadToTemp(w) ==
    /\ fileWorker[w].pc = "download" /\ place = "normal"
    /\ fileState' = IF scanner THEN [fileWorker[w].copy EXCEPT !.scan = "scanning"]
                    ELSE fileWorker[w].copy
    /\ Goes(w, IF scanner THEN "scan" ELSE "previews",
            IF scanner THEN fileState' ELSE [fileState' EXCEPT !.scan = "skipped"])
    /\ UNCHANGED <<fileConst, place, fileJob, fileRipe, fileCall, fileReview, fileCalls, fileFaults,
                   found, processed, overlapped>>

downloadFails(w) ==
    /\ fileWorker[w].pc = "download"
    /\ \/ place # "normal" /\ UNCHANGED fileFaults
       \/ FileFault
    /\ Goes(w, "retry", fileWorker[w].copy)
    /\ UNCHANGED <<fileConst, place, fileJob, fileRipe, fileState, fileCall, fileReview, fileCalls,
                   found, processed, overlapped>>

scanFile(w) ==
    /\ fileWorker[w].pc = "scan"
    /\ found' = IF content = "infected" /\ found = "no" THEN "yes" ELSE found
    /\ IF content = "infected"
         THEN Goes(w, "isolate", Shown("quarantined", "blocked", fileWorker[w].copy.quarantine))
         ELSE Goes(w, "previews", [fileWorker[w].copy EXCEPT !.scan = "clean"])
    /\ UNCHANGED <<fileConst, place, fileJob, fileRipe, fileState, fileCall, fileReview, fileCalls,
                   fileFaults, processed, overlapped>>

scanFails(w) ==
    /\ fileWorker[w].pc = "scan" /\ FileFault
    /\ fileState' = [fileWorker[w].copy EXCEPT !.scan = "error"]
    /\ Goes(w, "retry", fileState')
    /\ UNCHANGED <<fileConst, place, fileJob, fileRipe, fileCall, fileReview, fileCalls, found,
                   processed, overlapped>>

\* QuarantineFile moves the object; what it did is saved afterwards.
QuarantineFile(w) ==
    /\ fileWorker[w].pc = "isolate"
    /\ \/ /\ place = "normal" /\ place' = "quarantine"
          /\ Goes(w, "isolated", [fileWorker[w].copy EXCEPT !.quarantine = "isolated"])
          /\ UNCHANGED fileFaults
       \/ /\ \/ place # "normal" /\ UNCHANGED fileFaults
             \/ FileFault
          /\ Goes(w, "isolated", [fileWorker[w].copy EXCEPT !.quarantine = "isolation_failed"])
          /\ UNCHANGED place
    /\ UNCHANGED <<fileConst, fileJob, fileRipe, fileState, fileCall, fileReview, fileCalls, found,
                   processed, overlapped>>

isolationSaved(w) ==
    /\ fileWorker[w].pc = "isolated"
    /\ fileState' = fileWorker[w].copy
    /\ Goes(w, IF fileWorker[w].copy.quarantine = "isolated" THEN "complete" ELSE "retry",
            fileWorker[w].copy)
    /\ processed' = IF fileWorker[w].copy.quarantine = "isolated"
                      THEN processed \cup {fileWorker[w].job.round} ELSE processed
    /\ UNCHANGED <<fileConst, place, fileJob, fileRipe, fileCall, fileReview, fileCalls, fileFaults,
                   found, overlapped>>

\* Previews are generated, or those of a duplicate reused, and the file is ready.
makeReady(w) ==
    /\ fileWorker[w].pc = "previews"
    /\ \/ /\ fileState' = [fileWorker[w].copy EXCEPT !.process = "ready"]
          /\ Goes(w, "complete", fileState')
          /\ processed' = processed \cup {fileWorker[w].job.round} /\ UNCHANGED fileFaults
       \/ FileFault /\ Goes(w, "retry", fileWorker[w].copy) /\ UNCHANGED <<fileState, processed>>
    /\ UNCHANGED <<fileConst, place, fileJob, fileRipe, fileCall, fileReview, fileCalls, found,
                   overlapped>>

\* Faulty variant: the row is completed although it was claimed by another worker.
completeJobAnyway(w) ==
    /\ fileWorker[w].pc = "complete"
    /\ fileJob' = [fileJob EXCEPT !.status = "completed"]
    /\ fileWorker' = [fileWorker EXCEPT ![w] = FileIdle]
    /\ UNCHANGED <<fileConst, place, fileRipe, fileState, fileCall, fileReview, fileCalls, fileFaults,
                   found, processed, overlapped>>

completeJob(w) ==
    /\ fileWorker[w].pc = "complete"
    /\ fileJob' = IF fileJob = fileWorker[w].job THEN [fileJob EXCEPT !.status = "completed"] ELSE fileJob
    /\ fileWorker' = [fileWorker EXCEPT ![w] = FileIdle]
    /\ UNCHANGED <<fileConst, place, fileRipe, fileState, fileCall, fileReview, fileCalls, fileFaults,
                   found, processed, overlapped>>

\* retryPersistentFileProcessingJob; the state is only recorded if the row was still ours.
retryJob(w) ==
    LET job == fileWorker[w].job
    IN  /\ fileWorker[w].pc = "retry"
        /\ IF fileJob = job
             THEN /\ fileJob' = [job EXCEPT !.status =
                                    IF job.attempts >= FileMaxAttempts THEN "dead" ELSE "retrying"]
                  /\ fileRipe' = FALSE
                  /\ fileWorker' = [fileWorker EXCEPT ![w].pc = "record", ![w].job = fileJob']
             ELSE fileWorker' = [fileWorker EXCEPT ![w] = FileIdle] /\ UNCHANGED <<fileJob, fileRipe>>
        /\ UNCHANGED <<fileConst, place, fileState, fileCall, fileReview, fileCalls, fileFaults, found,
                       processed, overlapped>>

recordRetryState(w) ==
    /\ fileWorker[w].pc \in {"record", "recorded"}
    /\ IF fileWorker[w].pc = "record"
         THEN /\ Goes(w, "recorded", [fileState EXCEPT !.process = fileWorker[w].job.status])
              /\ UNCHANGED fileState
         ELSE /\ fileState' = fileWorker[w].copy
              /\ fileWorker' = [fileWorker EXCEPT ![w] = FileIdle]
    /\ UNCHANGED <<fileConst, place, fileJob, fileRipe, fileCall, fileReview, fileCalls, fileFaults,
                   found, processed, overlapped>>

workerCrashes(w) ==
    /\ fileWorker[w].pc # "idle" /\ FileFault
    /\ fileWorker' = [fileWorker EXCEPT ![w] = FileIdle]
    /\ UNCHANGED <<fileConst, place, fileJob, fileRipe, fileState, fileCall, fileReview, fileCalls,
                   found, processed, overlapped>>

\* NextAttemptAt or LeaseUntil comes; the lease of a worker that is still at work only by an
\* attempt slower than lease_seconds.
Working == {w \in FileWorker : fileWorker[w].job = fileJob}
fileTimePasses ==
    /\ ~fileRipe /\ fileJob.status \in {"retrying", "processing"}
    /\ fileRipe' = TRUE
    /\ IF fileJob.status = "processing" /\ Working # {}
         THEN FileFault ELSE UNCHANGED fileFaults
    /\ UNCHANGED <<fileConst, place, fileJob, fileState, fileCall, fileWorker, fileReview, fileCalls,
                   found, processed, overlapped>>

-----------------------------------------------------------------------------
(* ReviewQuarantinedFile: the state is read, the object moved, the state written. *)

reviewRead ==
    /\ fileReview.pc = "idle" /\ fileState.quarantine = "isolated"
    /\ fileReview' = [pc |-> "move", copy |-> fileState]
    /\ UNCHANGED <<fileConst, place, fileJob, fileRipe, fileState, fileCall, fileWorker, fileCalls,
                   fileFaults, found, processed, overlapped>>

reviewMove ==
    /\ fileReview.pc = "move"
    /\ \/ /\ place = "quarantine" /\ place' = "normal"
          /\ fileReview' = [pc |-> "save", copy |-> Shown("manually_released", "ready", "released")]
          /\ found' = "released"
       \/ /\ place = "quarantine" /\ place' = "deleted"
          /\ fileReview' = [pc |-> "save", copy |-> [fileReview.copy EXCEPT
                               !.process = "blocked", !.quarantine = "deleted"]]
          /\ UNCHANGED found
       \/ place # "quarantine" /\ fileReview' = NoCall /\ UNCHANGED <<place, found>>
    /\ UNCHANGED <<fileConst, fileJob, fileRipe, fileState, fileCall, fileWorker, fileCalls, fileFaults,
                   processed, overlapped>>

reviewSave ==
    /\ fileReview.pc = "save"
    /\ fileState' = fileReview.copy
    /\ fileReview' = NoCall
    /\ UNCHANGED <<fileConst, place, fileJob, fileRipe, fileCall, fileWorker, fileCalls, fileFaults,
                   found, processed, overlapped>>

-----------------------------------------------------------------------------
FileInit ==
    /\ content \in {"fine", "infected"} /\ scanner \in BOOLEAN /\ place = "normal"
    /\ fileJob = FileRow(0, "absent", 0) /\ fileRipe = FALSE
    /\ fileState = Shown("disabled", "ready", "")
    /\ fileCall = NoCall /\ fileReview = NoCall
    /\ fileWorker = [w \in FileWorker |-> FileIdle]
    /\ fileCalls = 0 /\ fileFaults = 0 /\ found = "no" /\ processed = {} /\ overlapped = FALSE

fileStep(w) ==
    \/ claimJob(w) \/ processRead(w) \/ processStart(w) \/ downloadToTemp(w) \/ downloadFails(w)
    \/ scanFile(w) \/ QuarantineFile(w) \/ isolationSaved(w) \/ makeReady(w)
    \/ completeJob(w) \/ retryJob(w) \/ recordRetryState(w)

FileNext ==
    \/ queueRead \/ enqueueJob \/ enqueueFails \/ queueSave
    \/ \E w \in FileWorker : fileStep(w) \/ scanFails(w) \/ workerCrashes(w)
    \/ fileTimePasses
    \/ reviewRead \/ reviewMove \/ reviewSave

\* Time passes, the call that queues a file goes on and so does every worker.
FileFairness ==
    /\ WF_fileVars(fileTimePasses) /\ WF_fileVars(queueSave \/ enqueueJob)
    /\ \A w \in FileWorker : WF_fileVars(fileStep(w))
FileSpec == FileInit /\ [][FileNext]_fileVars /\ FileFairness

-----------------------------------------------------------------------------
ScanStatus == {"", "pending", "scanning", "error", "quarantined", "clean", "skipped", "disabled",
               "manually_released"}
ProcessStatus == {"", "queued", "failed", "processing", "retrying", "dead", "ready", "blocked"}
QuarantineStatus == {"", "isolated", "isolation_failed", "released", "deleted"}
ShownType == [scan : ScanStatus, process : ProcessStatus, quarantine : QuarantineStatus]

\* Type invariant; a job has no more attempts than configured, but for those whose worker died.
FileTypeOK ==
    /\ place \in {"normal", "quarantine", "deleted"}
    /\ fileJob.status \in {"absent", "queued", "processing", "retrying", "completed", "dead"}
    /\ fileJob.attempts \in 0 .. FileMaxAttempts + MaxFileFault
    /\ fileState \in ShownType /\ fileCall.copy \in ShownType /\ fileReview.copy \in ShownType
    /\ \A w \in FileWorker : fileWorker[w].copy \in ShownType
    /\ {fileRipe, overlapped} \subseteq BOOLEAN /\ found \in {"no", "yes", "released"}

\* A job is completed only by an attempt made since it was last queued: a late worker of an
\* earlier round, or one whose lease was taken over, does not complete what another has yet to do.
CompletedWasProcessed == fileJob.status = "completed" => fileJob.round \in processed

\* A file in which a scan found malware is out of reach, moved away or refused by its state,
\* until a reviewer has released it, through crashes, retries and the owner's requests to process
\* it again; unless a worker took the job over while another was at work, when the late one may
\* write its old copy of the state.
FoundIsBlocked ==
    found = "yes" /\ ~overlapped => place # "normal" \/ fileScanBlocksAccess(fileState)

\* A queued job is completed or dead in the end: a crash or a lost lease does not lose it.
FileIsSettled == fileJob.status = "queued" ~> fileJob.status \in {"completed", "dead"}

\* What the metadata endpoint is for: a completed job nobody works on shows its outcome.
OutcomeIsShown ==
    fileJob.status = "completed" /\ fileCall.pc = "idle" /\ \A w \in FileWorker : fileWorker[w].pc = "idle" =>
        fileState.process \in {"ready", "blocked"}

\* A job ends only by its own work, and what that work found stays blocked.
FileSafe == CompletedWasProcessed /\ FoundIsBlocked
=============================================================================
