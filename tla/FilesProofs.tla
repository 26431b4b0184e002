---------------------------- MODULE FilesProofs ----------------------------
(***************************************************************************)
(* Safety of the processing of a file and of an upload session, for every  *)
(* number of workers, requests and parts and every bound.                  *)
(***************************************************************************)
EXTENDS FileProcessing, Uploads, TLAPS

-----------------------------------------------------------------------------
(* The processing of a file. *)

FileStatus == {"absent", "queued", "processing", "retrying", "completed", "dead"}
FileRowType == [round : Nat, status : FileStatus, attempts : Nat]
FilePc == {"idle", "enqueue", "save", "move", "read", "start", "download", "scan", "isolate",
           "isolated", "previews", "complete", "retry", "record", "recorded"}
FileCallType == [pc : FilePc, copy : ShownType]
FileWorkerType == [pc : FilePc, job : FileRowType, copy : ShownType]

\* What the variables are, in full.
FileTypes ==
    /\ content \in {"fine", "infected"} /\ scanner \in BOOLEAN
    /\ place \in {"normal", "quarantine", "deleted"}
    /\ fileJob \in FileRowType /\ fileState \in ShownType
    /\ fileCall \in FileCallType /\ fileReview \in FileCallType
    /\ fileWorker \in [FileWorker -> FileWorkerType]
    /\ \A w \in FileWorker : fileWorker[w].pc = "record" => fileWorker[w].job.status \in {"retrying", "dead"}
    /\ fileCalls \in Nat /\ fileFaults \in Nat
    /\ found \in {"no", "yes", "released"} /\ overlapped \in BOOLEAN

\* The values that the actions write, as members of the sets of values.
LEMMA FileValues ==
    /\ {"", "pending", "scanning", "error", "quarantined", "clean", "skipped", "disabled",
        "manually_released"} \subseteq ScanStatus
    /\ {"", "queued", "failed", "processing", "retrying", "dead", "ready", "blocked"}
         \subseteq ProcessStatus
    /\ {"", "isolated", "isolation_failed", "released", "deleted"} \subseteq QuarantineStatus
    /\ {"absent", "queued", "processing", "retrying", "completed", "dead"} \subseteq FileStatus
    /\ {"idle", "enqueue", "save", "move", "read", "start", "download", "scan", "isolate", "isolated",
        "previews", "complete", "retry", "record", "recorded"} \subseteq FilePc
  BY DEF ScanStatus, ProcessStatus, QuarantineStatus, FileStatus, FilePc

\* An attempt about to complete the job has ended without an error in the round of its claim.
CompletingProcessed ==
    \A w \in FileWorker : fileWorker[w].pc = "complete" => fileWorker[w].job.round \in processed

\* As long as no job was taken over, one worker at most is at work.
OneAtWork ==
    ~overlapped => \A v, w \in FileWorker : fileWorker[v].pc # "idle" /\ fileWorker[w].pc # "idle" => v = w

\* What a worker's progress says of the file: malware is found by a scan only, and a file with
\* malware gets no previews where there is a scanner.
ScanFound ==
    /\ found = "yes" => scanner /\ content = "infected"
    /\ \A w \in FileWorker :
          /\ fileWorker[w].pc \in {"scan", "isolate", "isolated"} => scanner
          /\ fileWorker[w].pc \in {"isolate", "isolated"} => fileWorker[w].copy.scan = "quarantined"
          /\ fileWorker[w].pc = "previews" => ~scanner \/ content # "infected"

\* The copies of the state that will be written without being read again: the call that queues
\* the file writes a state that blocks, a reviewer's call one that follows the review.
CopiesFollow ==
    /\ fileCall.pc # "idle" => fileCall.copy.scan = "pending"
    /\ fileReview.pc = "save" => found = "released" \/ place = "deleted"

\* While no job was taken over and no reviewer has released the file: its state blocks access
\* from the scan on, and once malware was found the copy of the worker does too.
BlockedMeanwhile ==
    ~overlapped /\ found # "released" /\ place = "normal" =>
        /\ found = "yes" => fileScanBlocksAccess(fileState)
        /\ \A w \in FileWorker :
              /\ fileWorker[w].pc \in {"scan", "isolate", "isolated"} => fileScanBlocksAccess(fileState)
              /\ found = "yes" /\ fileWorker[w].pc \in {"start", "download", "recorded"} =>
                    fileScanBlocksAccess(fileWorker[w].copy)

\* The inductive invariant of the processing of a file.
FileInv ==
    /\ FileTypes /\ CompletedWasProcessed /\ CompletingProcessed
    /\ OneAtWork /\ ScanFound /\ CopiesFollow /\ BlockedMeanwhile

\* It holds of a file that was just uploaded.
LEMMA FileInitInv == FileInit => FileInv
  <1> SUFFICES ASSUME FileInit PROVE FileInv
    OBVIOUS
  <1> USE DEF FileInit, FileRow, Shown, FileIdle, NoCall
  <1>1. FileTypes
    BY FileValues DEF FileTypes, FileRowType, FileWorkerType, FileCallType, ShownType
  <1>2. CompletedWasProcessed /\ CompletingProcessed
    BY DEF CompletedWasProcessed, CompletingProcessed
  <1>3. OneAtWork /\ ScanFound /\ CopiesFollow /\ BlockedMeanwhile
    BY DEF OneAtWork, ScanFound, CopiesFollow, BlockedMeanwhile
  <1> QED
    BY <1>1, <1>2, <1>3 DEF FileInv

\* What Goes does to the workers: one field or two of one worker's record.
LEMMA GoesIs ==
    ASSUME FileTypes, NEW w \in FileWorker, NEW pc \in FilePc, NEW copy \in ShownType, Goes(w, pc, copy)
    PROVE  /\ fileWorker' \in [FileWorker -> FileWorkerType]
           /\ fileWorker'[w].pc = pc /\ fileWorker'[w].copy = copy /\ fileWorker'[w].job = fileWorker[w].job
           /\ \A v \in FileWorker \ {w} : fileWorker'[v] = fileWorker[v]
  BY DEF FileTypes, Goes, FileWorkerType

\* A worker that has ended its attempt is as it was before it.
LEMMA FileIdleIs ==
    ASSUME FileTypes, NEW w \in FileWorker, fileWorker' = [fileWorker EXCEPT ![w] = FileIdle]
    PROVE  /\ fileWorker' \in [FileWorker -> FileWorkerType]
           /\ fileWorker'[w].pc = "idle"
           /\ \A v \in FileWorker \ {w} : fileWorker'[v] = fileWorker[v]
  <1>1. FileIdle \in FileWorkerType /\ FileIdle.pc = "idle"
    BY FileValues DEF FileIdle, FileRow, Shown, FileWorkerType, FileRowType, ShownType
  <1> QED
    BY <1>1 DEF FileTypes

\* A change of one part of the state that users see keeps its type.
LEMMA ShownIs ==
    ASSUME NEW s \in ShownType
    PROVE  /\ \A x \in ScanStatus : /\ [s EXCEPT !.scan = x] \in ShownType
                                    /\ [s EXCEPT !.scan = x].scan = x
           /\ \A x \in ProcessStatus : /\ [s EXCEPT !.process = x] \in ShownType
                                       /\ [s EXCEPT !.process = x].scan = s.scan
           /\ \A x \in QuarantineStatus : /\ [s EXCEPT !.quarantine = x] \in ShownType
                                          /\ [s EXCEPT !.quarantine = x].scan = s.scan
  BY DEF ShownType

\* So does a change of the row of the job.
LEMMA FileRowIs ==
    ASSUME NEW j \in FileRowType, NEW s \in FileStatus
    PROVE  /\ [j EXCEPT !.status = s] \in FileRowType
           /\ [j EXCEPT !.status = s].status = s /\ [j EXCEPT !.status = s].round = j.round
           /\ [j EXCEPT !.status = s, !.attempts = @ + 1] \in FileRowType
           /\ [j EXCEPT !.status = s, !.attempts = @ + 1].status = s
           /\ [j EXCEPT !.status = s, !.attempts = @ + 1].round = j.round
  <1>1. j.attempts + 1 \in Nat
    BY DEF FileRowType
  <1> QED
    BY <1>1 DEF FileRowType

\* A worker at work that goes on, and any that ends, leaves one at work.
LEMMA StillOneAtWork ==
    ASSUME OneAtWork, NEW w \in FileWorker, fileWorker[w].pc # "idle", UNCHANGED overlapped,
           \A v \in FileWorker \ {w} : fileWorker'[v] = fileWorker[v]
    PROVE  OneAtWork'
  BY DEF OneAtWork

-----------------------------------------------------------------------------
(* One lemma per action of a worker: the action keeps the inductive invariant. *)

\* A claim begins an attempt; with no overlap all other workers are idle.
LEMMA ClaimJobInv ==
    ASSUME FileInv, NEW w \in FileWorker, claimJob(w)
    PROVE  FileInv'
  <1> USE DEF FileInv
  <1>1. fileJob' \in FileRowType /\ fileJob'.status = "processing" /\ fileJob'.round = fileJob.round
    BY FileRowIs, FileValues DEF claimJob, FileTypes
  <1>2. /\ fileWorker' \in [FileWorker -> FileWorkerType]
        /\ fileWorker'[w].pc = "read"
        /\ \A v \in FileWorker \ {w} : fileWorker'[v] = fileWorker[v]
    <2>1. [FileIdle EXCEPT !.pc = "read", !.job = fileJob'] \in FileWorkerType
      BY <1>1, FileValues DEF FileIdle, FileRow, Shown, FileWorkerType, FileRowType, ShownType
    <2>2. [FileIdle EXCEPT !.pc = "read", !.job = fileJob'].pc = "read"
      BY DEF FileIdle
    <2> QED
      BY <2>1, <2>2 DEF claimJob, FileTypes
  <1>3. FileTypes'
    BY <1>1, <1>2 DEF FileTypes, claimJob, fileConst
  <1>4. CompletedWasProcessed' /\ CompletingProcessed'
    BY <1>1, <1>2 DEF CompletedWasProcessed, CompletingProcessed, claimJob
  <1>5. ~overlapped' => ~overlapped /\ \A v \in FileWorker : fileWorker[v].pc = "idle"
    BY DEF claimJob, FileTypes
  <1>6. OneAtWork'
    BY <1>2, <1>5 DEF OneAtWork
  <1>7. ScanFound' /\ CopiesFollow'
    BY <1>2 DEF ScanFound, CopiesFollow, claimJob, fileConst
  <1>8. BlockedMeanwhile'
    BY <1>2, <1>5 DEF BlockedMeanwhile, claimJob, fileScanBlocksAccess
  <1> QED
    BY <1>3, <1>4, <1>6, <1>7, <1>8

\* The worker reads the state into its copy: what blocks access there blocks in the copy.
LEMMA ProcessReadInv ==
    ASSUME FileInv, NEW w \in FileWorker, processRead(w)
    PROVE  FileInv'
  <1> USE DEF FileInv
  <1>1. /\ fileWorker' \in [FileWorker -> FileWorkerType]
        /\ fileWorker'[w].pc = "start" /\ fileWorker'[w].copy.scan = fileState.scan
        /\ fileWorker'[w].job = fileWorker[w].job
        /\ \A v \in FileWorker \ {w} : fileWorker'[v] = fileWorker[v]
    <2>1. /\ [fileState EXCEPT !.process = "processing"] \in ShownType
          /\ [fileState EXCEPT !.process = "processing"].scan = fileState.scan
      BY ShownIs, FileValues DEF FileTypes
    <2>2. PICK copy \in ShownType : Goes(w, "start", copy) /\ copy.scan = fileState.scan
      BY <2>1 DEF processRead
    <2>3. FileTypes /\ "start" \in FilePc
      BY FileValues
    <2> QED
      BY <2>2, <2>3, GoesIs
  <1>2. UNCHANGED fileState
    BY DEF processRead
  <1>3. FileTypes'
    BY <1>1, <1>2 DEF FileTypes, processRead, fileConst, FileFault
  <1>4. CompletedWasProcessed' /\ CompletingProcessed'
    BY <1>1 DEF CompletedWasProcessed, CompletingProcessed, processRead
  <1>5. OneAtWork'
    BY <1>1, StillOneAtWork DEF processRead
  <1>6. ScanFound' /\ CopiesFollow'
    BY <1>1 DEF ScanFound, CopiesFollow, processRead, fileConst
  <1>7. BlockedMeanwhile'
    BY <1>1, <1>2 DEF BlockedMeanwhile, OneAtWork, ScanFound, fileScanBlocksAccess, processRead, fileConst
  <1> QED
    BY <1>3, <1>4, <1>5, <1>6, <1>7

\* The copy is written as it was read.
LEMMA ProcessStartInv ==
    ASSUME FileInv, NEW w \in FileWorker, processStart(w)
    PROVE  FileInv'
  <1> USE DEF FileInv
  <1>1. /\ fileWorker' \in [FileWorker -> FileWorkerType]
        /\ fileWorker'[w].pc = "download" /\ fileWorker'[w].copy = fileWorker[w].copy
        /\ fileWorker'[w].job = fileWorker[w].job
        /\ \A v \in FileWorker \ {w} : fileWorker'[v] = fileWorker[v]
    <2>1. fileWorker[w].copy \in ShownType
      BY DEF FileTypes, FileWorkerType
    <2> QED
      BY <2>1, GoesIs, FileValues DEF processStart
  <1>2. fileState' \in ShownType /\ fileState' = fileWorker[w].copy
    BY DEF processStart, FileTypes, FileWorkerType
  <1>3. FileTypes'
    BY <1>1, <1>2 DEF FileTypes, processStart, fileConst, FileFault
  <1>4. CompletedWasProcessed' /\ CompletingProcessed'
    BY <1>1 DEF CompletedWasProcessed, CompletingProcessed, processStart
  <1>5. OneAtWork'
    BY <1>1, StillOneAtWork DEF processStart
  <1>6. ScanFound' /\ CopiesFollow'
    BY <1>1 DEF ScanFound, CopiesFollow, processStart, fileConst
  <1>7. BlockedMeanwhile'
    BY <1>1, <1>2 DEF BlockedMeanwhile, OneAtWork, ScanFound, fileScanBlocksAccess, processStart, fileConst
  <1> QED
    BY <1>3, <1>4, <1>5, <1>6, <1>7

\* With a scanner the state blocks access from the copying of the object on.
LEMMA DownloadToTempInv ==
    ASSUME FileInv, NEW w \in FileWorker, downloadToTemp(w)
    PROVE  FileInv'
  <1> USE DEF FileInv
  <1>s. /\ fileState' \in ShownType
        /\ fileState'.scan = IF scanner THEN "scanning" ELSE fileWorker[w].copy.scan
        /\ [fileState' EXCEPT !.scan = "skipped"] \in ShownType
    <2>1. fileWorker[w].copy \in ShownType
      BY DEF FileTypes, FileWorkerType
    <2>2. /\ fileState' \in ShownType
          /\ fileState'.scan = IF scanner THEN "scanning" ELSE fileWorker[w].copy.scan
      BY <2>1, ShownIs, FileValues DEF downloadToTemp
    <2> QED
      BY <2>2, ShownIs, FileValues
  <1>1. /\ fileWorker' \in [FileWorker -> FileWorkerType]
        /\ fileWorker'[w].pc = IF scanner THEN "scan" ELSE "previews"
        /\ fileWorker'[w].job = fileWorker[w].job
        /\ \A v \in FileWorker \ {w} : fileWorker'[v] = fileWorker[v]
    <2>1. CASE scanner
      BY <1>s, <2>1, GoesIs, FileValues DEF downloadToTemp
    <2>2. CASE ~scanner
      BY <1>s, <2>2, GoesIs, FileValues DEF downloadToTemp
    <2> QED
      BY <2>1, <2>2
  <1>2. fileState' \in ShownType /\ fileState'.scan = IF scanner THEN "scanning" ELSE fileWorker[w].copy.scan
    BY <1>s
  <1>3. FileTypes'
    BY <1>1, <1>2 DEF FileTypes, downloadToTemp, fileConst, FileFault
  <1>4. CompletedWasProcessed' /\ CompletingProcessed'
    BY <1>1 DEF CompletedWasProcessed, CompletingProcessed, downloadToTemp
  <1>5. OneAtWork'
    BY <1>1, StillOneAtWork DEF downloadToTemp
  <1>6. ScanFound' /\ CopiesFollow'
    BY <1>1 DEF ScanFound, CopiesFollow, downloadToTemp, fileConst
  <1>7. BlockedMeanwhile'
    <2>1. fileWorker[w].pc = "download" /\ UNCHANGED <<scanner, content, place, found, overlapped>>
      BY DEF downloadToTemp, fileConst
    <2>2. CASE scanner
      BY <1>1, <1>2, <2>1, <2>2 DEF BlockedMeanwhile, OneAtWork, fileScanBlocksAccess
    <2>3. CASE ~scanner
      BY <1>1, <2>1, <2>3 DEF BlockedMeanwhile, ScanFound
    <2> QED
      BY <2>2, <2>3
  <1> QED
    BY <1>3, <1>4, <1>5, <1>6, <1>7

\* An object that is not where it was fails the attempt.
LEMMA DownloadFailsInv ==
    ASSUME FileInv, NEW w \in FileWorker, downloadFails(w)
    PROVE  FileInv'
  <1> USE DEF FileInv
  <1>1. /\ fileWorker' \in [FileWorker -> FileWorkerType]
        /\ fileWorker'[w].pc = "retry"
        /\ fileWorker'[w].job = fileWorker[w].job
        /\ \A v \in FileWorker \ {w} : fileWorker'[v] = fileWorker[v]
    <2>1. fileWorker[w].copy \in ShownType
      BY DEF FileTypes, FileWorkerType
    <2> QED
      BY <2>1, GoesIs, FileValues DEF downloadFails
  <1>2. UNCHANGED fileState
    BY DEF downloadFails
  <1>3. FileTypes'
    BY <1>1, <1>2 DEF FileTypes, downloadFails, fileConst, FileFault
  <1>4. CompletedWasProcessed' /\ CompletingProcessed'
    BY <1>1 DEF CompletedWasProcessed, CompletingProcessed, downloadFails
  <1>5. OneAtWork'
    BY <1>1, StillOneAtWork DEF downloadFails
  <1>6. ScanFound' /\ CopiesFollow'
    BY <1>1 DEF ScanFound, CopiesFollow, downloadFails, fileConst
  <1>7. BlockedMeanwhile'
    BY <1>1, <1>2 DEF BlockedMeanwhile, OneAtWork, ScanFound, fileScanBlocksAccess, downloadFails, fileConst
  <1> QED
    BY <1>3, <1>4, <1>5, <1>6, <1>7

\* A scan that finds malware does so while the state blocks access.
LEMMA ScanFileInv ==
    ASSUME FileInv, NEW w \in FileWorker, scanFile(w)
    PROVE  FileInv'
  <1> USE DEF FileInv
  <1>1. /\ fileWorker' \in [FileWorker -> FileWorkerType]
        /\ fileWorker'[w].pc = IF content = "infected" THEN "isolate" ELSE "previews"
        /\ content = "infected" => fileWorker'[w].copy.scan = "quarantined"
        /\ fileWorker'[w].job = fileWorker[w].job
        /\ \A v \in FileWorker \ {w} : fileWorker'[v] = fileWorker[v]
    <2>1. fileWorker[w].copy \in ShownType
      BY DEF FileTypes, FileWorkerType
    <2>2. /\ Shown("quarantined", "blocked", fileWorker[w].copy.quarantine) \in ShownType
          /\ Shown("quarantined", "blocked", fileWorker[w].copy.quarantine).scan = "quarantined"
          /\ [fileWorker[w].copy EXCEPT !.scan = "clean"] \in ShownType
      BY <2>1, FileValues DEF Shown, ShownType
    <2>3. CASE content = "infected"
      <3>1. Goes(w, "isolate", Shown("quarantined", "blocked", fileWorker[w].copy.quarantine))
        BY <2>3 DEF scanFile
      <3>2. FileTypes /\ "isolate" \in FilePc
        BY FileValues
      <3> QED
        BY <2>2, <2>3, <3>1, <3>2, GoesIs
    <2>4. CASE content # "infected"
      <3>1. Goes(w, "previews", [fileWorker[w].copy EXCEPT !.scan = "clean"])
        BY <2>4 DEF scanFile
      <3> QED
        BY <2>2, <2>4, <3>1, GoesIs, FileValues
    <2> QED
      BY <2>3, <2>4
  <1>2. UNCHANGED fileState
    BY DEF scanFile
  <1>0. /\ fileWorker[w].pc = "scan" /\ content \in {"fine", "infected"}
        /\ found' = IF content = "infected" /\ found = "no" THEN "yes" ELSE found
        /\ UNCHANGED <<content, scanner, place, fileJob, fileRipe, fileState, fileCall, fileReview,
                       fileCalls, fileFaults, processed, overlapped>>
    BY DEF scanFile, fileConst, FileTypes
  <1>3. FileTypes'
    BY <1>0, <1>1 DEF FileTypes
  <1>4. CompletedWasProcessed' /\ CompletingProcessed'
    BY <1>0, <1>1 DEF CompletedWasProcessed, CompletingProcessed
  <1>5. OneAtWork'
    BY <1>0, <1>1, StillOneAtWork
  <1>6. ScanFound' /\ CopiesFollow'
    BY <1>0, <1>1 DEF ScanFound, CopiesFollow
  <1>7. BlockedMeanwhile'
    BY <1>0, <1>1 DEF BlockedMeanwhile, OneAtWork, ScanFound, fileScanBlocksAccess
  <1> QED
    BY <1>3, <1>4, <1>5, <1>6, <1>7

\* A scan that fails leaves a state that blocks access.
LEMMA ScanFailsInv ==
    ASSUME FileInv, NEW w \in FileWorker, scanFails(w)
    PROVE  FileInv'
  <1> USE DEF FileInv
  <1>1. /\ fileWorker' \in [FileWorker -> FileWorkerType]
        /\ fileWorker'[w].pc = "retry"
        /\ fileWorker'[w].job = fileWorker[w].job
        /\ \A v \in FileWorker \ {w} : fileWorker'[v] = fileWorker[v]
    <2>1. fileState' \in ShownType
      BY ShownIs, FileValues DEF scanFails, FileTypes, FileWorkerType
    <2> QED
      BY <2>1, GoesIs, FileValues DEF scanFails
  <1>2. fileState' \in ShownType /\ fileState'.scan = "error"
    <2>1. fileWorker[w].copy \in ShownType
      BY DEF FileTypes, FileWorkerType
    <2> QED
      BY <2>1, ShownIs, FileValues DEF scanFails
  <1>3. FileTypes'
    BY <1>1, <1>2 DEF FileTypes, scanFails, fileConst, FileFault
  <1>4. CompletedWasProcessed' /\ CompletingProcessed'
    BY <1>1 DEF CompletedWasProcessed, CompletingProcessed, scanFails
  <1>5. OneAtWork'
    BY <1>1, StillOneAtWork DEF scanFails
  <1>6. ScanFound' /\ CopiesFollow'
    BY <1>1 DEF ScanFound, CopiesFollow, scanFails, fileConst
  <1>7. BlockedMeanwhile'
    BY <1>1, <1>2 DEF BlockedMeanwhile, OneAtWork, ScanFound, fileScanBlocksAccess, scanFails, fileConst
  <1> QED
    BY <1>3, <1>4, <1>5, <1>6, <1>7

\* The object is moved away, or stays and the state goes on blocking.
LEMMA QuarantineFileInv ==
    ASSUME FileInv, NEW w \in FileWorker, QuarantineFile(w)
    PROVE  FileInv'
  <1> USE DEF FileInv
  <1>1. /\ fileWorker' \in [FileWorker -> FileWorkerType]
        /\ fileWorker'[w].pc = "isolated" /\ fileWorker'[w].copy.scan = "quarantined"
        /\ fileWorker'[w].job = fileWorker[w].job
        /\ \A v \in FileWorker \ {w} : fileWorker'[v] = fileWorker[v]
    <2>1. fileWorker[w].copy \in ShownType /\ fileWorker[w].copy.scan = "quarantined"
      BY DEF FileTypes, FileWorkerType, ScanFound, QuarantineFile
    <2>2. /\ [fileWorker[w].copy EXCEPT !.quarantine = "isolated"] \in ShownType
          /\ [fileWorker[w].copy EXCEPT !.quarantine = "isolated"].scan = "quarantined"
          /\ [fileWorker[w].copy EXCEPT !.quarantine = "isolation_failed"] \in ShownType
          /\ [fileWorker[w].copy EXCEPT !.quarantine = "isolation_failed"].scan = "quarantined"
      BY <2>1, ShownIs, FileValues
    <2>3. PICK copy \in ShownType : Goes(w, "isolated", copy) /\ copy.scan = "quarantined"
      BY <2>2 DEF QuarantineFile
    <2>4. FileTypes /\ "isolated" \in FilePc
      BY FileValues
    <2> QED
      BY <2>3, <2>4, GoesIs
  <1>2. UNCHANGED fileState
    BY DEF QuarantineFile
  <1>3. FileTypes'
    BY <1>1, <1>2 DEF FileTypes, QuarantineFile, fileConst, FileFault
  <1>4. CompletedWasProcessed' /\ CompletingProcessed'
    BY <1>1 DEF CompletedWasProcessed, CompletingProcessed, QuarantineFile
  <1>5. OneAtWork'
    BY <1>1, StillOneAtWork DEF QuarantineFile
  <1>6. ScanFound' /\ CopiesFollow'
    BY <1>1 DEF ScanFound, CopiesFollow, QuarantineFile, fileConst
  <1>7. BlockedMeanwhile'
    BY <1>1, <1>2 DEF BlockedMeanwhile, OneAtWork, ScanFound, fileScanBlocksAccess, QuarantineFile, fileConst
  <1> QED
    BY <1>3, <1>4, <1>5, <1>6, <1>7

\* What the isolation did is saved; the attempt has ended without an error if it did.
LEMMA IsolationSavedInv ==
    ASSUME FileInv, NEW w \in FileWorker, isolationSaved(w)
    PROVE  FileInv'
  <1> USE DEF FileInv
  <1>1. /\ fileWorker' \in [FileWorker -> FileWorkerType]
        /\ fileWorker'[w].pc \in {"complete", "retry"}
        /\ fileWorker'[w].pc = "complete" => fileWorker[w].copy.quarantine = "isolated"
        /\ fileWorker'[w].job = fileWorker[w].job
        /\ \A v \in FileWorker \ {w} : fileWorker'[v] = fileWorker[v]
    <2>1. fileWorker[w].copy \in ShownType
      BY DEF FileTypes, FileWorkerType
    <2>2. CASE fileWorker[w].copy.quarantine = "isolated"
      BY <2>1, <2>2, GoesIs, FileValues DEF isolationSaved
    <2>3. CASE fileWorker[w].copy.quarantine # "isolated"
      BY <2>1, <2>3, GoesIs, FileValues DEF isolationSaved
    <2> QED
      BY <2>2, <2>3
  <1>2. fileState' \in ShownType /\ fileState'.scan = "quarantined"
    BY DEF isolationSaved, FileTypes, FileWorkerType, ScanFound
  <1>3. FileTypes'
    BY <1>1, <1>2 DEF FileTypes, isolationSaved, fileConst, FileFault
  <1>4. CompletedWasProcessed' /\ CompletingProcessed'
    BY <1>1 DEF CompletedWasProcessed, CompletingProcessed, isolationSaved
  <1>5. OneAtWork'
    BY <1>1, StillOneAtWork DEF isolationSaved
  <1>6. ScanFound' /\ CopiesFollow'
    BY <1>1 DEF ScanFound, CopiesFollow, isolationSaved, fileConst
  <1>7. BlockedMeanwhile'
    BY <1>1, <1>2 DEF BlockedMeanwhile, OneAtWork, ScanFound, fileScanBlocksAccess, isolationSaved, fileConst
  <1> QED
    BY <1>3, <1>4, <1>5, <1>6, <1>7

\* The previews are ready, the attempt has ended without an error; or it failed.
LEMMA MakeReadyInv ==
    ASSUME FileInv, NEW w \in FileWorker, makeReady(w)
    PROVE  FileInv'
  <1> USE DEF FileInv
  <1>1. /\ fileWorker' \in [FileWorker -> FileWorkerType]
        /\ \/ fileWorker'[w].pc = "complete" /\ processed' = processed \cup {fileWorker[w].job.round}
           \/ fileWorker'[w].pc = "retry" /\ processed' = processed
        /\ fileWorker'[w].job = fileWorker[w].job
        /\ \A v \in FileWorker \ {w} : fileWorker'[v] = fileWorker[v]
        /\ fileState' \in ShownType
    <2>1. /\ fileWorker[w].copy \in ShownType
          /\ [fileWorker[w].copy EXCEPT !.process = "ready"] \in ShownType
      BY FileValues, ShownIs DEF FileTypes, FileWorkerType
    <2>2. CASE FileFault /\ Goes(w, "retry", fileWorker[w].copy) /\ UNCHANGED <<fileState, processed>>
      BY <2>1, <2>2, GoesIs, FileValues DEF FileTypes
    <2>3. CASE /\ fileState' = [fileWorker[w].copy EXCEPT !.process = "ready"]
               /\ Goes(w, "complete", fileState')
               /\ processed' = processed \cup {fileWorker[w].job.round}
      <3>1. fileState' \in ShownType
        BY <2>1, <2>3
      <3>2. Goes(w, "complete", fileState')
        BY <2>3
      <3>3. /\ fileWorker' \in [FileWorker -> FileWorkerType] /\ fileWorker'[w].pc = "complete"
            /\ fileWorker'[w].job = fileWorker[w].job
            /\ \A v \in FileWorker \ {w} : fileWorker'[v] = fileWorker[v]
        BY <3>1, <3>2, GoesIs, FileValues
      <3>4. processed' = processed \cup {fileWorker[w].job.round}
        BY <2>3
      <3> QED
        BY <3>1, <3>3, <3>4
    <2> QED
      BY <2>2, <2>3 DEF makeReady
  <1>2. /\ fileWorker[w].pc = "previews"
        /\ UNCHANGED <<content, scanner, place, fileJob, fileCall, fileReview, fileCalls, found, overlapped>>
    BY DEF makeReady, fileConst
  <1>3. FileTypes'
    BY <1>1, <1>2 DEF FileTypes, makeReady, FileFault
  <1>4. CompletedWasProcessed' /\ CompletingProcessed'
    BY <1>1, <1>2 DEF CompletedWasProcessed, CompletingProcessed
  <1>5. OneAtWork'
    BY <1>1, <1>2, StillOneAtWork
  <1>6. ScanFound' /\ CopiesFollow'
    BY <1>1, <1>2 DEF ScanFound, CopiesFollow
  <1>7. BlockedMeanwhile'
    BY <1>1, <1>2 DEF BlockedMeanwhile, OneAtWork, ScanFound
  <1> QED
    BY <1>3, <1>4, <1>5, <1>6, <1>7

\* The row is completed only if it is still the claimed one, of a round that was processed.
LEMMA CompleteJobInv ==
    ASSUME FileInv, NEW w \in FileWorker, completeJob(w)
    PROVE  FileInv'
  <1> USE DEF FileInv
  <1>1. /\ fileWorker' \in [FileWorker -> FileWorkerType]
        /\ fileWorker'[w].pc = "idle"
        /\ \A v \in FileWorker \ {w} : fileWorker'[v] = fileWorker[v]
    BY FileIdleIs DEF completeJob
  <1>2. /\ fileJob' \in FileRowType
        /\ fileJob' = fileJob \/ (fileJob = fileWorker[w].job /\ fileJob'.round = fileJob.round)
    BY FileRowIs, FileValues DEF completeJob, FileTypes
  <1>0. /\ fileWorker[w].pc = "complete"
        /\ UNCHANGED <<content, scanner, place, fileState, fileCall, fileReview, fileCalls, fileFaults, found,
                       processed, overlapped>>
    BY DEF completeJob, fileConst
  <1>3. FileTypes'
    BY <1>0, <1>1, <1>2 DEF FileTypes
  <1>4. CompletedWasProcessed' /\ CompletingProcessed'
    BY <1>0, <1>1, <1>2 DEF CompletedWasProcessed, CompletingProcessed
  <1>5. OneAtWork'
    BY <1>0, <1>1, StillOneAtWork
  <1>6. ScanFound' /\ CopiesFollow'
    BY <1>0, <1>1 DEF ScanFound, CopiesFollow
  <1>7. BlockedMeanwhile'
    BY <1>0, <1>1 DEF BlockedMeanwhile, fileScanBlocksAccess
  <1> QED
    BY <1>3, <1>4, <1>5, <1>6, <1>7

\* A failed attempt leaves the row to be tried again or dead, or to whoever claimed it since.
LEMMA RetryJobInv ==
    ASSUME FileInv, NEW w \in FileWorker, retryJob(w)
    PROVE  FileInv'
  <1> USE DEF FileInv
  <1>0. /\ fileWorker[w].pc = "retry"
        /\ UNCHANGED <<content, scanner, place, fileState, fileCall, fileReview, fileCalls, fileFaults, found,
                       processed, overlapped>>
    BY DEF retryJob, fileConst
  <1>1. /\ fileWorker' \in [FileWorker -> FileWorkerType]
        /\ fileWorker'[w].pc \in {"idle", "record"}
        /\ fileWorker'[w].pc = "record" => fileWorker'[w].job.status \in {"retrying", "dead"}
        /\ \A v \in FileWorker \ {w} : fileWorker'[v] = fileWorker[v]
        /\ fileJob' \in FileRowType
        /\ fileJob' = fileJob \/ fileJob'.status \in {"retrying", "dead"}
    <2>1. CASE fileJob = fileWorker[w].job
      <3> DEFINE s == IF fileWorker[w].job.attempts >= FileMaxAttempts THEN "dead" ELSE "retrying"
                 j == [fileWorker[w].job EXCEPT !.status = s]
      <3>1. s \in {"retrying", "dead"} /\ s \in FileStatus
        BY FileValues
      <3> HIDE DEF s
      <3>2. j \in FileRowType /\ j.status \in {"retrying", "dead"}
        BY <2>1, <3>1, FileRowIs DEF FileTypes
      <3>3. fileJob' = j /\ fileWorker' = [fileWorker EXCEPT ![w].pc = "record", ![w].job = fileJob']
        BY <2>1 DEF retryJob, s
      <3> HIDE DEF j
      <3> QED
        BY <3>2, <3>3, FileValues DEF FileTypes, FileWorkerType
    <2>2. CASE fileJob # fileWorker[w].job
      BY <2>2, FileIdleIs DEF retryJob, FileTypes
    <2> QED
      BY <2>1, <2>2
  <1>3. FileTypes'
    BY <1>0, <1>1 DEF FileTypes
  <1>4. CompletedWasProcessed' /\ CompletingProcessed'
    BY <1>0, <1>1 DEF CompletedWasProcessed, CompletingProcessed
  <1>5. OneAtWork'
    BY <1>0, <1>1, StillOneAtWork
  <1>6. ScanFound' /\ CopiesFollow'
    BY <1>0, <1>1 DEF ScanFound, CopiesFollow
  <1>7. BlockedMeanwhile'
    BY <1>0, <1>1 DEF BlockedMeanwhile, fileScanBlocksAccess
  <1> QED
    BY <1>3, <1>4, <1>5, <1>6, <1>7

\* The state of a failed attempt is read, and written as it was read but for the status of the process.
LEMMA RecordRetryStateInv ==
    ASSUME FileInv, NEW w \in FileWorker, recordRetryState(w)
    PROVE  FileInv'
  <1> USE DEF FileInv
  <1>0. /\ fileWorker[w].pc \in {"record", "recorded"}
        /\ UNCHANGED <<content, scanner, place, fileJob, fileCall, fileReview, fileCalls, fileFaults, found,
                       processed, overlapped>>
    BY DEF recordRetryState, fileConst
  <1>1. /\ fileWorker' \in [FileWorker -> FileWorkerType]
        /\ \A v \in FileWorker \ {w} : fileWorker'[v] = fileWorker[v]
        /\ fileState' \in ShownType
        /\ \/ /\ fileWorker'[w].pc = "recorded" /\ fileWorker'[w].copy.scan = fileState.scan
              /\ UNCHANGED fileState
           \/ /\ fileWorker[w].pc = "recorded" /\ fileWorker'[w].pc = "idle"
              /\ fileState'.scan = fileWorker[w].copy.scan
    <2>1. CASE fileWorker[w].pc = "record"
      <3> DEFINE c == [fileState EXCEPT !.process = fileWorker[w].job.status]
      <3>1. fileWorker[w].job.status \in ProcessStatus
        BY <2>1, FileValues DEF FileTypes
      <3>2. c \in ShownType /\ c.scan = fileState.scan
        BY <3>1, ShownIs DEF FileTypes
      <3>3. Goes(w, "recorded", c) /\ UNCHANGED fileState
        BY <2>1 DEF recordRetryState
      <3> HIDE DEF c
      <3>4. FileTypes /\ fileState \in ShownType /\ "recorded" \in FilePc
        BY FileValues DEF FileTypes
      <3>5. /\ fileWorker' \in [FileWorker -> FileWorkerType]
            /\ fileWorker'[w].pc = "recorded" /\ fileWorker'[w].copy = c
            /\ \A v \in FileWorker \ {w} : fileWorker'[v] = fileWorker[v]
        BY <3>2, <3>3, <3>4, GoesIs
      <3> QED
        BY <3>2, <3>3, <3>4, <3>5
    <2>2. CASE fileWorker[w].pc = "recorded"
      <3>1. /\ fileState' = fileWorker[w].copy
            /\ fileWorker' = [fileWorker EXCEPT ![w] = FileIdle]
        BY <2>2 DEF recordRetryState
      <3>2. fileWorker[w].copy \in ShownType
        BY DEF FileTypes, FileWorkerType
      <3> QED
        BY <2>2, <3>1, <3>2, FileIdleIs
    <2> QED
      BY <1>0, <2>1, <2>2
  <1>3. FileTypes'
    BY <1>0, <1>1 DEF FileTypes
  <1>4. CompletedWasProcessed' /\ CompletingProcessed'
    BY <1>0, <1>1 DEF CompletedWasProcessed, CompletingProcessed
  <1>5. OneAtWork'
    BY <1>0, <1>1, StillOneAtWork
  <1>6. ScanFound' /\ CopiesFollow'
    BY <1>0, <1>1 DEF ScanFound, CopiesFollow
  <1>7. BlockedMeanwhile'
    BY <1>0, <1>1 DEF BlockedMeanwhile, OneAtWork, fileScanBlocksAccess
  <1> QED
    BY <1>3, <1>4, <1>5, <1>6, <1>7

\* A worker may die at any point: what it had written already blocks access.
LEMMA WorkerCrashesInv ==
    ASSUME FileInv, NEW w \in FileWorker, workerCrashes(w)
    PROVE  FileInv'
  <1> USE DEF FileInv
  <1>0. /\ fileWorker[w].pc # "idle" /\ fileFaults' \in Nat
        /\ UNCHANGED <<content, scanner, place, fileJob, fileState, fileCall, fileReview, fileCalls, found,
                       processed, overlapped>>
    BY DEF workerCrashes, fileConst, FileFault, FileTypes
  <1>1. /\ fileWorker' \in [FileWorker -> FileWorkerType]
        /\ fileWorker'[w].pc = "idle"
        /\ \A v \in FileWorker \ {w} : fileWorker'[v] = fileWorker[v]
    BY FileIdleIs DEF workerCrashes
  <1>3. FileTypes'
    BY <1>0, <1>1 DEF FileTypes
  <1>4. CompletedWasProcessed' /\ CompletingProcessed'
    BY <1>0, <1>1 DEF CompletedWasProcessed, CompletingProcessed
  <1>5. OneAtWork'
    BY <1>0, <1>1, StillOneAtWork
  <1>6. ScanFound' /\ CopiesFollow'
    BY <1>0, <1>1 DEF ScanFound, CopiesFollow
  <1>7. BlockedMeanwhile'
    BY <1>0, <1>1 DEF BlockedMeanwhile, fileScanBlocksAccess
  <1> QED
    BY <1>3, <1>4, <1>5, <1>6, <1>7

-----------------------------------------------------------------------------
(* The other actors, and the theorem. *)

\* The calls that queue the file and the reviewer's: the state they write blocks access, or the
\* file was deleted, or released.
LEMMA FileCallInv ==
    ASSUME FileInv,
           \/ queueRead \/ enqueueJob \/ enqueueFails \/ queueSave
           \/ fileTimePasses \/ reviewRead \/ reviewMove \/ reviewSave
    PROVE  FileInv'
  <1> USE DEF FileInv
  <1>0. UNCHANGED <<content, scanner, fileWorker, processed, overlapped>>
    BY DEF queueRead, enqueueJob, enqueueFails, queueSave, fileTimePasses, reviewRead, reviewMove,
           reviewSave, fileConst
  <1>1. CompletingProcessed' /\ OneAtWork'
    BY <1>0 DEF CompletingProcessed, OneAtWork
  <1>2. CASE queueRead
    <2>1. fileCall' \in FileCallType /\ fileCall'.copy.scan = "pending"
      <3>1. fileCall' = [pc |-> "enqueue", copy |-> Shown("pending", "queued", fileState.quarantine)]
        BY <1>2 DEF queueRead
      <3>2. /\ Shown("pending", "queued", fileState.quarantine) \in ShownType
            /\ Shown("pending", "queued", fileState.quarantine).scan = "pending"
        BY FileValues DEF Shown, ShownType, FileTypes
      <3> QED
        BY <3>1, <3>2, FileValues DEF FileCallType
    <2>2. FileTypes'
      BY <1>0, <1>2, <2>1 DEF queueRead, FileTypes
    <2>3. CompletedWasProcessed' /\ ScanFound' /\ CopiesFollow' /\ BlockedMeanwhile'
      <3>1. UNCHANGED <<place, fileJob, fileState, fileReview, found>>
        BY <1>2 DEF queueRead
      <3> QED
        BY <1>0, <2>1, <3>1 DEF CompletedWasProcessed, ScanFound, CopiesFollow, BlockedMeanwhile,
                                fileScanBlocksAccess
    <2> QED
      BY <1>1, <2>2, <2>3
  <1>3. CASE enqueueJob
    <2>1. fileJob' \in FileRowType /\ (fileJob' = fileJob \/ fileJob'.status = "queued")
      <3>1. /\ FileRow(fileCalls, "queued", 0) \in FileRowType
            /\ FileRow(fileCalls, "queued", 0).status = "queued"
        BY FileValues DEF FileRow, FileRowType, FileTypes
      <3> QED
        BY <1>3, <3>1 DEF enqueueJob, FileTypes
    <2>2. fileCall' \in FileCallType /\ fileCall'.copy.scan = fileCall.copy.scan
      BY <1>3, FileValues DEF enqueueJob, FileTypes, FileCallType
    <2>3. FileTypes'
      BY <1>0, <1>3, <2>1, <2>2 DEF enqueueJob, FileTypes
    <2>4. CompletedWasProcessed' /\ ScanFound' /\ CopiesFollow' /\ BlockedMeanwhile'
      <3>1. fileCall.pc # "idle" /\ UNCHANGED <<place, fileState, fileReview, found>>
        BY <1>3 DEF enqueueJob
      <3> QED
        BY <1>0, <2>1, <2>2, <3>1 DEF CompletedWasProcessed, ScanFound, CopiesFollow, BlockedMeanwhile,
                                      fileScanBlocksAccess
    <2> QED
      BY <1>1, <2>3, <2>4
  <1>4. CASE enqueueFails
    <2>1. fileCall' \in FileCallType /\ fileCall'.copy.scan = fileCall.copy.scan
      <3>1. fileCall.copy \in ShownType
        BY DEF FileTypes, FileCallType
      <3>2. /\ [fileCall.copy EXCEPT !.process = "failed"] \in ShownType
            /\ [fileCall.copy EXCEPT !.process = "failed"].scan = fileCall.copy.scan
        BY <3>1, ShownIs, FileValues
      <3> QED
        BY <1>4, <3>2, FileValues DEF enqueueFails, FileCallType
    <2>2. FileTypes'
      BY <1>0, <1>4, <2>1 DEF enqueueFails, FileTypes, FileFault
    <2>3. CompletedWasProcessed' /\ ScanFound' /\ CopiesFollow' /\ BlockedMeanwhile'
      <3>1. fileCall.pc # "idle" /\ UNCHANGED <<place, fileJob, fileState, fileReview, found>>
        BY <1>4 DEF enqueueFails
      <3> QED
        BY <1>0, <2>1, <3>1 DEF CompletedWasProcessed, ScanFound, CopiesFollow, BlockedMeanwhile,
                                fileScanBlocksAccess
    <2> QED
      BY <1>1, <2>2, <2>3
  <1>n. NoCall \in FileCallType /\ NoCall.pc = "idle"
    BY FileValues DEF NoCall, Shown, FileCallType, ShownType
  <1>5. CASE queueSave
    <2>1. fileState' \in ShownType /\ fileState'.scan = "pending"
      BY <1>5 DEF queueSave, FileTypes, FileCallType, CopiesFollow
    <2>2. FileTypes'
      BY <1>0, <1>5, <1>n, <2>1 DEF queueSave, FileTypes
    <2>3. CompletedWasProcessed' /\ ScanFound' /\ CopiesFollow' /\ BlockedMeanwhile'
      <3>1. fileCall'.pc = "idle" /\ UNCHANGED <<place, fileJob, fileReview, found>>
        BY <1>5, <1>n DEF queueSave
      <3> QED
        BY <1>0, <2>1, <3>1 DEF CompletedWasProcessed, ScanFound, CopiesFollow, BlockedMeanwhile,
                                fileScanBlocksAccess
    <2> QED
      BY <1>1, <2>2, <2>3
  <1>6. CASE fileTimePasses
    <2>1. UNCHANGED <<place, fileJob, fileState, fileCall, fileReview, found, fileCalls>> /\ fileFaults' \in Nat
      BY <1>6 DEF fileTimePasses, FileFault, FileTypes
    <2> QED
      BY <1>0, <1>1, <2>1 DEF FileTypes, CompletedWasProcessed, ScanFound, CopiesFollow, BlockedMeanwhile,
                              fileScanBlocksAccess
  <1>7. CASE reviewRead
    <2>1. /\ fileReview' \in FileCallType /\ fileReview'.pc = "move"
          /\ UNCHANGED <<place, fileJob, fileState, fileCall, found, fileCalls, fileFaults>>
      BY <1>7, FileValues DEF reviewRead, FileCallType, FileTypes
    <2> QED
      BY <1>0, <1>1, <2>1 DEF FileTypes, CompletedWasProcessed, ScanFound, CopiesFollow, BlockedMeanwhile,
                              fileScanBlocksAccess
  <1>8. CASE reviewMove
    <2>0. UNCHANGED <<fileJob, fileState, fileCall, fileCalls, fileFaults>>
      BY <1>8 DEF reviewMove
    <2>1. CASE place = "quarantine" /\ place' = "normal" /\ found' = "released"
               /\ fileReview' = [pc |-> "save", copy |-> Shown("manually_released", "ready", "released")]
      <3>1. fileReview' \in FileCallType
        BY <2>1, FileValues DEF Shown, FileCallType, ShownType
      <3>2. FileTypes'
        BY <1>0, <2>0, <2>1, <3>1 DEF FileTypes
      <3> QED
        BY <1>0, <1>1, <2>0, <2>1, <3>2 DEF CompletedWasProcessed, ScanFound, CopiesFollow, BlockedMeanwhile
    <2>2. CASE place = "quarantine" /\ place' = "deleted" /\ UNCHANGED found
               /\ fileReview' = [pc |-> "save", copy |-> [fileReview.copy EXCEPT
                                   !.process = "blocked", !.quarantine = "deleted"]]
      <3>1. fileReview' \in FileCallType
        BY <2>2, FileValues DEF FileTypes, FileCallType, ShownType
      <3>2. FileTypes'
        BY <1>0, <2>0, <2>2, <3>1 DEF FileTypes
      <3> QED
        BY <1>0, <1>1, <2>0, <2>2, <3>2 DEF CompletedWasProcessed, ScanFound, CopiesFollow, BlockedMeanwhile
    <2>3. CASE place # "quarantine" /\ fileReview' = NoCall /\ UNCHANGED <<place, found>>
      BY <1>0, <1>1, <1>n, <2>0, <2>3
      DEF FileTypes, CompletedWasProcessed, ScanFound, CopiesFollow, BlockedMeanwhile, fileScanBlocksAccess
    <2> QED
      BY <1>8, <2>1, <2>2, <2>3 DEF reviewMove
  <1>9. CASE reviewSave
    <2>1. /\ fileReview.pc = "save" /\ fileReview' = NoCall /\ fileState' \in ShownType
          /\ UNCHANGED <<place, fileJob, fileCall, found, fileCalls, fileFaults>>
      BY <1>9 DEF reviewSave, FileCallType, FileTypes
    <2> QED
      BY <1>0, <1>1, <1>n, <2>1 DEF FileTypes, CompletedWasProcessed, ScanFound, CopiesFollow,
                                    BlockedMeanwhile, fileScanBlocksAccess
  <1> QED
    BY <1>2, <1>3, <1>4, <1>5, <1>6, <1>7, <1>8, <1>9

\* Every step keeps the inductive invariant.
LEMMA FileStepInv == FileInv /\ [FileNext]_fileVars => FileInv'
  <1> SUFFICES ASSUME FileInv, [FileNext]_fileVars PROVE FileInv'
    OBVIOUS
  <1>1. CASE UNCHANGED fileVars
    BY <1>1 DEF fileVars, FileInv, FileTypes, CompletedWasProcessed, CompletingProcessed, OneAtWork,
                ScanFound, CopiesFollow, BlockedMeanwhile, fileScanBlocksAccess
  <1>2. ASSUME NEW w \in FileWorker, fileStep(w) \/ scanFails(w) \/ workerCrashes(w)
        PROVE  FileInv'
    BY <1>2, ClaimJobInv, ProcessReadInv, ProcessStartInv, DownloadToTempInv, DownloadFailsInv, ScanFileInv,
       ScanFailsInv, QuarantineFileInv, IsolationSavedInv, MakeReadyInv, CompleteJobInv, RetryJobInv,
       RecordRetryStateInv, WorkerCrashesInv DEF fileStep
  <1> QED
    BY <1>1, <1>2, FileCallInv DEF FileNext

\* A job is completed only by an attempt of its round, and a file in which a scan found malware
\* is out of reach until a reviewer has released it, whatever crashes, is retried or queued
\* again: for every number of workers, attempts, calls and faults.
THEOREM FilesAreSafe == FileSpec => []FileSafe
  <1>1. FileInv => FileSafe
    BY DEF FileInv, FileTypes, FileSafe, FoundIsBlocked, BlockedMeanwhile
  <1> QED
    BY FileInitInv, FileStepInv, <1>1, PTL DEF FileSpec

-----------------------------------------------------------------------------
(* Upload sessions. *)

UploadKinds == {"chunks", "multipart", "local", "direct"}
UploadWord == {"idle", "lease", "reload", "patch", "save", "finish", "result", "clean", "compact", "release",
               "complete", "delete", "expire", "none"}
UploadOp == {"none", "patch", "complete", "delete", "expire"}
PartType == Nat \X Nat
SessionType == [present : BOOLEAN, parts : Seq(PartType), result : BOOLEAN]
RequestType == [pc : UploadWord, op : UploadOp, copy : SessionType, token : Nat, late : BOOLEAN]

\* What the variables are.
UploadTypes ==
    /\ upKind \in UploadKinds /\ upRow \in SessionType
    /\ upLease \in Nat /\ upTokens \in Nat /\ upFaults \in Nat
    /\ upReq \in [UploadRequest -> RequestType]

\* The lease row and the requests: tokens are never used twice, and the request at work whose
\* lease has not run out is the one whose token the row has.
LeasesHeld ==
    /\ upLease <= upTokens
    /\ \A h \in UploadRequest :
          /\ upReq[h].token <= upTokens
          /\ upReq[h].token # 0 /\ ~upReq[h].late => upReq[h].token = upLease /\ ~upExpired
          /\ upReq[h].late => upTorn
          /\ upReq[h].pc \in {"reload", "patch", "save", "finish", "result", "clean", "compact", "complete"} =>
                upReq[h].token # 0
          /\ upReq[h].pc = "delete" /\ upKind # "direct" => upReq[h].token # 0
    /\ \A g, h \in UploadRequest : upReq[g].token # 0 /\ upReq[g].token = upReq[h].token => g = h

\* What the chunks of a session that nothing has torn owe to one request: those of the row were
\* stored by earlier leases than that of the request at work, whose copy has at most its own
\* besides, all of them stored, until there is a result.
ChunksOf(h) ==
    /\ upReq[h].pc \in {"reload", "patch", "save", "finish"} =>
          \A p \in ToSet(upRow.parts) : p[2] < upReq[h].token
    /\ upReq[h].pc = "patch" =>
          upReq[h].copy.parts = upRow.parts /\ upReq[h].copy.result = upRow.result /\ upRow.present
    /\ upReq[h].pc \in {"save", "finish"} =>
          /\ ToSet(upReq[h].copy.parts) \subseteq upStored
          /\ upReq[h].copy.parts # <<>> /\ Mine(h)[2] = upReq[h].token
    /\ upReq[h].pc \in {"save", "finish", "result", "clean", "compact"} =>
          \A p \in ToSet(upReq[h].copy.parts) : p[2] <= upReq[h].token
    /\ upReq[h].pc \in {"clean", "compact"} => upRow.result

\* What they are in the row: stored, while there is no result.
ChunksOfRow ==
    /\ upRow.present /\ ~upRow.result => ToSet(upRow.parts) \subseteq upStored
    /\ \A p \in ToSet(upRow.parts) : p[2] <= upTokens

ChunksFollow == upKind = "chunks" /\ ~upTorn => ChunksOfRow /\ \A h \in UploadRequest : ChunksOf(h)

\* Somebody knows the result: the session, a request or a client.
ResultKnown == told \/ upRow.result \/ \E h \in UploadRequest : upReq[h].copy.result

\* A result that is known is there, and nothing is left to complete or abort.
ResultThere == ResultKnown => fileRecord = "completed" /\ multipart # "open"

\* It is, of chunks and of a multipart upload of the object store.
ResultsFollow ==
    /\ upKind = "chunks" <=> multipart = "none"
    /\ multipart \in {"none", "open"} => fileRecord # "deleted"
    /\ \A h \in UploadRequest : upReq[h].pc \in {"result", "clean", "compact"} => upReq[h].copy.result
    /\ upKind \in {"chunks", "multipart"} => ResultThere

\* Where a session without its result may be aborted although the file is complete: no result
\* went unsaved, and no request worked beside another or with an old session.
AllSaved ==
    (upKind = "direct" /\ ~upStale) \/ (upKind = "local" /\ ~upTorn)

\* What a request knows there: a result that it is about to save, or that is in the session unless
\* the session was deleted.
SavedOf(h) ==
    /\ upReq[h].copy.result => upReq[h].pc = "result" \/ upRow.result \/ ~upRow.present
    /\ upKind = "direct" /\ upReq[h].pc \in {"lease", "complete", "delete"} => upReq[h].copy.present
    /\ upKind = "local" /\ upReq[h].pc \in {"patch", "save", "finish", "delete"} =>
          upRow.present /\ upReq[h].copy.present /\ upReq[h].copy.result = upRow.result
    /\ upReq[h].pc \in {"save", "finish"} => ~upReq[h].copy.result /\ (upKind = "local" => multipart = "open")

SavedFollows ==
    AllSaved /\ ~upUnsaved =>
        ResultThere /\ (told => upRow.result \/ ~upRow.present) /\ \A h \in UploadRequest : SavedOf(h)

\* The requests of a direct upload neither load the session again nor bring parts; those of
\* other uploads complete nothing from outside, and only chunks are cleaned up.
KindOf(h) ==
    /\ upKind = "direct" => upReq[h].op # "patch" /\ upReq[h].pc \notin {"reload", "patch", "save", "finish"}
    /\ upKind # "direct" => upReq[h].op \in {"none", "patch", "delete"} /\ upReq[h].pc # "complete"
    /\ upReq[h].pc \in {"clean", "compact"} => upKind = "chunks"

KindsApart == \A h \in UploadRequest : KindOf(h)

\* The inductive invariant of an upload session.
UploadInv ==
    UploadTypes /\ LeasesHeld /\ ChunksFollow /\ ResultsFollow /\ SavedFollows /\ KindsApart

\* The words that the actions write, as members of the set of words.
LEMMA UploadWords ==
    /\ {"idle", "none", "lease", "reload", "patch", "save", "finish", "result", "clean", "compact",
        "release", "complete", "delete", "expire"} \subseteq UploadWord
    /\ {"chunks", "multipart", "local", "direct"} = UploadKinds
  BY DEF UploadWord, UploadKinds

\* What appending a part does to a sequence of parts.
LEMMA AppendPart ==
    ASSUME NEW s \in Seq(PartType), NEW x \in PartType
    PROVE  /\ Append(s, x) \in Seq(PartType) /\ Append(s, x) # <<>>
           /\ Last(Append(s, x)) = x
           /\ ToSet(Append(s, x)) = ToSet(s) \cup {x}
  <1>1. Append(s, x) \in Seq(PartType) /\ Len(Append(s, x)) = Len(s) + 1 /\ Append(s, x)[Len(s) + 1] = x
    OBVIOUS
  <1>2. Append(s, x) # <<>> /\ Last(Append(s, x)) = x
    BY <1>1 DEF Last
  <1>3. ToSet(Append(s, x)) = ToSet(s) \cup {x}
    <2>1. \A i \in 1 .. Len(s) : Append(s, x)[i] = s[i]
      OBVIOUS
    <2>2. DOMAIN Append(s, x) = 1 .. Len(s) + 1 /\ DOMAIN s = 1 .. Len(s) /\ Len(s) \in Nat
      BY <1>1
    <2>3. 1 .. Len(s) + 1 = (1 .. Len(s)) \cup {Len(s) + 1}
      BY <2>2
    <2> QED
      BY <1>1, <2>1, <2>2, <2>3 DEF ToSet
  <1> QED
    BY <1>1, <1>2, <1>3

\* The members of a sequence of parts.
LEMMA PartIs ==
    ASSUME NEW s \in Seq(PartType), NEW p \in ToSet(s)
    PROVE  p \in PartType /\ p[2] \in Nat
  BY DEF ToSet, PartType

\* A request that has ended, and a session that was deleted.
LEMMA NoRequestIs ==
    /\ NoRequest \in RequestType /\ NoSession \in SessionType
    /\ NoRequest.pc = "idle" /\ NoRequest.op = "none" /\ NoRequest.token = 0 /\ NoRequest.late = FALSE /\ NoRequest.copy = NoSession
    /\ NoSession.present = FALSE /\ NoSession.result = FALSE /\ NoSession.parts = <<>>
  <1>1. <<>> \in Seq(PartType)
    OBVIOUS
  <1> QED
    BY <1>1, UploadWords DEF NoRequest, NoSession, Session, RequestType, SessionType, UploadOp

\* What UploadGoes does to the requests.
LEMMA UploadGoesIs ==
    ASSUME UploadTypes, NEW h \in UploadRequest, NEW pc \in UploadWord, NEW copy \in SessionType,
           UploadGoes(h, pc, copy)
    PROVE  /\ upReq' \in [UploadRequest -> RequestType]
           /\ upReq'[h].pc = pc /\ upReq'[h].copy = copy /\ upReq'[h].op = upReq[h].op
           /\ upReq'[h].op = upReq[h].op /\ upReq'[h].token = upReq[h].token /\ upReq'[h].late = upReq[h].late
           /\ \A g \in UploadRequest \ {h} : upReq'[g] = upReq[g]
  BY DEF UploadTypes, UploadGoes, RequestType

\* A request that ends gives up nothing but itself.
LEMMA UploadEndIs ==
    ASSUME UploadTypes, NEW h \in UploadRequest, upReq' = [upReq EXCEPT ![h] = NoRequest]
    PROVE  /\ upReq' \in [UploadRequest -> RequestType]
           /\ upReq'[h].pc = "idle" /\ upReq'[h].op = "none" /\ upReq'[h].token = 0
           /\ upReq'[h].late = FALSE /\ upReq'[h].copy = NoSession
           /\ \A g \in UploadRequest \ {h} : upReq'[g] = upReq[g]
  BY NoRequestIs DEF UploadTypes

\* The invariant holds of a session that was just created.
LEMMA UploadInitInv == UploadInit => UploadInv
  <1> SUFFICES ASSUME UploadInit PROVE UploadInv
    OBVIOUS
  <1>1. /\ upRow \in SessionType /\ upRow.present /\ upRow.parts = <<>> /\ upRow.result = FALSE
        /\ \A h \in UploadRequest : upReq[h] = NoRequest
    BY UploadWords DEF UploadInit, Session, SessionType
  <1>2. UploadTypes
    BY <1>1, NoRequestIs, UploadWords DEF UploadInit, UploadTypes
  <1>3. LeasesHeld
    BY <1>1, NoRequestIs DEF UploadInit, LeasesHeld
  <1>4. ToSet(upRow.parts) = {}
    BY <1>1 DEF ToSet
  <1>5. ChunksFollow
    BY <1>1, <1>4, NoRequestIs DEF UploadInit, ChunksFollow, ChunksOf, ChunksOfRow
  <1>6. ResultsFollow /\ SavedFollows /\ KindsApart
    BY <1>1, NoRequestIs DEF UploadInit, ResultsFollow, SavedFollows, AllSaved, SavedOf, ResultThere,
                         ResultKnown, KindsApart, KindOf
  <1> QED
    BY <1>2, <1>3, <1>5, <1>6 DEF UploadInv

\* Of two requests at work one has outlived its lease.
LEMMA AloneAtWork ==
    ASSUME LeasesHeld, ~upTorn, NEW g \in UploadRequest, NEW h \in UploadRequest,
           upReq[g].token # 0, upReq[h].token # 0
    PROVE  g = h
  BY DEF LeasesHeld

\* A step of the request at work that leaves the lease alone.
LEMMA LeasesKept ==
    ASSUME LeasesHeld, NEW h \in UploadRequest,
           upReq'[h].token = upReq[h].token /\ upReq'[h].late = upReq[h].late,
           \A g \in UploadRequest \ {h} : upReq'[g] = upReq[g],
           UNCHANGED <<upKind, upLease, upExpired, upTokens>>, upTorn => upTorn',
           upReq[h].token # 0 \/ upReq'[h].pc = "release"
    PROVE  LeasesHeld'
  BY DEF LeasesHeld

\* While nothing is torn only the request at work has to be looked at.
LEMMA ChunksByOne ==
    ASSUME LeasesHeld, NEW h \in UploadRequest, upReq[h].token # 0,
           \A g \in UploadRequest \ {h} : upReq'[g] = upReq[g],
           UNCHANGED upKind, upTorn => upTorn',
           upKind = "chunks" /\ ~upTorn' => ChunksOfRow' /\ ChunksOf(h)'
    PROVE  ChunksFollow'
  <1> SUFFICES ASSUME upKind = "chunks", ~upTorn' PROVE ChunksFollow'
    BY DEF ChunksFollow
  <1>1. \A g \in UploadRequest \ {h} :
           upReq'[g].pc \notin {"reload", "patch", "save", "finish", "result", "clean", "compact"}
    <2>1. \A g \in UploadRequest \ {h} : upReq[g].token = 0
      BY AloneAtWork
    <2> QED
      BY <2>1 DEF LeasesHeld
  <1>2. \A g \in UploadRequest : ChunksOf(g)'
    BY <1>1 DEF ChunksOf
  <1> QED
    BY <1>2 DEF ChunksFollow

\* A step that leaves row and chunks alone and after which its request has no chunks to keep.
LEMMA ChunksQuiet ==
    ASSUME UploadTypes, ChunksFollow, NEW h \in UploadRequest,
           \A g \in UploadRequest \ {h} : upReq'[g] = upReq[g],
           UNCHANGED <<upKind, upRow, upStored, upTokens>>, upTorn => upTorn',
           upReq'[h].pc \notin {"reload", "patch", "save", "finish", "result", "clean", "compact"}
    PROVE  ChunksFollow'
  <1> SUFFICES ASSUME upKind = "chunks", ~upTorn' PROVE ChunksFollow'
    BY DEF ChunksFollow
  <1>1. ChunksOfRow' /\ \A g \in UploadRequest \ {h} : ChunksOf(g)'
    BY DEF ChunksFollow, ChunksOf, ChunksOfRow, Mine
  <1>2. ChunksOf(h)'
    BY DEF ChunksOf
  <1> QED
    BY <1>1, <1>2 DEF ChunksFollow

\* While nothing is torn only the request at work has loaded a session again.
LEMMA OthersWait ==
    ASSUME LeasesHeld, ~upTorn, NEW h \in UploadRequest, upReq[h].token # 0
    PROVE  \A g \in UploadRequest \ {h} :
               /\ upReq[g].pc \notin {"reload", "patch", "save", "finish", "result", "clean", "compact", "complete"}
               /\ upKind # "direct" => upReq[g].pc # "delete"
  BY AloneAtWork DEF LeasesHeld

\* A step that leaves session, file and multipart upload alone: what its request knows is for
\* the request to answer.
LEMMA ResultsByOne ==
    ASSUME ResultsFollow, SavedFollows, KindsApart, NEW h \in UploadRequest,
           \A g \in UploadRequest \ {h} : upReq'[g] = upReq[g],
           UNCHANGED <<upKind, upRow, multipart, fileRecord>>,
           upTorn => upTorn', upStale => upStale', upUnsaved => upUnsaved',
           ResultKnown' => ResultKnown,
           upReq'[h].pc \in {"result", "clean", "compact"} => upReq'[h].copy.result,
           KindOf(h)',
           AllSaved /\ ~upUnsaved => SavedOf(h)' /\ (told' => told \/ upRow.result \/ ~upRow.present)
    PROVE  ResultsFollow' /\ SavedFollows' /\ KindsApart'
  <1>1. KindsApart'
    BY DEF KindsApart, KindOf
  <1>2. ResultsFollow'
    BY DEF ResultsFollow, ResultThere
  <1>3. SavedFollows'
    <2> SUFFICES ASSUME AllSaved', ~upUnsaved' PROVE SavedFollows'
      BY DEF SavedFollows
    <2>1. AllSaved /\ ~upUnsaved
      BY DEF AllSaved
    <2>2. \A g \in UploadRequest \ {h} : SavedOf(g)'
      BY <2>1 DEF SavedFollows, SavedOf
    <2> QED
      BY <2>1, <2>2 DEF SavedFollows, ResultThere
  <1> QED
    BY <1>1, <1>2, <1>3

\* A step of the request at work that changes them: the other requests have to know only that a
\* session with its result, or deleted, stays so.
LEMMA ResultsByWorker ==
    ASSUME LeasesHeld, ResultsFollow, SavedFollows, KindsApart,
           NEW h \in UploadRequest, upReq[h].token # 0,
           \A g \in UploadRequest \ {h} : upReq'[g] = upReq[g],
           UNCHANGED upKind, upTorn => upTorn', upStale => upStale', upUnsaved => upUnsaved',
           upKind = "chunks" <=> multipart' = "none",
           multipart' \in {"none", "open"} => fileRecord' # "deleted",
           upReq'[h].pc \in {"result", "clean", "compact"} => upReq'[h].copy.result,
           KindOf(h)',
           upKind \in {"chunks", "multipart"} => ResultThere',
           AllSaved /\ AllSaved' /\ ~upUnsaved /\ ~upUnsaved' =>
               /\ ResultThere' /\ SavedOf(h)'
               /\ told' => upRow'.result \/ ~upRow'.present
               /\ upRow.result \/ ~upRow.present => upRow'.result \/ ~upRow'.present
    PROVE  ResultsFollow' /\ SavedFollows' /\ KindsApart'
  <1>1. KindsApart'
    BY DEF KindsApart, KindOf
  <1>2. ResultsFollow'
    BY DEF ResultsFollow
  <1>3. SavedFollows'
    <2> SUFFICES ASSUME AllSaved', ~upUnsaved' PROVE SavedFollows'
      BY DEF SavedFollows
    <2>1. AllSaved /\ ~upUnsaved
      BY DEF AllSaved
    <2>2. upKind # "direct" => \A g \in UploadRequest \ {h} :
             upReq[g].pc \notin {"patch", "save", "finish", "result", "delete"}
      BY <2>1, OthersWait DEF AllSaved
    <2>3. upKind # "direct" => upKind = "local"
      BY <2>1 DEF AllSaved
    <2>4. ASSUME NEW g \in UploadRequest \ {h} PROVE SavedOf(g)'
      <3>1. SavedOf(g) /\ upReq'[g] = upReq[g] /\ KindOf(g)
        BY <2>1 DEF SavedFollows, KindsApart
      <3>2. CASE upKind = "direct"
        BY <2>1, <3>1, <3>2 DEF SavedOf, KindOf
      <3>3. CASE upKind # "direct"
        BY <2>1, <2>2, <2>4, <3>1, <3>3 DEF SavedOf
      <3> QED
        BY <3>2, <3>3
    <2> QED
      BY <2>1, <2>4 DEF SavedFollows
  <1> QED
    BY <1>1, <1>2, <1>3

-----------------------------------------------------------------------------
(* One lemma per action: it keeps the inductive invariant of an upload session. *)

\* A session is loaded with what the row has.
LEMMA LoadUploadInv ==
    ASSUME UploadInv, NEW h \in UploadRequest, loadUpload(h)
    PROVE  UploadInv'
  <1> USE DEF UploadInv
  <1>1. PICK op \in UploadOp :
           /\ op = "expire" => upKind = "direct"
           /\ upKind = "direct" => op # "patch"
           /\ upKind # "direct" => op \in {"patch", "delete"}
           /\ upReq[h].pc = "idle" /\ upRow.present
           /\ upReq' = [upReq EXCEPT ![h] = [NoRequest EXCEPT
                 !.pc = IF op = "expire" THEN "delete" ELSE "lease", !.op = op, !.copy = upRow]]
    <2>1. CASE upKind = "direct"
      BY <2>1 DEF loadUpload, UploadOp
    <2>2. CASE upKind # "direct"
      BY <2>2 DEF loadUpload, UploadOp
    <2> QED
      BY <2>1, <2>2
  <1>2. /\ upReq' \in [UploadRequest -> RequestType]
        /\ upReq'[h].pc = (IF op = "expire" THEN "delete" ELSE "lease")
        /\ upReq'[h].op = op /\ upReq'[h].copy = upRow /\ upReq'[h].token = 0 /\ upReq'[h].late = FALSE
        /\ \A g \in UploadRequest \ {h} : upReq'[g] = upReq[g]
    <2> DEFINE pc == IF op = "expire" THEN "delete" ELSE "lease"
               r == [NoRequest EXCEPT !.pc = pc, !.op = op, !.copy = upRow]
    <2>1. pc \in UploadWord /\ op \in UploadOp /\ upRow \in SessionType
      BY <1>1, UploadWords DEF UploadTypes
    <2> HIDE DEF pc
    <2>2. r \in RequestType /\ r.pc = pc /\ r.op = op /\ r.copy = upRow /\ r.token = 0 /\ r.late = FALSE
      BY <2>1, NoRequestIs DEF RequestType
    <2>3. upReq' = [upReq EXCEPT ![h] = r]
      BY <1>1 DEF pc
    <2> HIDE DEF r
    <2> QED
      BY <2>2, <2>3 DEF pc, UploadTypes
  <1>3. UNCHANGED <<upKind, upRow, upLease, upExpired, upTokens, upFaults, upStored, multipart,
                    fileRecord, told, upStale, upUnsaved, upTorn>>
    BY DEF loadUpload
  <1>4. UploadTypes'
    BY <1>2, <1>3 DEF UploadTypes
  <1>5. LeasesHeld'
    BY <1>1, <1>2, <1>3 DEF LeasesHeld, UploadTypes
  <1>6. ChunksFollow'
    BY <1>2, <1>3, ChunksQuiet
  <1>7. (ResultKnown' => ResultKnown) /\ SavedOf(h)' /\ KindOf(h)'
    BY <1>1, <1>2, <1>3 DEF ResultKnown, SavedOf, KindOf
  <1>8. ResultsFollow' /\ SavedFollows' /\ KindsApart'
    BY <1>2, <1>3, <1>7, ResultsByOne
  <1> QED
    BY <1>4, <1>5, <1>6, <1>8

\* The lease is taken when it is free or has run out: nobody at work has one that holds.
LEMMA AcquireLeaseInv ==
    ASSUME UploadInv, NEW h \in UploadRequest, acquireLease(h)
    PROVE  UploadInv'
  <1> USE DEF UploadInv
  <1>0. UNCHANGED <<upKind, upRow, upFaults, upStored, multipart, fileRecord, told, upStale, upUnsaved, upTorn>>
    BY DEF acquireLease
  <1>1. CASE upLease # 0 /\ ~upExpired
    <2>1. /\ upReq' \in [UploadRequest -> RequestType]
          /\ upReq'[h].pc = "idle" /\ upReq'[h].op = "none" /\ upReq'[h].token = 0
          /\ upReq'[h].late = FALSE /\ upReq'[h].copy = NoSession
          /\ \A g \in UploadRequest \ {h} : upReq'[g] = upReq[g]
      BY <1>1, UploadEndIs DEF acquireLease
    <2>2. UNCHANGED <<upLease, upExpired, upTokens>>
      BY <1>1 DEF acquireLease
    <2>3. UploadTypes'
      BY <1>0, <2>1, <2>2 DEF UploadTypes
    <2>4. LeasesHeld'
      BY <1>0, <2>1, <2>2 DEF LeasesHeld, UploadTypes
    <2>5. ChunksFollow'
      BY <1>0, <2>1, <2>2, ChunksQuiet
    <2>6. (ResultKnown' => ResultKnown) /\ SavedOf(h)' /\ KindOf(h)'
      BY <1>0, <2>1, NoRequestIs DEF ResultKnown, SavedOf, KindOf
    <2>7. ResultsFollow' /\ SavedFollows' /\ KindsApart'
      BY <1>0, <2>1, <2>6, ResultsByOne
    <2> QED
      BY <2>3, <2>4, <2>5, <2>7
  <1>2. CASE ~(upLease # 0 /\ ~upExpired)
    <2>1. /\ upTokens' = upTokens + 1 /\ upLease' = upTokens + 1 /\ upExpired' = FALSE
          /\ upReq[h].pc = "lease"
      BY <1>2 DEF acquireLease
    <2>r. upReq' = [upReq EXCEPT ![h].token = upTokens + 1, ![h].pc =
                      IF upKind = "direct" THEN upReq[h].op ELSE "reload"]
      BY <1>2 DEF acquireLease
    <2>2. /\ upReq' \in [UploadRequest -> RequestType]
          /\ upReq'[h].token = upTokens + 1 /\ upReq'[h].copy = upReq[h].copy /\ upReq'[h].op = upReq[h].op
          /\ upReq'[h].late = upReq[h].late
          /\ upReq'[h].pc # "result" 
          /\ upReq'[h].pc = IF upKind = "direct" THEN upReq[h].op ELSE "reload"
          /\ \A g \in UploadRequest \ {h} : upReq'[g] = upReq[g]
      <3> DEFINE pc == IF upKind = "direct" THEN upReq[h].op ELSE "reload"
      <3>1. pc \in UploadWord /\ upTokens + 1 \in Nat /\ pc # "result" /\ pc # "lease"
        BY UploadWords DEF UploadTypes, RequestType, UploadOp
      <3>2. upReq' = [upReq EXCEPT ![h].token = upTokens + 1, ![h].pc = pc] /\ (upKind # "direct" => pc = "reload")
        BY <2>r
      <3> HIDE DEF pc
      <3>3. /\ upReq' \in [UploadRequest -> RequestType] /\ upReq'[h].pc = pc
            /\ upReq'[h].token = upTokens + 1 /\ upReq'[h].copy = upReq[h].copy /\ upReq'[h].op = upReq[h].op
            /\ upReq'[h].late = upReq[h].late
            /\ \A g \in UploadRequest \ {h} : upReq'[g] = upReq[g]
        BY <3>1, <3>2 DEF UploadTypes, RequestType
      <3> QED
        BY <3>1, <3>3 DEF pc
    <2>3. UploadTypes'
      <3>1. upTokens' \in Nat /\ upLease' \in Nat
        BY <2>1 DEF UploadTypes
      <3> QED
        BY <1>0, <2>2, <3>1 DEF UploadTypes
    <2>4. \A g \in UploadRequest : upReq[g].token # 0 => upReq[g].late
      <3>1. \A g \in UploadRequest : upReq[g].token # 0 /\ ~upReq[g].late => upLease # 0 /\ ~upExpired
        BY DEF LeasesHeld
      <3> QED
        BY <1>2, <3>1
    <2>5. LeasesHeld'
      BY <1>0, <2>1, <2>2, <2>4 DEF LeasesHeld, UploadTypes, RequestType
    <2>6. ChunksFollow'
      <3>1. upKind = "chunks" /\ ~upTorn => \A p \in ToSet(upRow.parts) : p[2] < upTokens + 1 /\ p[2] <= upTokens + 1
        BY PartIs DEF ChunksFollow, ChunksOfRow, UploadTypes, SessionType
      <3> SUFFICES ASSUME upKind = "chunks", ~upTorn PROVE ChunksFollow'
        BY <1>0 DEF ChunksFollow
      <3>2. ChunksOfRow' /\ \A g \in UploadRequest \ {h} : ChunksOf(g)'
        BY <1>0, <2>1, <2>2, <3>1 DEF ChunksFollow, ChunksOf, ChunksOfRow, Mine
      <3>3. ChunksOf(h)'
        BY <1>0, <2>2, <3>1 DEF ChunksOf
      <3> QED
        BY <3>2, <3>3 DEF ChunksFollow
    <2>7. KindOf(h)' /\ (upReq'[h].pc \notin {"patch", "save", "finish", "clean", "compact", "result"})
      BY <1>0, <2>2, UploadWords DEF KindsApart, KindOf, UploadTypes, RequestType, UploadOp
    <2>8. (ResultKnown' => ResultKnown) /\ (AllSaved /\ ~upUnsaved => SavedOf(h)')
      BY <1>0, <2>1, <2>2, <2>7 DEF ResultKnown, SavedFollows, SavedOf, AllSaved
    <2>9. ResultsFollow' /\ SavedFollows' /\ KindsApart'
      BY <1>0, <2>2, <2>7, <2>8, ResultsByOne
    <2> QED
      BY <2>3, <2>5, <2>6, <2>9
  <1> QED
    BY <1>1, <1>2

\* The session is loaded again under the lease: the copy is what the row has.
LEMMA ReloadUploadInv ==
    ASSUME UploadInv, NEW h \in UploadRequest, reloadUpload(h)
    PROVE  UploadInv'
  <1> USE DEF UploadInv
  <1>0. /\ upReq[h].pc = "reload"
        /\ UNCHANGED <<upKind, upRow, upLease, upExpired, upTokens, upFaults, upStored, multipart, fileRecord,
                       told, upStale, upUnsaved, upTorn>>
    BY DEF reloadUpload
  <1> DEFINE pc == IF upRow.present THEN upReq[h].op ELSE "release"
  <1>1. /\ pc \in UploadWord /\ upRow \in SessionType
        /\ pc = "release" \/ (upRow.present /\ pc \in {"patch", "complete", "delete", "expire", "none"})
    BY UploadWords DEF UploadTypes, RequestType, UploadOp
  <1>2. UploadGoes(h, pc, upRow)
    BY DEF reloadUpload
  <1> HIDE DEF pc
  <1>3. /\ upReq' \in [UploadRequest -> RequestType]
        /\ upReq'[h].pc = pc /\ upReq'[h].copy = upRow
        /\ upReq'[h].op = upReq[h].op /\ upReq'[h].token = upReq[h].token /\ upReq'[h].late = upReq[h].late
        /\ \A g \in UploadRequest \ {h} : upReq'[g] = upReq[g]
    BY <1>1, <1>2, UploadGoesIs
  <1>4. UploadTypes'
    BY <1>0, <1>3 DEF UploadTypes
  <1>5. upReq[h].token # 0
    BY <1>0 DEF LeasesHeld
  <1>6. LeasesHeld'
    BY <1>0, <1>3, <1>5, LeasesKept
  <1>7. ChunksFollow'
    <2>1. upKind = "chunks" /\ ~upTorn => ChunksOfRow' /\ ChunksOf(h)'
      BY <1>0, <1>1, <1>3 DEF ChunksFollow, ChunksOf, ChunksOfRow
    <2> QED
      BY <1>0, <1>3, <1>5, <2>1, ChunksByOne
  <1>8. KindOf(h)' /\ upReq'[h].pc \notin {"result", "clean", "compact", "save", "finish"}
    BY <1>0, <1>1, <1>3 DEF KindsApart, KindOf, pc
  <1>9. (ResultKnown' => ResultKnown) /\ SavedOf(h)'
    BY <1>0, <1>1, <1>3, <1>8 DEF ResultKnown, SavedOf
  <1>10. ResultsFollow' /\ SavedFollows' /\ KindsApart'
    BY <1>0, <1>3, <1>8, <1>9, ResultsByOne
  <1> QED
    BY <1>4, <1>6, <1>7, <1>10

\* A request only gives back the lease that it took.
LEMMA ReleaseLeaseInv ==
    ASSUME UploadInv, NEW h \in UploadRequest, releaseLease(h)
    PROVE  UploadInv'
  <1> USE DEF UploadInv
  <1>0. /\ upReq[h].pc = "release" /\ upLease' = IF upLease = upReq[h].token THEN 0 ELSE upLease
        /\ UNCHANGED <<upKind, upRow, upExpired, upTokens, upFaults, upStored, multipart, fileRecord, told,
                       upStale, upUnsaved, upTorn>>
    BY DEF releaseLease
  <1>1. /\ upReq' \in [UploadRequest -> RequestType]
        /\ upReq'[h].pc = "idle" /\ upReq'[h].op = "none" /\ upReq'[h].token = 0
        /\ upReq'[h].late = FALSE /\ upReq'[h].copy = NoSession
        /\ \A g \in UploadRequest \ {h} : upReq'[g] = upReq[g]
    BY UploadEndIs DEF releaseLease
  <1>2. UploadTypes'
    BY <1>0, <1>1 DEF UploadTypes
  <1>3. LeasesHeld'
    BY <1>0, <1>1 DEF LeasesHeld, UploadTypes, RequestType
  <1>4. ChunksFollow'
    BY <1>0, <1>1, ChunksQuiet
  <1>5. (ResultKnown' => ResultKnown) /\ SavedOf(h)' /\ KindOf(h)'
    BY <1>0, <1>1, NoRequestIs DEF ResultKnown, SavedOf, KindOf
  <1>6. ResultsFollow' /\ SavedFollows' /\ KindsApart'
    BY <1>0, <1>1, <1>5, ResultsByOne
  <1> QED
    BY <1>2, <1>3, <1>4, <1>6

\* A request dies and leaves its lease, its chunk and the session behind.
LEMMA UploadCrashesInv ==
    ASSUME UploadInv, NEW h \in UploadRequest, uploadCrashes(h)
    PROVE  UploadInv'
  <1> USE DEF UploadInv
  <1>0. /\ upFaults' \in Nat /\ upFaults' # 0
        /\ UNCHANGED <<upKind, upRow, upLease, upExpired, upTokens, upStored, multipart, fileRecord, told,
                       upStale, upUnsaved, upTorn>>
    BY DEF uploadCrashes, UploadFault, UploadTypes
  <1>1. /\ upReq' \in [UploadRequest -> RequestType]
        /\ upReq'[h].pc = "idle" /\ upReq'[h].op = "none" /\ upReq'[h].token = 0
        /\ upReq'[h].late = FALSE /\ upReq'[h].copy = NoSession
        /\ \A g \in UploadRequest \ {h} : upReq'[g] = upReq[g]
    BY UploadEndIs DEF uploadCrashes
  <1>2. UploadTypes'
    BY <1>0, <1>1 DEF UploadTypes
  <1>3. LeasesHeld'
    BY <1>0, <1>1 DEF LeasesHeld, UploadTypes, RequestType
  <1>4. ChunksFollow'
    BY <1>0, <1>1, ChunksQuiet
  <1>5. (ResultKnown' => ResultKnown) /\ SavedOf(h)' /\ KindOf(h)'
    BY <1>0, <1>1, NoRequestIs DEF ResultKnown, SavedOf, KindOf
  <1>6. ResultsFollow' /\ SavedFollows' /\ KindsApart'
    BY <1>0, <1>1, <1>5, ResultsByOne
  <1> QED
    BY <1>2, <1>3, <1>4, <1>6

\* The lease runs out: its request, if it is still at work, is late and the session torn.
LEMMA LeaseExpiresInv ==
    ASSUME UploadInv, leaseExpires
    PROVE  UploadInv'
  <1> USE DEF UploadInv
  <1>0. /\ upLease # 0 /\ upExpired' = TRUE
        /\ UNCHANGED <<upKind, upRow, upLease, upTokens, upStored, multipart, fileRecord, told, upStale, upUnsaved>>
    BY DEF leaseExpires
  <1>1. /\ upReq' \in [UploadRequest -> RequestType]
        /\ \A h \in UploadRequest :
              /\ upReq'[h].pc = upReq[h].pc /\ upReq'[h].op = upReq[h].op /\ upReq'[h].copy = upReq[h].copy
              /\ upReq'[h].token = upReq[h].token
              /\ upReq'[h].late <=> (upReq[h].token = upLease \/ upReq[h].late)
    <2>1. \A h \in UploadRequest :
             upReq'[h] = IF upReq[h].token = upLease THEN [upReq[h] EXCEPT !.late = TRUE] ELSE upReq[h]
      BY DEF leaseExpires
    <2>2. \A h \in UploadRequest : [upReq[h] EXCEPT !.late = TRUE] \in RequestType
      BY DEF UploadTypes, RequestType
    <2> QED
      BY <2>1, <2>2 DEF leaseExpires, UploadTypes, RequestType
  <1>2. upFaults' \in Nat /\ (upFaults' = 0 => upFaults = 0)
    BY DEF leaseExpires, UploadFault, UploadTypes
  <1>3. /\ upTorn => upTorn'
        /\ \A h \in UploadRequest : upReq[h].token = upLease => upTorn'
    BY DEF leaseExpires
  <1>4. UploadTypes'
    BY <1>0, <1>1, <1>2 DEF UploadTypes
  <1>5. LeasesHeld'
    BY <1>0, <1>1, <1>3 DEF LeasesHeld
  <1>6. ChunksFollow'
    BY <1>0, <1>1, <1>3 DEF ChunksFollow, ChunksOf, ChunksOfRow, Mine
  <1>7. ResultsFollow' /\ SavedFollows' /\ KindsApart'
    BY <1>0, <1>1, <1>3 DEF ResultsFollow, SavedFollows, AllSaved, SavedOf, ResultThere, ResultKnown,
                            KindsApart, KindOf
  <1> QED
    BY <1>4, <1>5, <1>6, <1>7

\* The part is stored beside those of the session, with a token no other part has.
LEMMA PutPartInv ==
    ASSUME UploadInv, NEW h \in UploadRequest, putPart(h)
    PROVE  UploadInv'
  <1> USE DEF UploadInv
  <1>0. /\ upReq[h].pc = "patch"
        /\ UNCHANGED <<upKind, upRow, upLease, upExpired, upTokens, multipart, fileRecord, upStale, upUnsaved, upTorn>>
    BY DEF putPart
  <1>1. upReq[h].token # 0 /\ upReq[h].copy \in SessionType
    BY <1>0 DEF LeasesHeld, UploadTypes, RequestType
  <1>2. CASE /\ ~upReq[h].copy.result /\ (~Chunked => multipart = "open")
             /\ upStored' = {p \in upStored : Chunked \/ p[1] # Part(h)[1]} \cup {Part(h)}
             /\ UploadGoes(h, IF Part(h)[1] < UploadParts THEN "save" ELSE "finish",
                           [upReq[h].copy EXCEPT !.parts = Append(@, Part(h))])
             /\ UNCHANGED <<upFaults, told>>
    <2> DEFINE x == Part(h)
               parts == upReq[h].copy.parts
               copy == [upReq[h].copy EXCEPT !.parts = Append(@, Part(h))]
               pc == IF Part(h)[1] < UploadParts THEN "save" ELSE "finish"
    <2>1. parts \in Seq(PartType) /\ x \in PartType /\ x[2] = upReq[h].token
      BY <1>1 DEF Part, SessionType, PartType, UploadTypes, RequestType
    <2>2. pc \in UploadWord /\ pc \in {"save", "finish"}
      BY UploadWords
    <2>3. /\ copy \in SessionType /\ copy.parts = Append(parts, x)
          /\ copy.result = upReq[h].copy.result /\ copy.present = upReq[h].copy.present
      BY <1>1, <2>1, AppendPart DEF SessionType
    <2>4. UploadGoes(h, pc, copy)
      BY <1>2
    <2>5. upKind = "chunks" => upStored' = upStored \cup {x}
      BY <1>2 DEF Chunked
    <2>6. UNCHANGED <<upFaults, told>> /\ ~upReq[h].copy.result
      BY <1>2
    <2> HIDE DEF x, parts, copy, pc
    <2>7. /\ upReq' \in [UploadRequest -> RequestType]
          /\ upReq'[h].pc = pc /\ upReq'[h].copy = copy
          /\ upReq'[h].op = upReq[h].op /\ upReq'[h].token = upReq[h].token /\ upReq'[h].late = upReq[h].late
          /\ \A g \in UploadRequest \ {h} : upReq'[g] = upReq[g]
      BY <2>2, <2>3, <2>4, UploadGoesIs
    <2>8. UploadTypes'
      BY <1>0, <2>6, <2>7 DEF UploadTypes
    <2>9. LeasesHeld'
      BY <1>0, <1>1, <2>7, LeasesKept
    <2>10. ASSUME upKind = "chunks", ~upTorn PROVE ChunksOfRow' /\ ChunksOf(h)'
      <3>1. /\ ToSet(Append(parts, x)) = ToSet(parts) \cup {x} /\ Append(parts, x) # <<>>
            /\ Last(Append(parts, x)) = x
        BY <2>1, AppendPart
      <3>2. parts = upRow.parts /\ upRow.present /\ ToSet(parts) \subseteq upStored
        BY <1>0, <2>6, <2>10 DEF ChunksFollow, ChunksOf, ChunksOfRow, parts
      <3>3. /\ \A p \in ToSet(parts) : p[2] < upReq[h].token
            /\ \A p \in ToSet(parts) : p[2] \in Nat
        BY <1>0, <2>1, <2>10, <3>2, PartIs DEF ChunksFollow, ChunksOf
      <3>4. ChunksOfRow'
        BY <1>0, <2>5, <2>10, <3>2 DEF ChunksOfRow, ChunksFollow
      <3>5. \A p \in ToSet(Append(parts, x)) : p[2] <= upReq[h].token
        BY <2>1, <3>1, <3>3 DEF UploadTypes, RequestType
      <3>6. ToSet(Append(parts, x)) \subseteq upStored'
        BY <2>5, <2>10, <3>1, <3>2
      <3>7. Mine(h)' = x
        BY <2>3, <2>7, <3>1 DEF Mine
      <3> QED
        BY <1>0, <2>1, <2>2, <2>3, <2>7, <3>1, <3>2, <3>3, <3>4, <3>5, <3>6, <3>7 DEF ChunksOf
    <2>11. ChunksFollow'
      BY <1>0, <1>1, <2>7, <2>10, ChunksByOne
    <2>12. (ResultKnown' => ResultKnown) /\ KindOf(h)'
      BY <1>0, <2>2, <2>3, <2>6, <2>7 DEF ResultKnown, KindsApart, KindOf
    <2>13. AllSaved /\ ~upUnsaved => SavedOf(h)'
      BY <1>0, <1>2, <2>2, <2>3, <2>6, <2>7 DEF SavedFollows, SavedOf, ResultsFollow, Chunked, KindsApart, KindOf
    <2>14. ResultsFollow' /\ SavedFollows' /\ KindsApart'
      BY <1>0, <2>2, <2>6, <2>7, <2>12, <2>13, ResultsByOne
    <2> QED
      BY <2>8, <2>9, <2>11, <2>14
  <1>3. CASE /\ upReq[h].copy.result \/ UNCHANGED told
             /\ UploadGoes(h, "release", upReq[h].copy)
             /\ UNCHANGED upStored /\ (UNCHANGED upFaults \/ UploadFault)
    <2>1. UploadGoes(h, "release", upReq[h].copy) /\ UNCHANGED upStored /\ (upReq[h].copy.result \/ UNCHANGED told)
      BY <1>3
    <2>2. upFaults' \in Nat /\ (upFaults' = 0 => upFaults = 0)
      BY <1>3 DEF UploadFault, UploadTypes
    <2>3. /\ upReq' \in [UploadRequest -> RequestType]
          /\ upReq'[h].pc = "release" /\ upReq'[h].copy = upReq[h].copy
          /\ upReq'[h].op = upReq[h].op /\ upReq'[h].token = upReq[h].token /\ upReq'[h].late = upReq[h].late
          /\ \A g \in UploadRequest \ {h} : upReq'[g] = upReq[g]
      BY <1>1, <2>1, UploadGoesIs, UploadWords
    <2>4. UploadTypes'
      BY <1>0, <1>1, <2>1, <2>2, <2>3, NoRequestIs DEF UploadTypes
    <2>5. LeasesHeld'
      BY <1>0, <1>1, <2>1, <2>2, <2>3, LeasesKept
    <2>6. ChunksFollow'
      BY <1>0, <2>1, <2>3, ChunksQuiet
    <2>7. (ResultKnown' => ResultKnown) /\ KindOf(h)' /\ (AllSaved /\ ~upUnsaved => SavedOf(h)')
      BY <1>0, <2>1, <2>3 DEF ResultKnown, KindOf, KindsApart, SavedFollows, SavedOf
    <2>8. AllSaved /\ ~upUnsaved /\ told' => told \/ upRow.result \/ ~upRow.present
      BY <1>0, <2>1 DEF SavedFollows, SavedOf
    <2>9. ResultsFollow' /\ SavedFollows' /\ KindsApart'
      BY <1>0, <2>3, <2>7, <2>8, ResultsByOne
    <2> QED
      BY <2>4, <2>5, <2>6, <2>9
  <1>4. CASE upReq[h].copy.result /\ UploadGoes(h, "release", upReq[h].copy) /\ told' = TRUE
               /\ UNCHANGED <<upStored, upFaults>>
    BY <1>3, <1>4
  <1>5. CASE /\ ~upReq[h].copy.result
             /\ IF ~Chunked /\ multipart # "open" THEN UNCHANGED upFaults ELSE UploadFault
             /\ UploadGoes(h, "release", upReq[h].copy) /\ UNCHANGED <<upStored, told>>
    BY <1>3, <1>5
  <1> QED
    BY <1>2, <1>4, <1>5 DEF putPart

\* A request that ends without having changed the kind of upload gives its lease back next.
LEMMA ReleaseIs ==
    ASSUME UploadTypes, NEW h \in UploadRequest, UploadGoes(h, "release", upReq[h].copy)
    PROVE  /\ upReq' \in [UploadRequest -> RequestType]
           /\ upReq'[h].pc = "release" /\ upReq'[h].copy = upReq[h].copy /\ upReq'[h].op = upReq[h].op
           /\ upReq'[h].token = upReq[h].token /\ upReq'[h].late = upReq[h].late
           /\ \A g \in UploadRequest \ {h} : upReq'[g] = upReq[g]
  BY UploadGoesIs, UploadWords DEF UploadTypes, RequestType

\* A request that fails deletes no chunk but its own, and none of the session's.
LEMMA UndoPartIs ==
    ASSUME UploadInv, NEW h \in UploadRequest, upReq[h].pc \in {"save", "finish"}, undoPart(h),
           UNCHANGED <<upKind, upTokens>>, upTorn => upTorn',
           upKind = "chunks" /\ ~upTorn' => UNCHANGED upRow
    PROVE  /\ upReq' \in [UploadRequest -> RequestType]
           /\ upReq'[h].pc = "release" /\ upReq'[h].copy = upReq[h].copy /\ upReq'[h].op = upReq[h].op
           /\ upReq'[h].token = upReq[h].token /\ upReq'[h].late = upReq[h].late
           /\ \A g \in UploadRequest \ {h} : upReq'[g] = upReq[g]
           /\ ChunksFollow'
  <1> USE DEF UploadInv
  <1>1. upReq[h].token # 0
    BY DEF LeasesHeld
  <1>2. /\ upReq' \in [UploadRequest -> RequestType]
        /\ upReq'[h].pc = "release" /\ upReq'[h].copy = upReq[h].copy /\ upReq'[h].op = upReq[h].op
        /\ upReq'[h].token = upReq[h].token /\ upReq'[h].late = upReq[h].late
        /\ \A g \in UploadRequest \ {h} : upReq'[g] = upReq[g]
    BY ReleaseIs DEF undoPart
  <1>3. ASSUME upKind = "chunks", ~upTorn' PROVE ChunksOfRow' /\ ChunksOf(h)'
    <2>0. ChunksOfRow /\ ChunksOf(h) /\ UNCHANGED upRow
      BY <1>3 DEF ChunksFollow
    <2>1. upStored' = upStored \ {Mine(h)}
      BY <1>3 DEF undoPart, Chunked
    <2>2. Mine(h)[2] = upReq[h].token /\ \A p \in ToSet(upRow.parts) : p[2] < upReq[h].token /\ p[2] \in Nat
      BY <2>0, PartIs DEF ChunksOf, UploadTypes, SessionType
    <2>3. Mine(h) \notin ToSet(upRow.parts)
      BY <2>2
    <2>4. ChunksOfRow'
      BY <2>0, <2>1, <2>3 DEF ChunksOfRow
    <2>5. ChunksOf(h)'
      BY <1>2 DEF ChunksOf
    <2> QED
      BY <2>4, <2>5
  <1>4. ChunksFollow'
    BY <1>1, <1>2, <1>3, ChunksByOne
  <1> QED
    BY <1>2, <1>4

\* The session is saved with the part, or the part is taken back, though the save that failed
\* may have been committed.
LEMMA SavePartInv ==
    ASSUME UploadInv, NEW h \in UploadRequest, savePart(h)
    PROVE  UploadInv'
  <1> USE DEF UploadInv
  <1>0. /\ upReq[h].pc = "save"
        /\ UNCHANGED <<upKind, upLease, upExpired, upTokens, multipart, fileRecord, told, upStale, upUnsaved>>
    BY DEF savePart
  <1>1. upReq[h].token # 0 /\ upReq[h].copy \in SessionType
    BY <1>0 DEF LeasesHeld, UploadTypes, RequestType
  <1>2. /\ upRow' = upReq[h].copy \/ UNCHANGED upRow
        /\ upTorn => upTorn'
        /\ UNCHANGED upFaults \/ UploadFault
    <2>1. CASE upRow' = upReq[h].copy /\ UNCHANGED <<upStored, upFaults, upTorn>>
      BY <2>1
    <2>2. CASE UploadFault /\ UNCHANGED <<upRow, upTorn>>
      BY <2>2
    <2>3. CASE UploadFault /\ upRow' = upReq[h].copy /\ upTorn' = (upTorn \/ Chunked)
      <3>1. upTorn => upTorn'
        BY <2>3, Zenon
      <3> QED
        BY <2>3, <3>1
    <2> QED
      BY <2>1, <2>2, <2>3 DEF savePart
  <1>3. upFaults' \in Nat /\ upRow' \in SessionType
    BY <1>1, <1>2 DEF UploadFault, UploadTypes
  <1>4. /\ upReq' \in [UploadRequest -> RequestType]
        /\ upReq'[h].pc = "release" /\ upReq'[h].copy = upReq[h].copy /\ upReq'[h].op = upReq[h].op
        /\ upReq'[h].token = upReq[h].token /\ upReq'[h].late = upReq[h].late
        /\ \A g \in UploadRequest \ {h} : upReq'[g] = upReq[g]
        /\ ChunksFollow'
    <2>1. CASE /\ upRow' = upReq[h].copy /\ UploadGoes(h, "release", upReq[h].copy)
               /\ UNCHANGED <<upStored, upFaults, upTorn>>
      <3>1. /\ upReq' \in [UploadRequest -> RequestType]
            /\ upReq'[h].pc = "release" /\ upReq'[h].copy = upReq[h].copy /\ upReq'[h].op = upReq[h].op
            /\ upReq'[h].token = upReq[h].token /\ upReq'[h].late = upReq[h].late
            /\ \A g \in UploadRequest \ {h} : upReq'[g] = upReq[g]
        BY <2>1, ReleaseIs
      <3>2. ASSUME upKind = "chunks", ~upTorn' PROVE ChunksOfRow' /\ ChunksOf(h)'
        <4>1. ChunksOf(h)
          BY <2>1, <3>2 DEF ChunksFollow
        <4>2. /\ ToSet(upReq[h].copy.parts) \subseteq upStored
              /\ \A p \in ToSet(upReq[h].copy.parts) : p[2] <= upReq[h].token /\ p[2] \in Nat
          BY <1>0, <1>1, <4>1, PartIs DEF ChunksOf, SessionType
        <4>3. \A p \in ToSet(upReq[h].copy.parts) : p[2] <= upTokens
          BY <4>2 DEF LeasesHeld, UploadTypes, RequestType
        <4> QED
          BY <1>0, <2>1, <3>1, <4>2, <4>3 DEF ChunksOf, ChunksOfRow
      <3>3. ChunksFollow'
        BY <1>0, <1>1, <1>2, <3>1, <3>2, ChunksByOne
      <3> QED
        BY <3>1, <3>3
    <2>2. CASE /\ undoPart(h)
               /\ \/ UNCHANGED <<upRow, upTorn>>
                  \/ upRow' = upReq[h].copy /\ upTorn' = (upTorn \/ Chunked)
      <3>1. upKind = "chunks" /\ ~upTorn' => UNCHANGED upRow
        BY <2>2 DEF Chunked
      <3> QED
        BY <1>0, <1>2, <2>2, <3>1, UndoPartIs
    <2> QED
      BY <2>1, <2>2 DEF savePart
  <1>5. UploadTypes'
    BY <1>0, <1>3, <1>4 DEF UploadTypes
  <1>6. LeasesHeld'
    BY <1>0, <1>1, <1>2, <1>4, LeasesKept
  <1>7. KindOf(h)' /\ upKind # "direct"
    BY <1>0, <1>4 DEF KindsApart, KindOf
  <1>8. ResultKnown' => ResultKnown
    BY <1>0, <1>2, <1>4 DEF ResultKnown
  <1>9. AllSaved /\ ~upUnsaved =>
            /\ ResultThere' /\ SavedOf(h)'
            /\ told' => upRow'.result \/ ~upRow'.present
            /\ upRow.result \/ ~upRow.present => upRow'.result \/ ~upRow'.present
    BY <1>0, <1>2, <1>4, <1>7, <1>8 DEF SavedFollows, SavedOf, ResultThere, AllSaved
  <1>10. ResultsFollow' /\ SavedFollows' /\ KindsApart'
    BY <1>0, <1>1, <1>2, <1>4, <1>7, <1>8, <1>9, ResultsByWorker DEF ResultsFollow, ResultThere
  <1> QED
    BY <1>4, <1>5, <1>6, <1>10

\* The file is put together and its record completed, or the request fails, with the object and
\* its record gone if they had been made, or with the whole session deleted.
LEMMA FinishUploadInv ==
    ASSUME UploadInv, NEW h \in UploadRequest, finishUpload(h)
    PROVE  UploadInv'
  <1> USE DEF UploadInv
  <1>0. /\ upReq[h].pc = "finish"
        /\ UNCHANGED <<upKind, upLease, upExpired, upTokens, told, upStale, upUnsaved>>
    BY DEF finishUpload
  <1>1. upReq[h].token # 0 /\ upReq[h].copy \in SessionType
    BY <1>0 DEF LeasesHeld, UploadTypes, RequestType
  <1> DEFINE copy == upReq[h].copy
  <1>k. upKind # "direct" /\ (upKind = "chunks" <=> Chunked)
    BY <1>0 DEF KindsApart, KindOf, Chunked
  <1>w. Whole(copy) => \/ Chunked
                       \/ upKind = "multipart" /\ multipart = "open"
                       \/ upKind = "local" /\ multipart \in {"open", "completed"}
    BY DEF Whole
  <1>l. upKind = "local" /\ AllSaved /\ ~upUnsaved => multipart = "open"
    BY <1>0 DEF SavedFollows, SavedOf
  <1>2. CASE /\ Whole(copy)
             /\ UploadGoes(h, "result", [copy EXCEPT !.result = TRUE])
             /\ multipart' = IF Chunked THEN multipart ELSE "completed"
             /\ fileRecord' = IF fileRecord = "deleted" THEN "deleted" ELSE "completed"
             /\ UNCHANGED <<upRow, upStored, upFaults, upTorn>>
    <2> DEFINE c == [copy EXCEPT !.result = TRUE]
    <2>1. c \in SessionType /\ c.result = TRUE /\ c.present = copy.present /\ c.parts = copy.parts
      BY <1>1 DEF SessionType
    <2>2. UploadGoes(h, "result", c) /\ UNCHANGED <<upRow, upStored, upFaults, upTorn>>
      BY <1>2
    <2> HIDE DEF c
    <2>3. /\ upReq' \in [UploadRequest -> RequestType]
          /\ upReq'[h].pc = "result" /\ upReq'[h].copy = c /\ upReq'[h].op = upReq[h].op
          /\ upReq'[h].token = upReq[h].token /\ upReq'[h].late = upReq[h].late
          /\ \A g \in UploadRequest \ {h} : upReq'[g] = upReq[g]
      BY <2>1, <2>2, UploadGoesIs, UploadWords
    <2>4. UploadTypes'
      BY <1>0, <2>2, <2>3 DEF UploadTypes
    <2>5. LeasesHeld'
      BY <1>0, <1>1, <2>2, <2>3, LeasesKept
    <2>6. upKind = "chunks" /\ ~upTorn' => ChunksOfRow' /\ ChunksOf(h)'
      BY <1>0, <2>1, <2>2, <2>3 DEF ChunksFollow, ChunksOf, ChunksOfRow
    <2>7. ChunksFollow'
      BY <1>0, <1>1, <2>2, <2>3, <2>6, ChunksByOne
    <2>8. /\ upKind = "chunks" => multipart' = "none" /\ fileRecord' = "completed"
          /\ upKind = "multipart" => multipart' = "completed" /\ fileRecord' = "completed"
          /\ upKind = "local" => multipart' = "completed" /\ (multipart = "open" => fileRecord' = "completed")
      BY <1>2, <1>k, <1>w DEF ResultsFollow
    <2>9. KindOf(h)' /\ upKind \in {"chunks", "multipart", "local"}
      BY <1>0, <1>k, <2>3, UploadWords DEF KindsApart, KindOf, UploadTypes
    <2>10. AllSaved /\ ~upUnsaved =>
             /\ ResultThere' /\ SavedOf(h)'
             /\ told' => upRow'.result \/ ~upRow'.present
      BY <1>0, <1>k, <1>l, <2>1, <2>2, <2>3, <2>8, <2>9 DEF SavedFollows, SavedOf, ResultThere, AllSaved
    <2>11. upKind = "chunks" <=> multipart' = "none"
      BY <2>8, <2>9
    <2>12. multipart' \in {"none", "open"} => fileRecord' # "deleted"
      BY <2>8, <2>9
    <2>13. upKind \in {"chunks", "multipart"} => ResultThere'
      BY <2>8 DEF ResultThere
    <2>14. ResultsFollow' /\ SavedFollows' /\ KindsApart'
      BY <1>0, <1>1, <2>1, <2>2, <2>3, <2>9, <2>10, <2>11, <2>12, <2>13, ResultsByWorker
    <2> QED
      BY <2>4, <2>5, <2>7, <2>14
  <1>3. CASE /\ IF Whole(copy) THEN UploadFault ELSE UNCHANGED upFaults
             /\ undoPart(h)
             /\ UNCHANGED <<upRow, multipart, fileRecord, upTorn>>
    <2>1. upFaults' \in Nat
      BY <1>3 DEF UploadFault, UploadTypes
    <2>2. /\ upReq' \in [UploadRequest -> RequestType]
          /\ upReq'[h].pc = "release" /\ upReq'[h].copy = upReq[h].copy /\ upReq'[h].op = upReq[h].op
          /\ upReq'[h].token = upReq[h].token /\ upReq'[h].late = upReq[h].late
          /\ \A g \in UploadRequest \ {h} : upReq'[g] = upReq[g]
          /\ ChunksFollow'
      BY <1>0, <1>3, UndoPartIs
    <2>3. UploadTypes'
      BY <1>0, <1>3, <2>1, <2>2 DEF UploadTypes
    <2>4. LeasesHeld'
      BY <1>0, <1>1, <1>3, <2>2, LeasesKept
    <2>5. (ResultKnown' => ResultKnown) /\ KindOf(h)' /\ (AllSaved /\ ~upUnsaved => SavedOf(h)')
      BY <1>0, <1>3, <1>k, <2>2 DEF ResultKnown, KindOf, KindsApart, SavedFollows, SavedOf
    <2>6. ResultsFollow' /\ SavedFollows' /\ KindsApart'
      BY <1>0, <1>3, <2>2, <2>5, ResultsByOne
    <2> QED
      BY <2>2, <2>3, <2>4, <2>6
  <1>4. CASE /\ Whole(copy) /\ ~Chunked /\ UploadFault
             /\ multipart' \in {"completed", "gone"} /\ fileRecord' \in {fileRecord, "deleted"}
             /\ undoPart(h) /\ UNCHANGED <<upRow, upTorn>>
    <2>1. upFaults' \in Nat
      BY <1>4 DEF UploadFault, UploadTypes
    <2>2. /\ upReq' \in [UploadRequest -> RequestType]
          /\ upReq'[h].pc = "release" /\ upReq'[h].copy = upReq[h].copy /\ upReq'[h].op = upReq[h].op
          /\ upReq'[h].token = upReq[h].token /\ upReq'[h].late = upReq[h].late
          /\ \A g \in UploadRequest \ {h} : upReq'[g] = upReq[g]
          /\ ChunksFollow'
      BY <1>0, <1>4, UndoPartIs
    <2>3. UploadTypes'
      BY <1>0, <1>4, <2>1, <2>2 DEF UploadTypes
    <2>4. LeasesHeld'
      BY <1>0, <1>1, <1>4, <2>2, LeasesKept
    <2>5. (ResultKnown' => ResultKnown) /\ KindOf(h)'
      BY <1>0, <1>4, <1>k, <2>2 DEF ResultKnown, KindOf, KindsApart
    <2>6. AllSaved /\ ~upUnsaved =>
             /\ ResultThere' /\ SavedOf(h)'
             /\ told' => upRow'.result \/ ~upRow'.present
      BY <1>0, <1>4, <1>k, <1>l, <2>2, <2>5 DEF SavedFollows, SavedOf, ResultThere, AllSaved
    <2>7. upKind \in {"chunks", "multipart"} => ResultThere'
      BY <1>4, <1>k, <1>w, <2>5 DEF ResultsFollow, ResultThere
    <2>8. multipart' # "none" /\ multipart' # "open" /\ upKind # "chunks"
      BY <1>4, <1>k
    <2>9. ResultsFollow' /\ SavedFollows' /\ KindsApart'
      BY <1>0, <1>1, <1>4, <2>2, <2>5, <2>6, <2>7, <2>8, ResultsByWorker
    <2> QED
      BY <2>2, <2>3, <2>4, <2>9
  <1>5. CASE /\ Whole(copy) /\ Chunked
             /\ upStored' = upStored \ ToSet(copy.parts)
             /\ UploadGoes(h, "release", copy)
             /\ \/ upRow' = NoSession /\ UNCHANGED <<upFaults, upTorn>>
                \/ UploadFault /\ upTorn' = TRUE /\ UNCHANGED upRow
             /\ UNCHANGED <<multipart, fileRecord>>
    <2>1. /\ upFaults' \in Nat /\ (upTorn => upTorn') /\ upRow' \in SessionType
          /\ ~upTorn' => upRow' = NoSession
          /\ upRow' = NoSession \/ UNCHANGED upRow
      BY <1>5, NoRequestIs DEF UploadFault, UploadTypes
    <2>2. /\ upReq' \in [UploadRequest -> RequestType]
          /\ upReq'[h].pc = "release" /\ upReq'[h].copy = upReq[h].copy /\ upReq'[h].op = upReq[h].op
          /\ upReq'[h].token = upReq[h].token /\ upReq'[h].late = upReq[h].late
          /\ \A g \in UploadRequest \ {h} : upReq'[g] = upReq[g]
      BY <1>5, ReleaseIs
    <2>3. UploadTypes'
      BY <1>0, <1>5, <2>1, <2>2 DEF UploadTypes
    <2>4. LeasesHeld'
      BY <1>0, <1>1, <2>1, <2>2, LeasesKept
    <2>5. ToSet(NoSession.parts) = {}
      BY NoRequestIs DEF ToSet
    <2>6. upKind = "chunks" /\ ~upTorn' => ChunksOfRow' /\ ChunksOf(h)'
      BY <2>1, <2>2, <2>5, NoRequestIs DEF ChunksOfRow, ChunksOf
    <2>7. ChunksFollow'
      BY <1>0, <1>1, <2>1, <2>2, <2>6, ChunksByOne
    <2>8. (ResultKnown' => ResultKnown) /\ KindOf(h)' /\ ~AllSaved
      BY <1>0, <1>5, <1>k, <2>1, <2>2, NoRequestIs DEF ResultKnown, KindOf, KindsApart, AllSaved
    <2>9. ResultsFollow' /\ SavedFollows' /\ KindsApart'
      BY <1>0, <1>1, <1>5, <2>1, <2>2, <2>8, ResultsByWorker DEF ResultsFollow, ResultThere
    <2> QED
      BY <2>3, <2>4, <2>7, <2>9
  <1> QED
    BY <1>2, <1>3, <1>4, <1>5 DEF finishUpload

\* A result is saved, or known to a client and in the session's place nevertheless.
LEMMA SaveResultInv ==
    ASSUME UploadInv, NEW h \in UploadRequest, saveResult(h)
    PROVE  UploadInv'
  <1> USE DEF UploadInv
  <1> DEFINE copy == upReq[h].copy
  <1>0. /\ upReq[h].pc = "result" /\ told' = (told \/ ~Chunked) /\ upUnsaved' = (upUnsaved \/ ~upRow'.result)
        /\ UNCHANGED <<upKind, upLease, upExpired, upTokens, upStored, multipart, fileRecord, upStale, upTorn>>
    BY DEF saveResult
  <1>1. upReq[h].token # 0 /\ copy \in SessionType /\ copy.result
    BY <1>0 DEF LeasesHeld, UploadTypes, RequestType, ResultsFollow
  <1>2. PICK pc \in {"clean", "release"} :
           /\ UploadGoes(h, pc, copy) /\ (pc = "clean" => Chunked /\ upRow' = copy)
    BY DEF saveResult
  <1>3. (upRow' = copy \/ UNCHANGED upRow) /\ (UNCHANGED upFaults \/ UploadFault)
    BY DEF saveResult
  <1>4. upFaults' \in Nat /\ upRow' \in SessionType
    BY <1>1, <1>3 DEF UploadFault, UploadTypes
  <1>5. /\ upReq' \in [UploadRequest -> RequestType]
        /\ upReq'[h].pc = pc /\ upReq'[h].copy = copy /\ upReq'[h].op = upReq[h].op
        /\ upReq'[h].token = upReq[h].token /\ upReq'[h].late = upReq[h].late
        /\ \A g \in UploadRequest \ {h} : upReq'[g] = upReq[g]
    BY <1>1, <1>2, UploadGoesIs, UploadWords
  <1>6. UploadTypes'
    BY <1>0, <1>4, <1>5 DEF UploadTypes
  <1>7. LeasesHeld'
    BY <1>0, <1>1, <1>5, LeasesKept
  <1>8. upKind = "chunks" /\ ~upTorn' => ChunksOfRow' /\ ChunksOf(h)'
    <2> SUFFICES ASSUME upKind = "chunks", ~upTorn PROVE ChunksOfRow' /\ ChunksOf(h)'
      BY <1>0
    <2>1. ChunksOfRow /\ \A p \in ToSet(copy.parts) : p[2] <= upReq[h].token /\ p[2] \in Nat
      BY <1>0, <1>1, PartIs DEF ChunksFollow, ChunksOf, SessionType
    <2>2. \A p \in ToSet(copy.parts) : p[2] <= upTokens
      BY <2>1 DEF LeasesHeld, UploadTypes, RequestType
    <2> QED
      BY <1>0, <1>1, <1>2, <1>3, <1>5, <2>1, <2>2 DEF ChunksOf, ChunksOfRow
  <1>9. ChunksFollow'
    BY <1>0, <1>1, <1>5, <1>8, ChunksByOne
  <1>10. ResultKnown /\ KindOf(h)'
    BY <1>0, <1>1, <1>2, <1>5 DEF ResultKnown, KindsApart, KindOf, Chunked
  <1>11. AllSaved /\ ~upUnsaved /\ ~upUnsaved' =>
             /\ ResultThere' /\ SavedOf(h)'
             /\ told' => upRow'.result \/ ~upRow'.present
             /\ upRow.result \/ ~upRow.present => upRow'.result \/ ~upRow'.present
    BY <1>0, <1>2, <1>5, <1>10 DEF SavedFollows, SavedOf, ResultThere
  <1>12. upKind \in {"chunks", "multipart"} => ResultThere'
    BY <1>0, <1>10 DEF ResultsFollow, ResultThere
  <1>13. ResultsFollow' /\ SavedFollows' /\ KindsApart'
    BY <1>0, <1>1, <1>5, <1>10, <1>11, <1>12, ResultsByWorker DEF ResultsFollow
  <1> QED
    BY <1>6, <1>7, <1>9, <1>13

\* The chunks go when the session has its result: no session still needs them.
LEMMA CleanChunksInv ==
    ASSUME UploadInv, NEW h \in UploadRequest, cleanChunks(h)
    PROVE  UploadInv'
  <1> USE DEF UploadInv
  <1>0. /\ upReq[h].pc = "clean" /\ (UNCHANGED upFaults \/ UploadFault)
        /\ UNCHANGED <<upKind, upRow, upLease, upExpired, upTokens, multipart, fileRecord, upStale, upUnsaved, upTorn>>
    BY DEF cleanChunks
  <1>1. upReq[h].token # 0 /\ upReq[h].copy \in SessionType /\ upReq[h].copy.result /\ upKind = "chunks"
    BY <1>0 DEF LeasesHeld, UploadTypes, RequestType, ResultsFollow, KindsApart, KindOf
  <1>2. upFaults' \in Nat
    BY <1>0 DEF UploadFault, UploadTypes
  <1>3. PICK pc \in {"compact", "release"}, c \in SessionType :
           UploadGoes(h, pc, c) /\ c.result /\ (c.parts = <<>> \/ c = upReq[h].copy)
    <2> DEFINE c == [upReq[h].copy EXCEPT !.parts = <<>>]
    <2>0. <<>> \in Seq(PartType)
      OBVIOUS
    <2>1. c \in SessionType /\ c.result /\ c.parts = <<>>
      BY <1>1, <2>0 DEF SessionType
    <2> QED
      BY <1>1, <2>1 DEF cleanChunks
  <1>4. /\ upReq' \in [UploadRequest -> RequestType]
        /\ upReq'[h].pc = pc /\ upReq'[h].copy = c /\ upReq'[h].op = upReq[h].op
        /\ upReq'[h].token = upReq[h].token /\ upReq'[h].late = upReq[h].late
        /\ \A g \in UploadRequest \ {h} : upReq'[g] = upReq[g]
    BY <1>3, UploadGoesIs, UploadWords
  <1>5. UploadTypes'
    BY <1>0, <1>2, <1>4 DEF UploadTypes
  <1>6. LeasesHeld'
    BY <1>0, <1>1, <1>4, LeasesKept
  <1>7. c.parts = <<>> => ToSet(c.parts) = {}
    BY DEF ToSet
  <1>8. upKind = "chunks" /\ ~upTorn' => ChunksOfRow' /\ ChunksOf(h)'
    BY <1>0, <1>3, <1>4, <1>7 DEF ChunksFollow, ChunksOf, ChunksOfRow
  <1>9. ChunksFollow'
    BY <1>0, <1>1, <1>4, <1>8, ChunksByOne
  <1>10. (ResultKnown' => ResultKnown) /\ KindOf(h)' /\ ~AllSaved
    BY <1>0, <1>1, <1>4 DEF ResultKnown, KindsApart, KindOf, AllSaved
  <1>11. ResultsFollow' /\ SavedFollows' /\ KindsApart'
    BY <1>0, <1>3, <1>4, <1>10, ResultsByOne
  <1> QED
    BY <1>5, <1>6, <1>9, <1>11

\* The session is saved without the chunks, with its result.
LEMMA CompactSessionInv ==
    ASSUME UploadInv, NEW h \in UploadRequest, compactSession(h)
    PROVE  UploadInv'
  <1> USE DEF UploadInv
  <1>0. /\ upReq[h].pc = "compact" /\ (upRow' = upReq[h].copy \/ UNCHANGED upRow)
        /\ UNCHANGED upFaults \/ UploadFault
        /\ UNCHANGED <<upKind, upLease, upExpired, upTokens, upStored, multipart, fileRecord, upStale, upUnsaved, upTorn>>
    BY DEF compactSession
  <1>1. upReq[h].token # 0 /\ upReq[h].copy \in SessionType /\ upReq[h].copy.result /\ upKind = "chunks"
    BY <1>0 DEF LeasesHeld, UploadTypes, RequestType, ResultsFollow, KindsApart, KindOf
  <1>2. upFaults' \in Nat /\ upRow' \in SessionType
    BY <1>0, <1>1 DEF UploadFault, UploadTypes
  <1>3. /\ upReq' \in [UploadRequest -> RequestType]
        /\ upReq'[h].pc = "release" /\ upReq'[h].copy = upReq[h].copy /\ upReq'[h].op = upReq[h].op
        /\ upReq'[h].token = upReq[h].token /\ upReq'[h].late = upReq[h].late
        /\ \A g \in UploadRequest \ {h} : upReq'[g] = upReq[g]
    BY ReleaseIs DEF compactSession
  <1>4. UploadTypes'
    BY <1>0, <1>2, <1>3 DEF UploadTypes
  <1>5. LeasesHeld'
    BY <1>0, <1>1, <1>3, LeasesKept
  <1>6. upKind = "chunks" /\ ~upTorn' => ChunksOfRow' /\ ChunksOf(h)'
    <2> SUFFICES ASSUME upKind = "chunks", ~upTorn PROVE ChunksOfRow' /\ ChunksOf(h)'
      BY <1>0
    <2>1. ChunksOfRow /\ \A p \in ToSet(upReq[h].copy.parts) : p[2] <= upReq[h].token /\ p[2] \in Nat
      BY <1>0, <1>1, PartIs DEF ChunksFollow, ChunksOf, SessionType
    <2>2. \A p \in ToSet(upReq[h].copy.parts) : p[2] <= upTokens
      BY <2>1 DEF LeasesHeld, UploadTypes, RequestType
    <2> QED
      BY <1>0, <1>1, <1>3, <2>1, <2>2 DEF ChunksOf, ChunksOfRow
  <1>7. ChunksFollow'
    BY <1>0, <1>1, <1>3, <1>6, ChunksByOne
  <1>8. ResultKnown /\ KindOf(h)' /\ ~AllSaved
    BY <1>0, <1>1, <1>3 DEF ResultKnown, KindsApart, KindOf, AllSaved
  <1>9. ResultsFollow' /\ SavedFollows' /\ KindsApart'
    BY <1>0, <1>1, <1>3, <1>8, ResultsByWorker DEF ResultsFollow, ResultThere
  <1> QED
    BY <1>4, <1>5, <1>7, <1>9

\* A direct upload is completed once, by whichever request comes first.
LEMMA CompleteDirectUploadInv ==
    ASSUME UploadInv, NEW h \in UploadRequest, completeDirectUpload(h)
    PROVE  UploadInv'
  <1> USE DEF UploadInv
  <1> DEFINE copy == upReq[h].copy
  <1>0. /\ upReq[h].pc = "complete" /\ (UNCHANGED upFaults \/ UploadFault)
        /\ UNCHANGED <<upKind, upRow, upLease, upExpired, upTokens, upStored, upUnsaved, upTorn>>
        /\ upStale => upStale'
    BY DEF completeDirectUpload
  <1>1. upReq[h].token # 0 /\ copy \in SessionType /\ upKind = "direct" /\ upFaults' \in Nat
    BY <1>0 DEF LeasesHeld, UploadTypes, RequestType, KindsApart, KindOf, UploadFault
  <1>2. PICK pc \in {"result", "release"}, c \in SessionType :
           /\ UploadGoes(h, pc, c) /\ c.present = copy.present
           /\ \/ /\ c = copy /\ pc = "release" /\ UNCHANGED <<multipart, fileRecord>>
                 /\ told' => told \/ copy.result
              \/ /\ c.result /\ pc = "result" /\ UNCHANGED told
                 /\ multipart = "open" /\ multipart' = "completed" /\ fileRecord' = "completed"
              \/ /\ c = copy /\ pc = "release" /\ UNCHANGED told
                 /\ multipart = "open" /\ multipart' \in {"completed", "gone"}
    <2> DEFINE c == [copy EXCEPT !.result = TRUE]
    <2>1. c \in SessionType /\ c.result /\ c.present = copy.present
      BY <1>1 DEF SessionType
    <2>2. CASE /\ ~copy.result /\ multipart = "open"
               /\ multipart' = "completed" /\ fileRecord' = "completed"
               /\ UploadGoes(h, "result", c) /\ UNCHANGED told
      BY <2>1, <2>2
    <2>3. CASE UploadGoes(h, "release", copy) /\ UNCHANGED <<multipart, fileRecord>> /\ (told' => told \/ copy.result)
      BY <1>1, <2>3
    <2>4. CASE /\ multipart = "open" /\ multipart' \in {"completed", "gone"} /\ UNCHANGED told
               /\ UploadGoes(h, "release", copy)
      BY <1>1, <2>4
    <2> QED
      BY <2>2, <2>3, <2>4 DEF completeDirectUpload
  <1>3. /\ upReq' \in [UploadRequest -> RequestType]
        /\ upReq'[h].pc = pc /\ upReq'[h].copy = c /\ upReq'[h].op = upReq[h].op
        /\ upReq'[h].token = upReq[h].token /\ upReq'[h].late = upReq[h].late
        /\ \A g \in UploadRequest \ {h} : upReq'[g] = upReq[g]
    BY <1>2, UploadGoesIs, UploadWords
  <1>4. UploadTypes'
    BY <1>0, <1>1, <1>3 DEF UploadTypes
  <1>5. LeasesHeld'
    BY <1>0, <1>1, <1>3, LeasesKept
  <1>6. ChunksFollow'
    BY <1>0, <1>1 DEF ChunksFollow
  <1>7. KindOf(h)'
    BY <1>0, <1>1, <1>2, <1>3 DEF KindsApart, KindOf
  <1>8. multipart' # "none" /\ (multipart' = "open" => fileRecord' # "deleted")
    BY <1>1, <1>2 DEF ResultsFollow
  <1>9. ASSUME AllSaved, ~upUnsaved
        PROVE  /\ ResultThere' /\ SavedOf(h)'
               /\ told' => upRow'.result \/ ~upRow'.present
    <2>1. ResultThere /\ (told => upRow.result \/ ~upRow.present) /\ SavedOf(h)
      BY <1>9 DEF SavedFollows
    <2>2. SavedOf(h)' /\ (told' => upRow'.result \/ ~upRow'.present)
      BY <1>0, <1>1, <1>2, <1>3, <2>1 DEF SavedOf
    <2>3. ResultKnown' => ResultKnown \/ (fileRecord' = "completed" /\ multipart' = "completed")
      BY <1>0, <1>2, <1>3 DEF ResultKnown
    <2>4. ResultThere'
      BY <1>2, <2>1, <2>3 DEF ResultThere
    <2> QED
      BY <2>2, <2>4
  <1>10. pc = "result" => c.result
    BY <1>2
  <1>11. ResultsFollow' /\ SavedFollows' /\ KindsApart'
    BY <1>0, <1>1, <1>2, <1>3, <1>7, <1>8, <1>9, <1>10, ResultsByWorker
  <1> QED
    BY <1>4, <1>5, <1>6, <1>11

\* A session is deleted: a multipart upload of the object store is aborted only while it is open,
\* when nobody knows a result; one of the file system when the session has none, and no result
\* went unsaved.
LEMMA DeleteResumableUploadInv ==
    ASSUME UploadInv, NEW h \in UploadRequest, deleteResumableUpload(h)
    PROVE  UploadInv'
  <1> USE DEF UploadInv
  <1> DEFINE copy == upReq[h].copy
             abort == ~Chunked /\ ~copy.result
  <1>0. /\ upReq[h].pc = "delete" /\ upKind # "direct" /\ UploadGoes(h, "release", copy)
        /\ UNCHANGED <<upKind, upLease, upExpired, upTokens, told, upStale, upUnsaved>>
    BY DEF deleteResumableUpload
  <1>1. upReq[h].token # 0 /\ copy \in SessionType
    BY <1>0 DEF LeasesHeld, UploadTypes, RequestType
  <1>2. /\ UNCHANGED upFaults \/ UploadFault
        /\ (upRow' = NoSession /\ UNCHANGED upTorn) \/ (UNCHANGED upRow /\ upTorn' = TRUE)
        /\ UNCHANGED <<multipart, fileRecord>> \/ (abort /\ CanAbort /\ Abort)
    BY DEF deleteResumableUpload
  <1>3. upFaults' \in Nat /\ upRow' \in SessionType /\ (upTorn => upTorn')
    BY <1>2, NoRequestIs DEF UploadFault, UploadTypes
  <1>4. /\ upReq' \in [UploadRequest -> RequestType]
        /\ upReq'[h].pc = "release" /\ upReq'[h].copy = upReq[h].copy /\ upReq'[h].op = upReq[h].op
        /\ upReq'[h].token = upReq[h].token /\ upReq'[h].late = upReq[h].late
        /\ \A g \in UploadRequest \ {h} : upReq'[g] = upReq[g]
    BY <1>0, ReleaseIs
  <1>5. UploadTypes'
    BY <1>0, <1>3, <1>4 DEF UploadTypes
  <1>6. LeasesHeld'
    BY <1>0, <1>1, <1>3, <1>4, LeasesKept
  <1>7. ToSet(NoSession.parts) = {}
    BY NoRequestIs DEF ToSet
  <1>8. upKind = "chunks" /\ ~upTorn' => ChunksOfRow' /\ ChunksOf(h)'
    BY <1>2, <1>4, <1>7, NoRequestIs DEF ChunksOfRow, ChunksOf
  <1>9. ChunksFollow'
    BY <1>0, <1>1, <1>3, <1>4, <1>8, ChunksByOne
  <1>10. (ResultKnown' => ResultKnown) /\ KindOf(h)'
    BY <1>0, <1>2, <1>4, NoRequestIs DEF ResultKnown, KindOf, KindsApart
  <1>11. /\ upKind = "chunks" <=> multipart' = "none"
         /\ multipart' \in {"none", "open"} => fileRecord' # "deleted"
         /\ upKind \in {"chunks", "multipart"} => ResultThere'
    <2>1. CASE UNCHANGED <<multipart, fileRecord>>
      BY <1>10, <2>1 DEF ResultsFollow, ResultThere
    <2>2. CASE abort /\ CanAbort /\ Abort
      <3>1. upKind # "chunks" /\ multipart # "none"
        BY <2>2 DEF Chunked, ResultsFollow
      <3>2. multipart' # "none" /\ multipart' # "open"
        BY <2>2, <3>1 DEF Abort
      <3>3. upKind = "multipart" => ~ResultKnown
        BY <2>2 DEF CanAbort, ResultsFollow, ResultThere
      <3> QED
        BY <1>10, <3>1, <3>2, <3>3 DEF ResultThere
    <2> QED
      BY <1>2, <2>1, <2>2
  <1>12. ASSUME AllSaved, AllSaved', ~upUnsaved
         PROVE  ResultThere' /\ SavedOf(h)' /\ ~upRow'.present
    <2>1. upKind = "local" /\ ~upTorn /\ upRow' = NoSession /\ ~upRow'.present
      BY <1>0, <1>2, <1>12, NoRequestIs DEF AllSaved
    <2>2. SavedOf(h)'
      BY <1>4, <2>1 DEF SavedOf
    <2>3. CASE UNCHANGED <<multipart, fileRecord>>
      BY <1>10, <1>12, <2>1, <2>2, <2>3 DEF SavedFollows, ResultThere
    <2>4. CASE abort /\ CanAbort /\ Abort
      <3>1. ~upRow.result /\ upRow.present /\ ~told /\ ~copy.result
        BY <1>0, <1>12, <2>1, <2>4 DEF SavedFollows, SavedOf
      <3>2. \A g \in UploadRequest \ {h} : upReq[g].pc # "result"
        BY <1>1, <2>1, OthersWait
      <3>3. \A g \in UploadRequest \ {h} : ~upReq[g].copy.result
        BY <1>12, <3>1, <3>2 DEF SavedFollows, SavedOf
      <3>4. ~ResultKnown'
        BY <1>10, <3>1, <3>3 DEF ResultKnown
      <3> QED
        BY <2>1, <2>2, <3>4 DEF ResultThere
    <2> QED
      BY <1>2, <2>3, <2>4
  <1>13. ResultsFollow' /\ SavedFollows' /\ KindsApart'
    BY <1>0, <1>1, <1>3, <1>4, <1>10, <1>11, <1>12, ResultsByWorker
  <1> QED
    BY <1>5, <1>6, <1>9, <1>13

\* A direct upload is aborted: with the session as it is and nobody else at work, nobody knows of a
\* result that the session does not have.
LEMMA AbortDirectUploadInv ==
    ASSUME UploadInv, NEW h \in UploadRequest, abortDirectUpload(h)
    PROVE  UploadInv'
  <1> USE DEF UploadInv
  <1>0. /\ upReq[h].pc = "delete" /\ upKind = "direct" /\ upRow' = NoSession
        /\ UNCHANGED <<upKind, upLease, upExpired, upTokens, upFaults, upStored, told, upUnsaved, upTorn>>
    BY DEF abortDirectUpload
  <1>1. upReq[h].copy \in SessionType
    BY DEF UploadTypes, RequestType
  <1>2. /\ ~upStale' => ~upStale /\ upRow = upReq[h].copy
        /\ ~upStale' => \A g \in UploadRequest \ {h} : upReq[g].token = 0
    BY DEF abortDirectUpload, AtWork
  <1>3. /\ upReq' \in [UploadRequest -> RequestType]
        /\ \/ /\ upReq'[h].pc = "idle" /\ upReq'[h].op = "none" /\ upReq'[h].token = 0
              /\ upReq'[h].late = FALSE /\ upReq'[h].copy = NoSession
           \/ /\ upReq'[h].pc = "release" /\ upReq'[h].copy = upReq[h].copy /\ upReq'[h].op = upReq[h].op
              /\ upReq'[h].token = upReq[h].token /\ upReq'[h].late = upReq[h].late
        /\ \A g \in UploadRequest \ {h} : upReq'[g] = upReq[g]
    <2>1. CASE upReq[h].op = "expire"
      BY <2>1, UploadEndIs DEF abortDirectUpload
    <2>2. CASE upReq[h].op # "expire"
      BY <2>2, ReleaseIs DEF abortDirectUpload
    <2> QED
      BY <2>1, <2>2
  <1>4. UploadTypes'
    BY <1>0, <1>3, NoRequestIs DEF UploadTypes
  <1>5. LeasesHeld'
    BY <1>0, <1>3 DEF LeasesHeld, UploadTypes, RequestType
  <1>6. KindOf(h)'
    BY <1>0, <1>3 DEF KindsApart, KindOf
  <1>7. multipart' # "none" /\ (multipart' = "open" => fileRecord' # "deleted")
    BY <1>0 DEF abortDirectUpload, Abort, ResultsFollow
  <1>8. ChunksFollow' /\ ResultsFollow' /\ KindsApart'
    BY <1>0, <1>3, <1>6, <1>7 DEF ChunksFollow, ResultsFollow, KindsApart, KindOf
  <1>9. SavedFollows'
    <2> SUFFICES ASSUME ~upStale', ~upUnsaved
                 PROVE  ResultThere' /\ \A g \in UploadRequest : SavedOf(g)'
      BY <1>0, NoRequestIs DEF SavedFollows, AllSaved
    <2>1. ResultThere /\ (told => upRow.result \/ ~upRow.present) /\ \A g \in UploadRequest : SavedOf(g)
      BY <1>0, <1>2 DEF SavedFollows, AllSaved
    <2>2. \A g \in UploadRequest : SavedOf(g)'
      BY <1>0, <1>3, <2>1, NoRequestIs DEF SavedOf
    <2>3. ResultKnown' => ResultKnown
      BY <1>0, <1>3, NoRequestIs DEF ResultKnown
    <2>4. CASE upReq[h].copy.result
      <3>1. UNCHANGED <<multipart, fileRecord>>
        BY <2>4 DEF abortDirectUpload
      <3> QED
        BY <2>1, <2>2, <2>3, <3>1 DEF ResultThere
    <2>5. CASE ~upReq[h].copy.result
      <3>1. ~upRow.result /\ upRow.present /\ ~told
        BY <1>0, <1>2, <2>1, <2>5 DEF SavedOf
      <3>2. \A g \in UploadRequest : ~upReq[g].copy.result
        BY <1>2, <2>1, <2>5, <3>1 DEF SavedOf, LeasesHeld
      <3>3. ~ResultKnown'
        BY <2>3, <3>1, <3>2 DEF ResultKnown
      <3> QED
        BY <2>2, <3>3 DEF ResultThere
    <2> QED
      BY <2>4, <2>5
  <1> QED
    BY <1>4, <1>5, <1>8, <1>9

\* Every step keeps the inductive invariant.
LEMMA UploadStepInv == UploadInv /\ [UploadNext]_uploadVars => UploadInv'
  <1> SUFFICES ASSUME UploadInv, [UploadNext]_uploadVars PROVE UploadInv'
    OBVIOUS
  <1>1. CASE UNCHANGED uploadVars
    BY <1>1 DEF uploadVars, UploadInv, UploadTypes, LeasesHeld, ChunksFollow, ChunksOf, ChunksOfRow,
                ResultsFollow, SavedFollows, AllSaved, SavedOf, ResultThere, ResultKnown, KindsApart, KindOf, Mine
  <1>2. CASE UploadNext
    BY <1>2, LoadUploadInv, AcquireLeaseInv, ReloadUploadInv, ReleaseLeaseInv, UploadCrashesInv, PutPartInv,
       SavePartInv, FinishUploadInv, SaveResultInv, CleanChunksInv, CompactSessionInv, CompleteDirectUploadInv, DeleteResumableUploadInv,
       AbortDirectUploadInv, LeaseExpiresInv DEF UploadNext
  <1> QED
    BY <1>1, <1>2

\* Two requests whose leases hold are never at work on one session; no chunk of a saved session is
\* lost before the file is put together, unless a deletion failed halfway, a request outlived its
\* lease or a save was committed and reported as failed; the file a client was told of keeps its
\* record, with the conditions that ResultIsKept states for the file system and direct uploads:
\* for every number of requests, parts, leases and faults.
THEOREM UploadsAreSafe == UploadSpec => []UploadSafe
  <1>1. UploadInv => OneWriter
    BY DEF UploadInv, LeasesHeld, OneWriter, AtWork
  <1>2. UploadInv => ChunksAreKept
    BY DEF UploadInv, ChunksFollow, ChunksOfRow, ChunksAreKept
  <1>3. UploadInv => ResultIsKept
    BY DEF UploadInv, ResultsFollow, SavedFollows, AllSaved, ResultThere, ResultKnown, ResultIsKept
  <1>4. UploadInv => UploadSafe
    BY <1>1, <1>2, <1>3 DEF UploadSafe
  <1> QED
    BY UploadInitInv, UploadStepInv, <1>4, PTL DEF UploadSpec
=============================================================================
