----------------------------- MODULE PushOutbox -----------------------------
(***************************************************************************)
(* The durable push outbox: jobs are rows of the persistent cache, every   *)
(* node runs a worker that scans them, claims one by compare-and-swap,     *)
(* delivers it and records the outcome; dead jobs move to a dead letter    *)
(* queue from which an administrator replays or deletes them.              *)
(*                                                                         *)
(* Every operation on the cache is a step. Time is reduced to whether the  *)
(* NextAttemptAt or LeaseUntil of a row has come. A value that was written *)
(* is identified by replay number, status, attempt and owner, which with   *)
(* the time stamps in the row never repeat. Payloads and statistics are    *)
(* left out.                                                               *)
(***************************************************************************)
EXTENDS Naturals, FiniteSets

CONSTANTS
    Jobs,        \* the first chunks of the receipt that is pushed
    Worker,      \* workers, one per node
    MaxAttempts, \* attempts before a job is dead
    MaxFault,    \* bound: cache errors, crashes and deliveries slower than a lease
    MaxReplay    \* bound: replays by the administrator

Job == 1 .. Jobs

ASSUME OutboxAssumption == {Jobs, MaxAttempts, MaxFault, MaxReplay} \subseteq Nat

VARIABLES
    enqueue,    \* the call of Enqueue: its state and the chunks persisted
    outbox,     \* rows pushoutbox:*
    ripe,       \* jobs whose NextAttemptAt or LeaseUntil is not after now
    dlq,        \* rows pushdlq:*
    worker,     \* what every worker does
    replay,     \* calls of ReplayDurableDeadLetter
    replays, faults,
    delivered,  \* jobs that were delivered at least once
    discarded,  \* jobs the administrator has deleted
    crossed     \* jobs of which a burial and a replay were under way at once (history)

outboxVars == <<enqueue, outbox, ripe, dlq, worker, replay, replays, faults, delivered, discarded,
                crossed>>

Entry(gen, status, attempts, owner) ==
    [gen |-> gen, status |-> status, attempts |-> attempts, owner |-> owner]
NoEntry == Entry(0, "absent", 0, "none")
Present(j) == outbox[j] # NoEntry

Scanning(batch) == [pc |-> "scan", batch |-> batch, job |-> 0, entry |-> NoEntry, result |-> "none"]

-----------------------------------------------------------------------------
(* Enqueue and persistReceipt: one row per chunk, all or none. *)

persistReceipt ==
    \E j \in Job :
        /\ enqueue.pc = "persist" /\ enqueue.created = 1 .. j - 1
        /\ outbox' = [outbox EXCEPT ![j] = Entry(0, "queued", 0, "none")]
        /\ ripe' = ripe \cup {j}
        /\ enqueue' = [enqueue EXCEPT !.created = @ \cup {j}]
        /\ UNCHANGED <<dlq, worker, replay, replays, faults, delivered, discarded, crossed>>

EnqueueDone ==
    /\ enqueue.pc = "persist" /\ enqueue.created = Job
    /\ enqueue' = [enqueue EXCEPT !.pc = "accepted"]
    /\ UNCHANGED <<outbox, ripe, dlq, worker, replay, replays, faults, delivered, discarded, crossed>>

\* A chunk, of these or a later one of the receipt, cannot be written: those before it are
\* deleted one by one, errors ignored.
EnqueueFails ==
    /\ enqueue.pc = "persist" /\ faults < MaxFault
    /\ faults' = faults + 1
    /\ enqueue' = [enqueue EXCEPT !.pc = IF enqueue.created = {} THEN "failed" ELSE "undo"]
    /\ UNCHANGED <<outbox, ripe, dlq, worker, replay, replays, delivered, discarded, crossed>>

EnqueueUndo ==
    \E j \in enqueue.created :
        /\ enqueue.pc = "undo" /\ \A i \in enqueue.created : j <= i
        /\ outbox' = [outbox EXCEPT ![j] = NoEntry]
        /\ enqueue' = [pc |-> IF enqueue.created = {j} THEN "failed" ELSE "undo",
                       created |-> enqueue.created \ {j}]
        /\ UNCHANGED <<ripe, dlq, worker, replay, replays, faults, delivered, discarded, crossed>>

-----------------------------------------------------------------------------
(* The worker. *)

\* Faulty variant: a row that another worker has claimed is left to that worker.
DueUnclaimed(j) ==
    Present(j) /\ (outbox[j].status \in {"completed", "dead"} \/ (j \in ripe /\ outbox[j].status = "queued"))

\* Rows to finish, and rows whose time, or whose lease, is over.
Due(j) == Present(j) /\ (outbox[j].status \in {"completed", "dead"} \/ j \in ripe)

\* processAvailable lists the rows; those not due will be skipped.
processAvailable(w) ==
    /\ worker[w] = Scanning({})
    /\ LET due == {j \in Job : Due(j)}
       IN  /\ due # {}
           /\ worker' = [worker EXCEPT ![w] = Scanning({[job |-> j, entry |-> outbox[j]] : j \in due})]
    /\ UNCHANGED <<enqueue, outbox, ripe, dlq, replay, replays, faults, delivered, discarded, crossed>>

\* PCacheCompareAndSwap.
CompareAndSwap(j, old, new) ==
    IF outbox[j] = old THEN [outbox EXCEPT ![j] = new] ELSE outbox

\* processEntry of a row that was completed or dead in the list: what is left of
\* finishDelivery is done, by whichever worker comes by.
processFinished(w) ==
    \E e \in worker[w].batch :
        LET rest == worker[w].batch \ {e}
        IN  /\ worker[w].pc = "scan"
            /\ \/ /\ e.entry.status = "completed"
                  /\ outbox' = [outbox EXCEPT ![e.job] = NoEntry]
                  /\ worker' = [worker EXCEPT ![w].batch = rest]
               \/ /\ e.entry.status = "dead"
                  /\ worker' = [worker EXCEPT ![w] =
                        [pc |-> "bury", batch |-> rest, job |-> e.job, entry |-> e.entry, result |-> "none"]]
                  /\ UNCHANGED outbox
            /\ UNCHANGED <<enqueue, ripe, dlq, replay, replays, faults, delivered, discarded, crossed>>

\* processEntry of a row that is due: the claim.
processClaim(w) ==
    \E e \in worker[w].batch :
        LET rest == worker[w].batch \ {e}
            claimed == Entry(e.entry.gen, "leased", e.entry.attempts + 1, w)
        IN  /\ worker[w].pc = "scan" /\ e.entry.status \in {"queued", "leased"}
            /\ outbox' = CompareAndSwap(e.job, e.entry, claimed)
            /\ IF outbox[e.job] = e.entry
                 THEN /\ worker' = [worker EXCEPT ![w] = [pc |-> "deliver", batch |-> rest,
                                        job |-> e.job, entry |-> claimed, result |-> "none"]]
                      /\ ripe' = ripe \ {e.job}
                 ELSE /\ worker' = [worker EXCEPT ![w].batch = rest]
                      /\ UNCHANGED ripe
            /\ UNCHANGED <<enqueue, dlq, replay, replays, faults, delivered, discarded, crossed>>

\* deliver (external): delivered, a transient error, or one that a retry does not repair.
Deliver(w) ==
    /\ worker[w].pc = "deliver"
    /\ \E res \in {"ok", "transient", "permanent"} :
          /\ worker' = [worker EXCEPT ![w].pc = "finish", ![w].result = res]
          /\ delivered' = IF res = "ok" THEN delivered \cup {worker[w].job} ELSE delivered
    /\ UNCHANGED <<enqueue, outbox, ripe, dlq, replay, replays, faults, discarded, crossed>>

\* Faulty variant: the last failed attempt is queued again.
OutcomeRetry(e, result) ==
    CASE result = "ok" -> "completed"
      [] result = "permanent" -> "dead"
      [] OTHER -> "queued"

\* finishDelivery: the status after an attempt.
Outcome(e, result) ==
    CASE result = "ok" -> "completed"
      [] result = "permanent" \/ (result = "transient" /\ e.attempts >= MaxAttempts) -> "dead"
      [] OTHER -> "queued"

\* finishDelivery: the outcome is written if the claim still stands.
finishDelivery(w) ==
    LET j == worker[w].job
        held == worker[w].entry
        status == Outcome(held, worker[w].result)
        next == Entry(held.gen, status, held.attempts, "none")
        pc == CASE status = "completed" -> "drop" [] status = "dead" -> "bury" [] OTHER -> "scan"
    IN  /\ worker[w].pc = "finish"
        /\ outbox' = CompareAndSwap(j, held, next)
        /\ ripe' = IF outbox[j] = held THEN ripe \ {j} ELSE ripe
        /\ worker' = [worker EXCEPT ![w] =
              IF outbox[j] = held /\ pc # "scan"
                THEN [pc |-> pc, batch |-> @.batch, job |-> j, entry |-> next, result |-> "none"]
                ELSE Scanning(@.batch)]
        /\ UNCHANGED <<enqueue, dlq, replay, replays, faults, delivered, discarded, crossed>>

\* Faulty variant: the row is deleted before the dead letter is written.
buryLate(w) ==
    /\ worker[w].pc = "bury"
    /\ outbox' = [outbox EXCEPT ![worker[w].job] = NoEntry]
    /\ worker' = [worker EXCEPT ![w] = Scanning(@.batch)]
    /\ UNCHANGED <<enqueue, ripe, dlq, replay, replays, faults, delivered, discarded, crossed>>

\* movePushDeadLetter writes the dead letter ...
bury(w) ==
    /\ worker[w].pc = "bury"
    /\ dlq' = [dlq EXCEPT ![worker[w].job] = worker[w].entry]
    /\ worker' = [worker EXCEPT ![w].pc = "drop"]
    /\ crossed' = IF replay[worker[w].job] = "put" THEN crossed \cup {worker[w].job} ELSE crossed
    /\ UNCHANGED <<enqueue, outbox, ripe, replay, replays, faults, delivered, discarded>>

\* ... and deletes the row, whatever it holds by now; so does a completed delivery.
drop(w) ==
    /\ worker[w].pc = "drop"
    /\ outbox' = [outbox EXCEPT ![worker[w].job] = NoEntry]
    /\ worker' = [worker EXCEPT ![w] = Scanning(@.batch)]
    /\ UNCHANGED <<enqueue, ripe, dlq, replay, replays, faults, delivered, discarded, crossed>>

\* An operation fails: the worker turns to the next row of its list.
GiveUp(w) ==
    /\ worker[w].pc # "scan" /\ faults < MaxFault
    /\ faults' = faults + 1
    /\ worker' = [worker EXCEPT ![w] = Scanning(@.batch)]
    /\ UNCHANGED <<enqueue, outbox, ripe, dlq, replay, replays, delivered, discarded, crossed>>

\* The process of the worker ends, another begins.
WorkerCrash(w) ==
    /\ worker[w] # Scanning({}) /\ faults < MaxFault
    /\ faults' = faults + 1
    /\ worker' = [worker EXCEPT ![w] = Scanning({})]
    /\ UNCHANGED <<enqueue, outbox, ripe, dlq, replay, replays, delivered, discarded, crossed>>

\* The worker that has claimed j still works on it.
Leased(j) == \E w \in Worker : worker[w].pc \in {"deliver", "finish"} /\ worker[w].entry = outbox[j]

\* The retry delay or the lease of a row passes. A lease that its holder outlasts is a fault.
TimePasses(j) ==
    /\ Present(j) /\ outbox[j].status \in {"queued", "leased"} /\ j \notin ripe
    /\ Leased(j) => faults < MaxFault
    /\ faults' = IF Leased(j) THEN faults + 1 ELSE faults
    /\ ripe' = ripe \cup {j}
    /\ UNCHANGED <<enqueue, outbox, dlq, worker, replay, replays, delivered, discarded, crossed>>

-----------------------------------------------------------------------------
(* The administrator. *)

\* ReplayDurableDeadLetter reads the dead letter ...
ReplayGet(j) ==
    /\ replay[j] = "none" /\ dlq[j] # NoEntry /\ replays < MaxReplay
    /\ replay' = [replay EXCEPT ![j] = "got"]
    /\ replays' = replays + 1
    /\ UNCHANGED <<enqueue, outbox, ripe, dlq, worker, faults, delivered, discarded, crossed>>

\* A worker is about to delete the row of j, whatever the row holds then.
Dropping(j) == \E w \in Worker : worker[w].pc = "drop" /\ worker[w].job = j

\* ... inserts the job, where a duplicate is no error ...
ReplayPut(j) ==
    /\ replay[j] = "got"
    /\ IF Present(j) THEN UNCHANGED <<outbox, ripe>> ELSE
          /\ outbox' = [outbox EXCEPT ![j] = Entry(replays, "queued", 0, "none")]
          /\ ripe' = ripe \cup {j}
    /\ replay' = [replay EXCEPT ![j] = "put"]
    /\ crossed' = IF Dropping(j) THEN crossed \cup {j} ELSE crossed
    /\ UNCHANGED <<enqueue, dlq, worker, replays, faults, delivered, discarded>>

\* ... and deletes the dead letter.
ReplayDelete(j) ==
    /\ replay[j] = "put"
    /\ dlq' = [dlq EXCEPT ![j] = NoEntry]
    /\ replay' = [replay EXCEPT ![j] = "none"]
    /\ UNCHANGED <<enqueue, outbox, ripe, worker, replays, faults, delivered, discarded, crossed>>

\* An operation of it fails.
ReplayFails(j) ==
    /\ replay[j] # "none" /\ faults < MaxFault
    /\ faults' = faults + 1
    /\ replay' = [replay EXCEPT ![j] = "none"]
    /\ UNCHANGED <<enqueue, outbox, ripe, dlq, worker, replays, delivered, discarded, crossed>>

DeleteDurableDeadLetter(j) ==
    /\ dlq[j] # NoEntry
    /\ dlq' = [dlq EXCEPT ![j] = NoEntry]
    /\ discarded' = discarded \cup {j}
    /\ UNCHANGED <<enqueue, outbox, ripe, worker, replay, replays, faults, delivered, crossed>>

-----------------------------------------------------------------------------
OutboxInit ==
    /\ enqueue = [pc |-> "persist", created |-> {}]
    /\ outbox = [j \in Job |-> NoEntry] /\ ripe = {} /\ dlq = [j \in Job |-> NoEntry]
    /\ worker = [w \in Worker |-> Scanning({})]
    /\ replay = [j \in Job |-> "none"] /\ replays = 0 /\ faults = 0
    /\ delivered = {} /\ discarded = {} /\ crossed = {}

WorkerStep(w) ==
    \/ processAvailable(w) \/ processFinished(w) \/ processClaim(w)
    \/ Deliver(w) \/ finishDelivery(w) \/ bury(w) \/ drop(w)

AdminStep(j) ==
    ReplayGet(j) \/ ReplayPut(j) \/ ReplayDelete(j) \/ ReplayFails(j) \/ DeleteDurableDeadLetter(j)

OutboxNext ==
    \/ persistReceipt \/ EnqueueDone \/ EnqueueFails \/ EnqueueUndo
    \/ \E w \in Worker : WorkerStep(w) \/ GiveUp(w) \/ WorkerCrash(w)
    \/ \E j \in Job : TimePasses(j) \/ AdminStep(j)

\* Workers run, time passes, and a replay that has begun goes on.
OutboxFairness ==
    /\ \A w \in Worker : WF_outboxVars(WorkerStep(w))
    /\ \A j \in Job : WF_outboxVars(TimePasses(j)) /\ WF_outboxVars(ReplayPut(j) \/ ReplayDelete(j))
    /\ WF_outboxVars(persistReceipt \/ EnqueueDone \/ EnqueueUndo)

OutboxSpec == OutboxInit /\ [][OutboxNext]_outboxVars /\ OutboxFairness

-----------------------------------------------------------------------------
EntryType == [gen : 0 .. MaxReplay, status : {"queued", "leased", "completed", "dead", "absent"},
              attempts : 0 .. MaxAttempts + MaxFault, owner : Worker \cup {"none"}]

\* Type invariant, with the number of attempts that faults can add to MaxAttempts.
OutboxTypeOK ==
    /\ enqueue \in [pc : {"persist", "accepted", "undo", "failed"}, created : SUBSET Job]
    /\ outbox \in [Job -> EntryType] /\ dlq \in [Job -> EntryType] /\ ripe \subseteq Job
    /\ worker \in [Worker -> [pc : {"scan", "deliver", "finish", "bury", "drop"},
                              batch : SUBSET [job : Job, entry : EntryType], job : Job \cup {0},
                              entry : EntryType, result : {"none", "ok", "transient", "permanent"}]]
    /\ replay \in [Job -> {"none", "got", "put"}]
    /\ replays \in 0 .. MaxReplay /\ faults \in 0 .. MaxFault
    /\ delivered \subseteq Job /\ discarded \subseteq Job /\ crossed \subseteq Job

Accounted(j) == Present(j) \/ dlq[j] # NoEntry \/ j \in delivered \/ j \in discarded

\* An accepted receipt survives crashes, errors, expired leases, workers with an old list and
\* replays: each of its jobs is in the outbox or a dead letter until it has been delivered or
\* the administrator has deleted it, unless a burial of the job, which deletes its row whatever
\* the row holds, and a replay of it, which takes any row for its own, have crossed.
NotLost == enqueue.pc = "accepted" => \A j \in Job \ crossed : Accounted(j)

\* At least once, replays included: what the comment on DurableOutbox says.
DeliveredAtLeastOnce == enqueue.pc = "accepted" => \A j \in Job : Accounted(j)

\* One attempt is made by one worker: of two that deliver the same job, the one whose lease
\* ran out makes an earlier attempt than the other.
OneWorkerPerAttempt ==
    \A v, w \in Worker :
        v # w /\ worker[v].pc = "deliver" /\ worker[w].pc = "deliver"
              /\ worker[v].job = worker[w].job
            => <<worker[v].entry.gen, worker[v].entry.attempts>>
                   # <<worker[w].entry.gen, worker[w].entry.attempts>>

\* Receipts are kept, and no attempt is made twice at a time.
OutboxSafe == NotLost /\ OneWorkerPerAttempt

\* Every job leaves the outbox in the end, whatever the provider answers.
OutboxDrains == \A j \in Job : Present(j) ~> ~Present(j)

=============================================================================
