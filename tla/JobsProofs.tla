----------------------------- MODULE JobsProofs -----------------------------
(***************************************************************************)
(* Safety of the durable push outbox, of scheduled messages and of the     *)
(* cache of unread counters, for every number of jobs, workers, nodes and  *)
(* users and every bound.                                                  *)
(***************************************************************************)
EXTENDS PushOutbox, ScheduledMessages, UserCache, FiniteSetTheorems, TLAPS

-----------------------------------------------------------------------------
(* The durable push outbox. *)

OutboxStatus == {"queued", "leased", "completed", "dead", "absent"}
OutboxPc == {"scan", "deliver", "finish", "bury", "drop"}
OutboxResult == {"none", "ok", "transient", "permanent"}
OutboxEntry == [gen : Nat, status : OutboxStatus, attempts : Nat, owner : Worker \union {"none"}]
ListedEntry == [job : Job, entry : OutboxEntry]
OutboxWorker == [pc : OutboxPc, batch : SUBSET ListedEntry, job : Job \union {0}, entry : OutboxEntry,
                 result : OutboxResult]

\* What the variables are, without a bound on the attempts.
OutboxTypes ==
    /\ enqueue \in [pc : {"persist", "accepted", "undo", "failed"}, created : SUBSET Job]
    /\ outbox \in [Job -> OutboxEntry] /\ dlq \in [Job -> OutboxEntry]
    /\ worker \in [Worker -> OutboxWorker]
    /\ replay \in [Job -> {"none", "got", "put"}] /\ replays \in Nat
    /\ \A j \in Job : replay[j] # "none" => replays # 0

\* Rows that a worker has listed were there; what it has taken up is a job, and what it buries
\* is dead.
ListedArePresent ==
    /\ \A j \in Job : Present(j) => outbox[j].status # "absent"
    /\ \A w \in Worker : /\ \A e \in worker[w].batch : e.entry.status # "absent"
                         /\ worker[w].pc # "scan" => worker[w].job \in Job
                         /\ worker[w].pc \in {"deliver", "finish"} => worker[w].entry.status = "leased"
                         /\ worker[w].pc = "bury" => worker[w].entry.status = "dead"

\* A row that is completed, here or in a worker's list, was delivered.
CompletedDelivered ==
    /\ \A j \in Job : outbox[j].status = "completed" => j \in delivered
    /\ \A w \in Worker : /\ \A e \in worker[w].batch : e.entry.status = "completed" => e.job \in delivered
                         /\ worker[w].pc = "finish" /\ worker[w].result = "ok" => worker[w].job \in delivered

\* A receipt is accepted when every chunk of it is written.
CreatedIs == enqueue.pc = "accepted" => enqueue.created = Job

\* Of a chunk that is not written yet nobody knows.
NoTrace ==
    enqueue.pc = "persist" =>
        \A j \in Job \ enqueue.created :
            /\ outbox[j] = NoEntry /\ dlq[j] = NoEntry /\ replay[j] = "none"
            /\ \A w \in Worker : worker[w].job # j /\ \A e \in worker[w].batch : e.job # j

\* A replay makes a new generation of its job.
Generations ==
    \A j \in Job :
        /\ outbox[j].gen <= replays
        /\ replay[j] = "got" => outbox[j].gen < replays
        /\ \A w \in Worker : worker[w].pc = "deliver" /\ worker[w].job = j =>
              /\ worker[w].entry.gen <= replays
              /\ replay[j] = "got" => worker[w].entry.gen < replays
              /\ Present(j) /\ worker[w].entry.gen = outbox[j].gen => worker[w].entry.attempts <= outbox[j].attempts

\* The inductive invariant of the outbox.
OutboxInv ==
    /\ OutboxTypes /\ ListedArePresent /\ CompletedDelivered /\ CreatedIs
    /\ NoTrace /\ Generations /\ OneWorkerPerAttempt

\* The values that the actions write, as members of the sets of values.
LEMMA OutboxValues ==
    /\ {"queued", "leased", "completed", "dead", "absent"} \subseteq OutboxStatus
    /\ {"scan", "deliver", "finish", "bury", "drop"} \subseteq OutboxPc
    /\ {"none", "ok", "transient", "permanent"} \subseteq OutboxResult
  BY DEF OutboxStatus, OutboxPc, OutboxResult

\* A row, taken apart.
LEMMA EntryIs ==
    ASSUME NEW g \in Nat, NEW s \in OutboxStatus, NEW a \in Nat, NEW o \in Worker \union {"none"}
    PROVE  /\ Entry(g, s, a, o) \in OutboxEntry
           /\ Entry(g, s, a, o).gen = g /\ Entry(g, s, a, o).status = s
           /\ Entry(g, s, a, o).attempts = a /\ Entry(g, s, a, o).owner = o
  BY DEF Entry, OutboxEntry

\* The row that is not there.
LEMMA NoEntryIs == NoEntry \in OutboxEntry /\ NoEntry.status = "absent" /\ NoEntry.gen = 0
  <1>1. 0 \in Nat /\ "absent" \in OutboxStatus /\ "none" \in Worker \union {"none"}
    BY OutboxValues
  <1> QED
    BY <1>1, EntryIs DEF NoEntry

\* A worker between two rows of its list.
LEMMA ScanningIs ==
    ASSUME NEW batch \in SUBSET ListedEntry
    PROVE  /\ Scanning(batch) \in OutboxWorker /\ Scanning(batch).pc = "scan"
           /\ Scanning(batch).batch = batch /\ Scanning(batch).job = 0
  BY OutboxValues, NoEntryIs DEF Scanning, OutboxWorker

\* It holds before anything is enqueued.
LEMMA OutboxInitInv == OutboxInit => OutboxInv
  <1> SUFFICES ASSUME OutboxInit PROVE OutboxInv
    OBVIOUS
  <1>1. /\ \A j \in Job : outbox[j] = NoEntry /\ dlq[j] = NoEntry /\ replay[j] = "none"
        /\ outbox \in [Job -> OutboxEntry] /\ dlq \in [Job -> OutboxEntry]
        /\ replay \in [Job -> {"none", "got", "put"}] /\ replays = 0
    BY NoEntryIs DEF OutboxInit
  <1>2. /\ worker \in [Worker -> OutboxWorker]
        /\ \A w \in Worker : worker[w].pc = "scan" /\ worker[w].batch = {} /\ worker[w].job = 0
    BY ScanningIs DEF OutboxInit
  <1>3. /\ enqueue \in [pc : {"persist", "accepted", "undo", "failed"}, created : SUBSET Job]
        /\ enqueue.pc = "persist" /\ enqueue.created = {}
    BY DEF OutboxInit
  <1>4. OutboxTypes
    BY <1>1, <1>2, <1>3 DEF OutboxTypes
  <1>5. ListedArePresent /\ OneWorkerPerAttempt
    BY <1>1, <1>2 DEF ListedArePresent, OneWorkerPerAttempt, Present
  <1>6. CompletedDelivered /\ CreatedIs
    BY <1>1, <1>2, <1>3, NoEntryIs DEF CompletedDelivered, CreatedIs
  <1>7. NoTrace
    BY <1>1, <1>2, <1>3 DEF NoTrace, Job
  <1>8. Generations
    BY <1>1, <1>2, NoEntryIs DEF Generations
  <1> QED
    BY <1>4, <1>5, <1>6, <1>7, <1>8 DEF OutboxInv

\* What a worker may do to a row: nothing; delete it; or write it again with the same generation
\* and no fewer attempts.
RowStep(j) ==
    \/ outbox'[j] = outbox[j]
    \/ outbox'[j] = NoEntry
    \/ /\ Present(j) /\ outbox'[j].status # "absent" /\ outbox'[j].gen = outbox[j].gen
       /\ outbox[j].attempts <= outbox'[j].attempts
       /\ outbox'[j].status = "completed" => j \in delivered'

\* A step of a worker that lists what is there, writes rows so, buries what is dead and delivers
\* only the row it has just written leaves the invariant true.
LEMMA WorkerKeeps ==
    ASSUME OutboxInv, NEW w \in Worker, NEW r \in OutboxWorker, worker' = [worker EXCEPT ![w] = r],
           UNCHANGED <<enqueue, replay, replays, discarded>>, delivered \subseteq delivered',
           outbox' \in [Job -> OutboxEntry], \A j \in Job : RowStep(j),
           dlq' \in [Job -> OutboxEntry],
           enqueue.pc = "persist" => \A j \in Job \ enqueue.created : dlq'[j] = NoEntry,
           \A e \in r.batch : /\ e.entry.status # "absent"
                              /\ e.entry.status = "completed" => e.job \in delivered'
                              /\ enqueue.pc = "persist" => e.job \in enqueue.created,
           enqueue.pc = "persist" => r.job \in enqueue.created \union {0},
           r.pc # "scan" => r.job \in Job,
           r.pc = "deliver" => /\ r.entry = outbox'[r.job] /\ r.entry.status = "leased"
                               /\ outbox'[r.job].gen = outbox[r.job].gen /\ Present(r.job)
                               /\ outbox[r.job].attempts < outbox'[r.job].attempts,
           r.pc = "finish" => r.entry.status = "leased" /\ (r.result = "ok" => r.job \in delivered'),
           r.pc = "bury" => r.entry.status = "dead"
    PROVE  OutboxInv'
  <1>1. /\ worker' \in [Worker -> OutboxWorker] /\ worker'[w] = r
        /\ \A v \in Worker \ {w} : worker'[v] = worker[v]
    BY DEF OutboxInv, OutboxTypes
  <1>2. OutboxTypes'
    BY <1>1 DEF OutboxInv, OutboxTypes
  <1>3. ListedArePresent'
    <2>1. \A j \in Job : Present(j)' => outbox'[j].status # "absent"
      BY DEF OutboxInv, ListedArePresent, RowStep, Present
    <2> QED
      BY <1>1, <2>1 DEF OutboxInv, ListedArePresent
  <1>4. CompletedDelivered'
    <2>1. \A j \in Job : outbox'[j].status = "completed" => j \in delivered'
      BY NoEntryIs DEF RowStep, OutboxInv, CompletedDelivered
    <2> QED
      BY <1>1, <2>1 DEF OutboxInv, CompletedDelivered
  <1>6. CreatedIs'
    BY DEF OutboxInv, CreatedIs
  <1>7. NoTrace'
    <2> SUFFICES ASSUME enqueue.pc = "persist", NEW j \in Job \ enqueue.created
                 PROVE  /\ outbox'[j] = NoEntry /\ dlq'[j] = NoEntry /\ replay'[j] = "none"
                        /\ \A v \in Worker : worker'[v].job # j /\ \A e \in worker'[v].batch : e.job # j
      BY DEF NoTrace
    <2>1. /\ outbox[j] = NoEntry /\ replay[j] = "none"
          /\ \A v \in Worker : worker[v].job # j /\ \A e \in worker[v].batch : e.job # j
      BY DEF OutboxInv, NoTrace
    <2>2. outbox'[j] = NoEntry
      BY <2>1 DEF RowStep, Present
    <2>3. r.job # j /\ \A e \in r.batch : e.job # j
      BY DEF Job
    <2> QED
      BY <1>1, <2>1, <2>2, <2>3
  <1>8. Generations'
    <2> SUFFICES ASSUME NEW j \in Job
                 PROVE  /\ outbox'[j].gen <= replays
                        /\ replay[j] = "got" => outbox'[j].gen < replays
                        /\ \A v \in Worker : worker'[v].pc = "deliver" /\ worker'[v].job = j =>
                              /\ worker'[v].entry.gen <= replays
                              /\ replay[j] = "got" => worker'[v].entry.gen < replays
                              /\ Present(j)' /\ worker'[v].entry.gen = outbox'[j].gen =>
                                    worker'[v].entry.attempts <= outbox'[j].attempts
      BY DEF Generations
    <2>0. /\ replays \in Nat /\ (replay[j] = "got" => replays # 0) /\ outbox[j] \in OutboxEntry
          /\ outbox'[j] \in OutboxEntry
      BY DEF OutboxInv, OutboxTypes
    <2>1. outbox'[j].gen <= replays /\ (replay[j] = "got" => outbox'[j].gen < replays)
      BY <2>0, NoEntryIs DEF OutboxInv, Generations, RowStep
    <2>2. ASSUME NEW v \in Worker, v # w, worker'[v].pc = "deliver", worker'[v].job = j
          PROVE  /\ worker'[v].entry.gen <= replays
                 /\ replay[j] = "got" => worker'[v].entry.gen < replays
                 /\ Present(j)' /\ worker'[v].entry.gen = outbox'[j].gen =>
                       worker'[v].entry.attempts <= outbox'[j].attempts
      <3>1. worker'[v] = worker[v] /\ worker[v].entry \in OutboxEntry
        BY <1>1, <2>2 DEF OutboxInv, OutboxTypes, OutboxWorker
      <3>2. /\ worker[v].entry.gen <= replays
            /\ replay[j] = "got" => worker[v].entry.gen < replays
            /\ Present(j) /\ worker[v].entry.gen = outbox[j].gen =>
                  worker[v].entry.attempts <= outbox[j].attempts
        BY <2>2, <3>1 DEF OutboxInv, Generations
      <3>3. ASSUME Present(j)', worker[v].entry.gen = outbox'[j].gen
            PROVE  worker[v].entry.attempts <= outbox'[j].attempts
        <4>1. outbox[j] \in OutboxEntry /\ outbox'[j] \in OutboxEntry
          BY <2>0
        <4>2. Present(j) /\ outbox'[j].gen = outbox[j].gen /\ outbox[j].attempts <= outbox'[j].attempts
          BY <3>3, <4>1 DEF RowStep, Present, OutboxEntry
        <4> QED
          BY <3>1, <3>2, <3>3, <4>1, <4>2 DEF OutboxEntry
      <3> QED
        BY <3>1, <3>2, <3>3
    <2>3. ASSUME worker'[w].pc = "deliver", worker'[w].job = j
          PROVE  /\ worker'[w].entry.gen <= replays
                 /\ replay[j] = "got" => worker'[w].entry.gen < replays
                 /\ worker'[w].entry.attempts <= outbox'[j].attempts
      BY <1>1, <2>0, <2>1, <2>3 DEF OutboxEntry
    <2> QED
      BY <2>1, <2>2, <2>3
  <1>9. OneWorkerPerAttempt'
    <2>1. ASSUME NEW v \in Worker, v # w, r.pc = "deliver", worker[v].pc = "deliver", worker[v].job = r.job
          PROVE  worker[v].entry.gen # r.entry.gen \/ worker[v].entry.attempts # r.entry.attempts
      <3>1. r.job \in Job /\ outbox[r.job] \in OutboxEntry /\ outbox'[r.job] \in OutboxEntry
            /\ worker[v].entry \in OutboxEntry
        BY <2>1 DEF OutboxInv, OutboxTypes, OutboxWorker
      <3>2. worker[v].entry.gen = outbox[r.job].gen => worker[v].entry.attempts <= outbox[r.job].attempts
        BY <2>1, <3>1 DEF OutboxInv, Generations
      <3> QED
        BY <2>1, <3>1, <3>2 DEF OutboxEntry
    <2>2. SUFFICES ASSUME NEW u \in Worker, NEW v \in Worker, u # v, worker'[u].pc = "deliver",
                          worker'[v].pc = "deliver", worker'[u].job = worker'[v].job
                   PROVE  worker'[u].entry.gen # worker'[v].entry.gen
                          \/ worker'[u].entry.attempts # worker'[v].entry.attempts
      BY DEF OneWorkerPerAttempt
    <2>3. CASE u # w /\ v # w
      BY <1>1, <2>2, <2>3 DEF OutboxInv, OneWorkerPerAttempt
    <2>4. CASE u = w
      BY <1>1, <2>1, <2>2, <2>4
    <2>5. CASE v = w
      BY <1>1, <2>1, <2>2, <2>5
    <2> QED
      BY <2>3, <2>4, <2>5
  <1> QED
    BY <1>2, <1>3, <1>4, <1>6, <1>7, <1>8, <1>9 DEF OutboxInv

\* A worker's record with other fields.
LEMMA OutboxWorkerIs ==
    ASSUME OutboxTypes, NEW w \in Worker
    PROVE  /\ worker[w] \in OutboxWorker /\ worker[w].batch \in SUBSET ListedEntry
           /\ worker[w].entry \in OutboxEntry /\ worker[w].job \in Job \union {0}
           /\ \A b \in SUBSET ListedEntry : /\ [worker[w] EXCEPT !.batch = b] \in OutboxWorker
                                            /\ [worker[w] EXCEPT !.batch = b].pc = worker[w].pc
                                            /\ [worker[w] EXCEPT !.batch = b].batch = b
                                            /\ [worker[w] EXCEPT !.batch = b].job = worker[w].job
           /\ \A p \in OutboxPc, b \in SUBSET ListedEntry, j \in Job, e \in OutboxEntry, x \in OutboxResult :
                 [pc |-> p, batch |-> b, job |-> j, entry |-> e, result |-> x] \in OutboxWorker
  BY DEF OutboxTypes, OutboxWorker

\* What a worker's list holds of a chunk.
LEMMA ListedIs ==
    ASSUME OutboxInv, NEW w \in Worker, NEW e \in worker[w].batch
    PROVE  /\ e.job \in Job /\ e.entry \in OutboxEntry /\ e.entry.status # "absent"
           /\ e.entry.status = "completed" => e.job \in delivered
           /\ enqueue.pc = "persist" => e.job \in enqueue.created
  <1>1. e \in ListedEntry
    BY OutboxWorkerIs DEF OutboxInv
  <1>2. e.job \in Job /\ e.entry \in OutboxEntry
    BY <1>1 DEF ListedEntry
  <1> QED
    BY <1>2 DEF OutboxInv, ListedArePresent, CompletedDelivered, NoTrace

\* What a worker that has taken up a job knows of it.
LEMMA TakenIs ==
    ASSUME OutboxInv, NEW w \in Worker, worker[w].pc # "scan"
    PROVE  worker[w].job \in Job /\ (enqueue.pc = "persist" => worker[w].job \in enqueue.created)
  BY DEF OutboxInv, ListedArePresent, NoTrace

\* A worker that ends what it does and changes nothing leaves the invariant true.
LEMMA ScansKeeps ==
    ASSUME OutboxInv, NEW w \in Worker, NEW batch \in SUBSET worker[w].batch,
           worker' = [worker EXCEPT ![w] = Scanning(batch)],
           UNCHANGED <<enqueue, replay, replays, discarded, delivered, outbox, dlq>>
    PROVE  OutboxInv'
  <1> DEFINE r == Scanning(batch)
  <1>1. r \in OutboxWorker /\ r.pc = "scan" /\ r.batch = batch /\ r.job = 0
    BY ScanningIs, OutboxWorkerIs DEF OutboxInv
  <1>2. worker' = [worker EXCEPT ![w] = r]
    OBVIOUS
  <1> HIDE DEF r
  <1>3. /\ outbox' \in [Job -> OutboxEntry] /\ (\A j \in Job : RowStep(j))
        /\ dlq' \in [Job -> OutboxEntry]
        /\ enqueue.pc = "persist" => \A j \in Job \ enqueue.created : dlq'[j] = NoEntry
    BY DEF OutboxInv, OutboxTypes, RowStep, NoTrace
  <1>4. \A e \in r.batch : /\ e.entry.status # "absent"
                           /\ e.entry.status = "completed" => e.job \in delivered'
                           /\ enqueue.pc = "persist" => e.job \in enqueue.created
    BY <1>1, ListedIs
  <1> QED
    BY <1>1, <1>2, <1>3, <1>4, WorkerKeeps

\* A worker lists the rows that are due.
LEMMA AvailableKeeps == ASSUME OutboxInv, NEW w \in Worker, processAvailable(w) PROVE OutboxInv'
  <1> DEFINE batch == {[job |-> j, entry |-> outbox[j]] : j \in {j \in Job : Due(j)}}
             r == Scanning(batch)
  <1>1. /\ worker' = [worker EXCEPT ![w] = r]
        /\ UNCHANGED <<enqueue, replay, replays, discarded, delivered, outbox, dlq>>
    BY DEF processAvailable
  <1>2. \A j \in Job : Due(j) => /\ outbox[j].status # "absent"
                                 /\ outbox[j].status = "completed" => j \in delivered
                                 /\ enqueue.pc = "persist" => j \in enqueue.created
    <2> SUFFICES ASSUME NEW j \in Job, Due(j)
                 PROVE  /\ outbox[j].status # "absent"
                        /\ outbox[j].status = "completed" => j \in delivered
                        /\ enqueue.pc = "persist" => j \in enqueue.created
      OBVIOUS
    <2>1. outbox[j] # NoEntry
      BY DEF Due, Present
    <2> QED
      BY <2>1 DEF OutboxInv, ListedArePresent, CompletedDelivered, NoTrace, Present
  <1>3. batch \in SUBSET ListedEntry
    BY DEF OutboxInv, OutboxTypes, ListedEntry
  <1>4. r \in OutboxWorker /\ r.pc = "scan" /\ r.batch = batch /\ r.job = 0
    BY <1>3, ScanningIs
  <1>5. /\ outbox' \in [Job -> OutboxEntry] /\ (\A j \in Job : RowStep(j))
        /\ dlq' \in [Job -> OutboxEntry]
        /\ enqueue.pc = "persist" => \A j \in Job \ enqueue.created : dlq'[j] = NoEntry
    BY <1>1 DEF OutboxInv, OutboxTypes, RowStep, NoTrace
  <1>6. \A e \in batch : /\ e.entry.status # "absent"
                         /\ e.entry.status = "completed" => e.job \in delivered'
                         /\ enqueue.pc = "persist" => e.job \in enqueue.created
    BY <1>1, <1>2
  <1> HIDE DEF batch, r
  <1> QED
    BY <1>1, <1>4, <1>5, <1>6, WorkerKeeps

\* What the rows and the dead letters are when a step does not touch them.
LEMMA SameRows ==
    ASSUME OutboxInv
    PROVE  /\ outbox' = outbox => outbox' \in [Job -> OutboxEntry] /\ \A j \in Job : RowStep(j)
           /\ dlq' = dlq => /\ dlq' \in [Job -> OutboxEntry]
                            /\ enqueue.pc = "persist" => \A j \in Job \ enqueue.created : dlq'[j] = NoEntry
  BY DEF OutboxInv, OutboxTypes, RowStep, NoTrace

\* A step that writes one row touches no other.
LEMMA OneRow ==
    ASSUME OutboxInv, NEW j \in Job, NEW x \in OutboxEntry, outbox' = [outbox EXCEPT ![j] = x],
           outbox'[j] = x => RowStep(j)
    PROVE  outbox' \in [Job -> OutboxEntry] /\ outbox'[j] = x /\ \A i \in Job : RowStep(i)
  <1>1. outbox' \in [Job -> OutboxEntry] /\ outbox'[j] = x /\ \A i \in Job \ {j} : outbox'[i] = outbox[i]
    BY DEF OutboxInv, OutboxTypes
  <1> QED
    BY <1>1 DEF RowStep

\* What is left of a delivery that another worker began.
LEMMA FinishedKeeps == ASSUME OutboxInv, NEW w \in Worker, processFinished(w) PROVE OutboxInv'
  <1>1. PICK e \in worker[w].batch :
           LET rest == worker[w].batch \ {e}
           IN  /\ worker[w].pc = "scan"
               /\ \/ /\ e.entry.status = "completed"
                     /\ outbox' = [outbox EXCEPT ![e.job] = NoEntry]
                     /\ worker' = [worker EXCEPT ![w].batch = rest]
                  \/ /\ e.entry.status = "dead"
                     /\ worker' = [worker EXCEPT ![w] =
                           [pc |-> "bury", batch |-> rest, job |-> e.job, entry |-> e.entry, result |-> "none"]]
                     /\ UNCHANGED outbox
               /\ UNCHANGED <<enqueue, ripe, dlq, replay, replays, faults, delivered, discarded>>
    BY DEF processFinished
  <1> DEFINE rest == worker[w].batch \ {e}
  <1>2. /\ worker[w].pc = "scan" /\ UNCHANGED <<enqueue, dlq, replay, replays, delivered, discarded>>
    BY <1>1
  <1>3. /\ e.job \in Job /\ e.entry \in OutboxEntry
        /\ e.entry.status = "completed" => e.job \in delivered
        /\ enqueue.pc = "persist" => e.job \in enqueue.created
    BY ListedIs
  <1>4. /\ rest \in SUBSET ListedEntry /\ worker[w].job \in Job \union {0}
        /\ enqueue.pc = "persist" => worker[w].job \in enqueue.created \union {0}
    BY OutboxWorkerIs DEF OutboxInv, NoTrace
  <1>5. \A x \in rest : /\ x.entry.status # "absent"
                        /\ x.entry.status = "completed" => x.job \in delivered'
                        /\ enqueue.pc = "persist" => x.job \in enqueue.created
    BY <1>2, ListedIs
  <1>6. CASE /\ e.entry.status = "completed" /\ outbox' = [outbox EXCEPT ![e.job] = NoEntry]
             /\ worker' = [worker EXCEPT ![w].batch = rest]
    <2> DEFINE r == [worker[w] EXCEPT !.batch = rest]
    <2>1. r \in OutboxWorker /\ r.pc = "scan" /\ r.batch = rest /\ r.job = worker[w].job
      BY <1>2, <1>4, OutboxWorkerIs DEF OutboxInv
    <2>2. worker' = [worker EXCEPT ![w] = r]
      BY <1>6
    <2>3. outbox' \in [Job -> OutboxEntry] /\ \A j \in Job : RowStep(j)
      BY <1>3, <1>6, NoEntryIs, OneRow DEF RowStep
    <2> HIDE DEF r, rest
    <2> QED
      BY <1>2, <1>4, <1>5, <2>1, <2>2, <2>3, SameRows, WorkerKeeps
  <1>7. CASE /\ e.entry.status = "dead" /\ UNCHANGED outbox
             /\ worker' = [worker EXCEPT ![w] =
                   [pc |-> "bury", batch |-> rest, job |-> e.job, entry |-> e.entry, result |-> "none"]]
    <2> DEFINE r == [pc |-> "bury", batch |-> rest, job |-> e.job, entry |-> e.entry, result |-> "none"]
    <2>1. r \in OutboxWorker
      BY <1>3, <1>4, OutboxValues, OutboxWorkerIs DEF OutboxInv
    <2>2. r.pc = "bury" /\ r.batch = rest /\ r.job = e.job /\ r.entry = e.entry
      OBVIOUS
    <2>3. worker' = [worker EXCEPT ![w] = r]
      BY <1>7
    <2> HIDE DEF r, rest
    <2> QED
      BY <1>2, <1>3, <1>5, <1>7, <2>1, <2>2, <2>3, SameRows, WorkerKeeps
  <1> QED
    BY <1>1, <1>6, <1>7

\* The claim of a row: it fails, or the row is the worker's with one more attempt.
LEMMA ClaimKeeps == ASSUME OutboxInv, NEW w \in Worker, processClaim(w) PROVE OutboxInv'
  <1>1. PICK e \in worker[w].batch :
          LET rest == worker[w].batch \ {e}
              claimed == Entry(e.entry.gen, "leased", e.entry.attempts + 1, w)
          IN  /\ worker[w].pc = "scan" /\ e.entry.status \in {"queued", "leased"}
              /\ outbox' = CompareAndSwap(e.job, e.entry, claimed)
              /\ IF outbox[e.job] = e.entry
                   THEN /\ worker' = [worker EXCEPT ![w] = [pc |-> "deliver", batch |-> rest,
                                          job |-> e.job, entry |-> claimed, result |-> "none"]]
                        /\ ripe' = ripe \ {e.job}
                   ELSE /\ worker' = [worker EXCEPT ![w].batch = rest]
                        /\ UNCHANGED ripe
              /\ UNCHANGED <<enqueue, dlq, replay, replays, faults, delivered, discarded>>
    BY DEF processClaim
  <1> DEFINE rest == worker[w].batch \ {e}
             claimed == Entry(e.entry.gen, "leased", e.entry.attempts + 1, w)
  <1>2. /\ worker[w].pc = "scan" /\ outbox' = CompareAndSwap(e.job, e.entry, claimed)
        /\ UNCHANGED <<enqueue, dlq, replay, replays, delivered, discarded>>
    BY <1>1
  <1>3. /\ e.job \in Job /\ e.entry \in OutboxEntry /\ e.entry.status # "absent"
        /\ enqueue.pc = "persist" => e.job \in enqueue.created
    BY ListedIs
  <1>4. /\ rest \in SUBSET ListedEntry /\ worker[w].job \in Job \union {0}
        /\ enqueue.pc = "persist" => worker[w].job \in enqueue.created \union {0}
    BY OutboxWorkerIs DEF OutboxInv, NoTrace
  <1>5. \A x \in rest : /\ x.entry.status # "absent"
                        /\ x.entry.status = "completed" => x.job \in delivered'
                        /\ enqueue.pc = "persist" => x.job \in enqueue.created
    BY <1>2, ListedIs
  <1>6. /\ claimed \in OutboxEntry /\ claimed.gen = e.entry.gen /\ claimed.status = "leased"
        /\ claimed.attempts = e.entry.attempts + 1 /\ e.entry.attempts \in Nat
    <2>1. e.entry.gen \in Nat /\ e.entry.attempts \in Nat /\ e.entry.attempts + 1 \in Nat
      BY <1>3 DEF OutboxEntry
    <2> QED
      BY <2>1, EntryIs, OutboxValues
  <1> HIDE DEF rest, claimed
  <1>7. CASE outbox[e.job] = e.entry
    <2> DEFINE r == [pc |-> "deliver", batch |-> rest, job |-> e.job, entry |-> claimed, result |-> "none"]
    <2>1. r \in OutboxWorker
      BY <1>3, <1>4, <1>6, OutboxValues, OutboxWorkerIs DEF OutboxInv
    <2>2. r.pc = "deliver" /\ r.batch = rest /\ r.job = e.job /\ r.entry = claimed
      OBVIOUS
    <2>3. worker' = [worker EXCEPT ![w] = r]
      BY <1>1, <1>7 DEF rest, claimed
    <2>4. /\ outbox' = [outbox EXCEPT ![e.job] = claimed] /\ Present(e.job)
          /\ outbox[e.job].attempts < claimed.attempts
      BY <1>2, <1>3, <1>6, <1>7, NoEntryIs DEF CompareAndSwap, Present
    <2>5. outbox' \in [Job -> OutboxEntry] /\ outbox'[e.job] = claimed /\ \A j \in Job : RowStep(j)
      <3>1. outbox[e.job].attempts <= claimed.attempts
        BY <1>6, <1>7
      <3> QED
        BY <1>3, <1>6, <1>7, <2>4, <3>1, OneRow DEF RowStep
    <2> HIDE DEF r
    <2>6. /\ r.entry = outbox'[r.job] /\ r.entry.status = "leased" /\ Present(r.job) /\ r.job \in Job
          /\ outbox'[r.job].gen = outbox[r.job].gen /\ outbox[r.job].attempts < outbox'[r.job].attempts
          /\ enqueue.pc = "persist" => r.job \in enqueue.created \union {0}
      BY <1>3, <1>6, <1>7, <2>2, <2>4, <2>5
    <2> QED
      BY <1>2, <1>5, <2>1, <2>2, <2>3, <2>5, <2>6, SameRows, WorkerKeeps
  <1>8. CASE outbox[e.job] # e.entry
    <2>1. outbox' = outbox
      BY <1>2, <1>8 DEF CompareAndSwap
    <2> DEFINE r == [worker[w] EXCEPT !.batch = rest]
    <2>2. r \in OutboxWorker /\ r.pc = "scan" /\ r.batch = rest /\ r.job = worker[w].job
      BY <1>2, <1>4, OutboxWorkerIs DEF OutboxInv
    <2>3. worker' = [worker EXCEPT ![w] = r]
      BY <1>1, <1>8 DEF rest
    <2> HIDE DEF r
    <2> QED
      BY <1>2, <1>4, <1>5, <2>1, <2>2, <2>3, SameRows, WorkerKeeps
  <1> QED
    BY <1>7, <1>8

\* The list of a worker that goes on with its job.
LEMMA BatchStays ==
    ASSUME OutboxInv, NEW w \in Worker, UNCHANGED enqueue, delivered \subseteq delivered'
    PROVE  \A e \in worker[w].batch : /\ e.entry.status # "absent"
                                      /\ e.entry.status = "completed" => e.job \in delivered'
                                      /\ enqueue.pc = "persist" => e.job \in enqueue.created
  BY ListedIs

\* A delivery, whatever the provider answers.
LEMMA DeliverKeeps == ASSUME OutboxInv, NEW w \in Worker, Deliver(w) PROVE OutboxInv'
  <1>1. PICK res \in {"ok", "transient", "permanent"} :
           /\ worker' = [worker EXCEPT ![w].pc = "finish", ![w].result = res]
           /\ delivered' = IF res = "ok" THEN delivered \union {worker[w].job} ELSE delivered
    BY DEF Deliver
  <1>2. /\ worker[w].pc = "deliver" /\ UNCHANGED <<enqueue, outbox, dlq, replay, replays, discarded>>
        /\ delivered \subseteq delivered'
    BY <1>1 DEF Deliver
  <1> DEFINE r == [worker[w] EXCEPT !.pc = "finish", !.result = res]
  <1>3. worker[w] \in OutboxWorker /\ "finish" \in OutboxPc /\ res \in OutboxResult
    BY OutboxWorkerIs, OutboxValues DEF OutboxInv
  <1>4. /\ r \in OutboxWorker /\ r.pc = "finish" /\ r.batch = worker[w].batch /\ r.job = worker[w].job
        /\ r.entry = worker[w].entry /\ r.result = res
    BY <1>3 DEF OutboxWorker
  <1>5. worker' = [worker EXCEPT ![w] = r]
    BY <1>1, <1>3 DEF OutboxInv, OutboxTypes
  <1>6. worker[w].job \in Job /\ (enqueue.pc = "persist" => worker[w].job \in enqueue.created)
        /\ worker[w].entry.status = "leased"
    BY <1>2, TakenIs DEF OutboxInv, ListedArePresent
  <1> HIDE DEF r
  <1>7. r.result = "ok" => r.job \in delivered'
    BY <1>1, <1>4
  <1> QED
    BY <1>2, <1>4, <1>5, <1>6, <1>7, BatchStays, SameRows, WorkerKeeps

\* The dead letter is written.
LEMMA BuryKeeps == ASSUME OutboxInv, NEW w \in Worker, bury(w) PROVE OutboxInv'
  <1> DEFINE r == [worker[w] EXCEPT !.pc = "drop"]  j == worker[w].job  x == worker[w].entry
  <1>1. /\ worker[w].pc = "bury" /\ UNCHANGED <<enqueue, outbox, replay, replays, discarded, delivered>>
        /\ worker' = [worker EXCEPT ![w] = r] /\ dlq' = [dlq EXCEPT ![j] = x]
    BY DEF bury
  <1>2. worker[w] \in OutboxWorker /\ "drop" \in OutboxPc /\ x \in OutboxEntry
    BY OutboxWorkerIs, OutboxValues DEF OutboxInv
  <1>3. /\ r \in OutboxWorker /\ r.pc = "drop" /\ r.batch = worker[w].batch /\ r.job = worker[w].job
    BY <1>2 DEF OutboxWorker
  <1>4. j \in Job /\ (enqueue.pc = "persist" => j \in enqueue.created)
    BY <1>1, TakenIs
  <1> HIDE DEF r, j, x
  <1>6. dlq' \in [Job -> OutboxEntry] /\ dlq'[j] = x /\ \A i \in Job \ {j} : dlq'[i] = dlq[i]
    BY <1>1, <1>2, <1>4 DEF OutboxInv, OutboxTypes
  <1>7. enqueue.pc = "persist" => \A i \in Job \ enqueue.created : dlq'[i] = NoEntry
    BY <1>4, <1>6 DEF OutboxInv, NoTrace
  <1>8. r.job \in Job /\ (enqueue.pc = "persist" => r.job \in enqueue.created)
    BY <1>3, <1>4 DEF j
  <1> QED
    BY <1>1, <1>3, <1>6, <1>7, <1>8, BatchStays, SameRows, WorkerKeeps

\* The row is deleted, whatever it holds by now.
LEMMA DropKeeps == ASSUME OutboxInv, NEW w \in Worker, drop(w) PROVE OutboxInv'
  <1> DEFINE r == Scanning(worker[w].batch)  j == worker[w].job
  <1>1. /\ worker[w].pc = "drop" /\ UNCHANGED <<enqueue, dlq, replay, replays, discarded, delivered>>
        /\ worker' = [worker EXCEPT ![w] = r] /\ outbox' = [outbox EXCEPT ![j] = NoEntry]
    BY DEF drop
  <1>2. r \in OutboxWorker /\ r.pc = "scan" /\ r.batch = worker[w].batch /\ r.job = 0
    BY OutboxWorkerIs, ScanningIs DEF OutboxInv
  <1>3. j \in Job
    BY <1>1, TakenIs
  <1>4. outbox' \in [Job -> OutboxEntry] /\ \A i \in Job : RowStep(i)
    BY <1>1, <1>3, NoEntryIs, OneRow DEF RowStep
  <1> HIDE DEF r, j
  <1> QED
    BY <1>1, <1>2, <1>4, BatchStays, SameRows, WorkerKeeps

\* The outcome of an attempt: written if the claim still stands.
LEMMA FinishKeeps == ASSUME OutboxInv, NEW w \in Worker, finishDelivery(w) PROVE OutboxInv'
  <1> DEFINE j == worker[w].job  held == worker[w].entry
             status == Outcome(held, worker[w].result)
             next == Entry(held.gen, status, held.attempts, "none")
             pc == CASE status = "completed" -> "drop" [] status = "dead" -> "bury" [] OTHER -> "scan"
  <1>1. /\ worker[w].pc = "finish" /\ outbox' = CompareAndSwap(j, held, next)
        /\ UNCHANGED <<enqueue, dlq, replay, replays, delivered, discarded>>
        /\ worker' = [worker EXCEPT ![w] =
              IF outbox[j] = held /\ pc # "scan"
                THEN [pc |-> pc, batch |-> @.batch, job |-> j, entry |-> next, result |-> "none"]
                ELSE Scanning(@.batch)]
    BY DEF finishDelivery
  <1>2. /\ j \in Job /\ (enqueue.pc = "persist" => j \in enqueue.created)
        /\ held \in OutboxEntry /\ held.status = "leased" /\ worker[w].batch \in SUBSET ListedEntry
        /\ worker[w].result = "ok" => j \in delivered
    BY <1>1, TakenIs, OutboxWorkerIs DEF OutboxInv, ListedArePresent, CompletedDelivered
  <1>3. /\ status \in {"completed", "dead", "queued"} /\ (status = "completed" => worker[w].result = "ok")
    BY DEF Outcome
  <1>4. /\ next \in OutboxEntry /\ next.gen = held.gen /\ next.status = status /\ next.attempts = held.attempts
        /\ held.attempts \in Nat
    <2>1. held.gen \in Nat /\ held.attempts \in Nat /\ status \in OutboxStatus /\ "none" \in Worker \union {"none"}
      BY <1>2, <1>3, OutboxValues DEF OutboxEntry
    <2> HIDE DEF held, status
    <2> QED
      BY <2>1, EntryIs
  <1>5. (pc = "drop" => status = "completed") /\ (pc = "bury" => status = "dead") /\ pc \in {"drop", "bury", "scan"}
    BY <1>3
  <1> DEFINE r == [pc |-> pc, batch |-> worker[w].batch, job |-> j, entry |-> next, result |-> "none"]
             s == Scanning(worker[w].batch)
  <1>6. s \in OutboxWorker /\ s.pc = "scan" /\ s.batch = worker[w].batch /\ s.job = 0
    BY <1>2, ScanningIs
  <1>7. /\ r.pc = pc /\ r.batch = worker[w].batch /\ r.job = j /\ r.entry = next
    OBVIOUS
  <1>8. r \in OutboxWorker
    <2>1. pc \in OutboxPc /\ "none" \in OutboxResult
      BY <1>5, OutboxValues
    <2> HIDE DEF pc, next
    <2> QED
      BY <1>2, <1>4, <2>1, OutboxWorkerIs DEF OutboxInv
  <1>9. worker' = [worker EXCEPT ![w] = IF outbox[j] = held /\ pc # "scan" THEN r ELSE s]
    BY <1>1
  <1> HIDE DEF pc, next, status, held, r, s
  <1>10. CASE outbox[j] # held
    <2>1. outbox' = outbox /\ worker' = [worker EXCEPT ![w] = s]
      BY <1>1, <1>9, <1>10 DEF CompareAndSwap
    <2> QED
      BY <1>1, <1>6, <2>1, BatchStays, SameRows, WorkerKeeps
  <1>11. CASE outbox[j] = held
    <2>1. outbox' = [outbox EXCEPT ![j] = next]
      BY <1>1, <1>11 DEF CompareAndSwap
    <2>2. outbox' \in [Job -> OutboxEntry] /\ \A i \in Job : RowStep(i)
      <3>1. /\ Present(j) /\ next.status # "absent" /\ outbox[j].attempts <= next.attempts
            /\ next.gen = outbox[j].gen /\ (next.status = "completed" => j \in delivered')
        BY <1>1, <1>2, <1>3, <1>4, <1>11, NoEntryIs DEF Present
      <3> QED
        BY <1>2, <1>4, <2>1, <3>1, OneRow DEF RowStep
    <2>3. CASE pc = "scan"
      <3>1. worker' = [worker EXCEPT ![w] = s]
        BY <1>9, <2>3
      <3> QED
        BY <1>1, <1>6, <2>2, <3>1, BatchStays, SameRows, WorkerKeeps
    <2>4. CASE pc # "scan"
      <3>1. worker' = [worker EXCEPT ![w] = r]
        BY <1>9, <1>11, <2>4
      <3>2. /\ r.pc \in {"drop", "bury"} /\ (r.pc = "bury" => r.entry.status = "dead")
            /\ r.job \in Job /\ (enqueue.pc = "persist" => r.job \in enqueue.created)
        BY <1>1, <1>2, <1>3, <1>4, <1>5, <1>7, <2>4
      <3> QED
        BY <1>1, <1>7, <1>8, <2>2, <3>1, <3>2, BatchStays, SameRows, WorkerKeeps
    <2> QED
      BY <2>3, <2>4
  <1> QED
    BY <1>10, <1>11
\* What a step of Enqueue or of the administrator may do to a row: nothing, delete what is
\* undone, or write one that was not there with a generation of its own.
RowAdmin(j) ==
    \/ outbox'[j] = outbox[j]
    \/ outbox'[j] = NoEntry
    \/ /\ outbox'[j].status = "queued" /\ outbox[j] = NoEntry /\ outbox'[j].gen <= replays'
       /\ replay'[j] # "got"
       /\ \A w \in Worker : worker[w].pc = "deliver" /\ worker[w].job = j => worker[w].entry.gen < outbox'[j].gen

\* Such a step, with the workers where they were, leaves true what the invariant says of rows,
\* lists and generations.
LEMMA AdminKeeps ==
    ASSUME OutboxInv, UNCHANGED <<worker, delivered>>, OutboxTypes', replays <= replays',
           \A j \in Job : RowAdmin(j),
           \A j \in Job : replay'[j] = "got" => replay[j] = "got" \/ replays < replays',
           CreatedIs', NoTrace'
    PROVE  OutboxInv'
  <1>1. \A j \in Job : Present(j)' => outbox'[j].status # "absent"
    BY DEF OutboxInv, ListedArePresent, RowAdmin, Present
  <1>2. ListedArePresent'
    BY <1>1 DEF OutboxInv, ListedArePresent
  <1>3. \A j \in Job : outbox'[j].status = "completed" => j \in delivered'
    BY NoEntryIs DEF RowAdmin, OutboxInv, CompletedDelivered
  <1>4. CompletedDelivered'
    BY <1>3 DEF OutboxInv, CompletedDelivered
  <1>5. OneWorkerPerAttempt'
    BY DEF OutboxInv, OneWorkerPerAttempt
  <1>6. Generations'
    <2> SUFFICES ASSUME NEW j \in Job
                 PROVE  /\ outbox'[j].gen <= replays'
                        /\ replay'[j] = "got" => outbox'[j].gen < replays'
                        /\ \A v \in Worker : worker[v].pc = "deliver" /\ worker[v].job = j =>
                              /\ worker[v].entry.gen <= replays'
                              /\ replay'[j] = "got" => worker[v].entry.gen < replays'
                              /\ Present(j)' /\ worker[v].entry.gen = outbox'[j].gen =>
                                    worker[v].entry.attempts <= outbox'[j].attempts
      BY DEF Generations
    <2>1. /\ replays \in Nat /\ replays' \in Nat /\ (replay'[j] = "got" => replays' # 0)
          /\ outbox[j].gen \in Nat /\ outbox'[j].gen \in Nat
      <3>1. /\ replays \in Nat /\ replays' \in Nat /\ (replay'[j] = "got" => replays' # 0)
            /\ outbox[j] \in OutboxEntry /\ outbox'[j] \in OutboxEntry
        BY DEF OutboxInv, OutboxTypes
      <3> QED
        BY <3>1 DEF OutboxEntry
    <2>2. /\ outbox[j].gen <= replays /\ (replay[j] = "got" => outbox[j].gen < replays)
          /\ (replay'[j] = "got" => replay[j] = "got" \/ replays < replays')
      BY DEF OutboxInv, Generations
    <2>3. outbox'[j].gen <= replays' /\ (replay'[j] = "got" => outbox'[j].gen < replays')
      BY <2>1, <2>2, NoEntryIs DEF RowAdmin
    <2>4. ASSUME NEW v \in Worker, worker[v].pc = "deliver", worker[v].job = j
          PROVE  /\ worker[v].entry.gen <= replays'
                 /\ replay'[j] = "got" => worker[v].entry.gen < replays'
                 /\ Present(j)' /\ worker[v].entry.gen = outbox'[j].gen =>
                       worker[v].entry.attempts <= outbox'[j].attempts
      <3>1. worker[v].entry \in OutboxEntry
        BY OutboxWorkerIs DEF OutboxInv
      <3>2. worker[v].entry.gen \in Nat
        BY <3>1 DEF OutboxEntry
      <3>3. /\ worker[v].entry.gen <= replays
            /\ replay[j] = "got" => worker[v].entry.gen < replays
            /\ Present(j) /\ worker[v].entry.gen = outbox[j].gen =>
                  worker[v].entry.attempts <= outbox[j].attempts
        BY <2>4 DEF OutboxInv, Generations
      <3>4. /\ worker[v].entry.gen <= replays'
            /\ replay'[j] = "got" => worker[v].entry.gen < replays'
        BY <2>1, <2>2, <3>2, <3>3
      <3>5. ASSUME Present(j)', worker[v].entry.gen = outbox'[j].gen
            PROVE  outbox'[j] = outbox[j]
        BY <2>1, <2>4, <3>2, <3>5 DEF RowAdmin, Present
      <3> QED
        BY <3>3, <3>4, <3>5 DEF Present
    <2> QED
      BY <2>3, <2>4
  <1> QED
    BY <1>2, <1>4, <1>5, <1>6 DEF OutboxInv

\* A chunk is written.
LEMMA PersistKeeps == ASSUME OutboxInv, persistReceipt PROVE OutboxInv'
  <1>1. PICK j \in Job :
           /\ enqueue.pc = "persist" /\ enqueue.created = 1 .. j - 1
           /\ outbox' = [outbox EXCEPT ![j] = Entry(0, "queued", 0, "none")]
           /\ enqueue' = [enqueue EXCEPT !.created = @ \union {j}]
           /\ UNCHANGED <<dlq, worker, replay, replays, delivered, discarded>>
    BY DEF persistReceipt
  <1> DEFINE x == Entry(0, "queued", 0, "none")
  <1>2. x \in OutboxEntry /\ x.gen = 0 /\ x.status = "queued" /\ x # NoEntry
    BY OutboxValues, EntryIs, NoEntryIs
  <1>3. /\ enqueue \in [pc : {"persist", "accepted", "undo", "failed"}, created : SUBSET Job]
        /\ outbox \in [Job -> OutboxEntry] /\ replays \in Nat
    BY DEF OutboxInv, OutboxTypes
  <1>4. /\ enqueue' \in [pc : {"persist", "accepted", "undo", "failed"}, created : SUBSET Job]
        /\ enqueue'.pc = "persist" /\ enqueue'.created = enqueue.created \union {j}
    BY <1>1, <1>3
  <1>5. outbox' = [outbox EXCEPT ![j] = x]
    BY <1>1
  <1> HIDE DEF x
  <1>6. outbox' \in [Job -> OutboxEntry] /\ outbox'[j] = x /\ \A i \in Job \ {j} : outbox'[i] = outbox[i]
    BY <1>2, <1>3, <1>5
  <1>7. j \in Job \ enqueue.created
    BY <1>1 DEF Job
  <1>8. /\ outbox[j] = NoEntry /\ dlq[j] = NoEntry /\ replay[j] = "none"
        /\ \A w \in Worker : worker[w].job # j /\ \A e \in worker[w].batch : e.job # j
    BY <1>1, <1>7 DEF OutboxInv, NoTrace
  <1>9. \A i \in Job : RowAdmin(i)
    BY <1>1, <1>2, <1>3, <1>6, <1>8 DEF RowAdmin
  <1>10. OutboxTypes'
    BY <1>1, <1>4, <1>6 DEF OutboxInv, OutboxTypes
  <1>11. CreatedIs'
    BY <1>4 DEF CreatedIs
  <1>12. NoTrace'
    BY <1>1, <1>4, <1>6 DEF OutboxInv, NoTrace
  <1>13. replays <= replays'
    BY <1>1, <1>3
  <1> QED
    BY <1>1, <1>9, <1>10, <1>11, <1>12, <1>13, AdminKeeps

\* Enqueue ends, or begins to undo what it has written.
LEMMA EnqueueKeeps == ASSUME OutboxInv, EnqueueDone \/ EnqueueFails PROVE OutboxInv'
  <1>1. UNCHANGED <<outbox, dlq, worker, replay, replays, delivered, discarded>>
    BY DEF EnqueueDone, EnqueueFails
  <1>2. enqueue \in [pc : {"persist", "accepted", "undo", "failed"}, created : SUBSET Job]
    BY DEF OutboxInv, OutboxTypes
  <1>3. /\ enqueue' \in [pc : {"persist", "accepted", "undo", "failed"}, created : SUBSET Job]
        /\ enqueue.pc = "persist" /\ enqueue'.pc # "persist" /\ enqueue'.created = enqueue.created
        /\ enqueue'.pc = "accepted" => enqueue.created = Job
    BY <1>2 DEF EnqueueDone, EnqueueFails
  <1>4. OutboxTypes'
    BY <1>1, <1>3 DEF OutboxInv, OutboxTypes
  <1>5. CreatedIs'
    BY <1>3 DEF CreatedIs
  <1>6. NoTrace'
    BY <1>3 DEF NoTrace
  <1>7. (\A j \in Job : RowAdmin(j)) /\ replays <= replays'
    BY <1>1 DEF RowAdmin, OutboxInv, OutboxTypes
  <1> QED
    BY <1>1, <1>4, <1>5, <1>6, <1>7, AdminKeeps

\* A chunk is deleted again.
LEMMA UndoKeeps == ASSUME OutboxInv, EnqueueUndo PROVE OutboxInv'
  <1>1. PICK j \in enqueue.created :
           /\ enqueue.pc = "undo" /\ outbox' = [outbox EXCEPT ![j] = NoEntry]
           /\ enqueue' = [pc |-> IF enqueue.created = {j} THEN "failed" ELSE "undo",
                          created |-> enqueue.created \ {j}]
           /\ UNCHANGED <<dlq, worker, replay, replays, delivered, discarded>>
    BY DEF EnqueueUndo
  <1>2. /\ enqueue.created \in SUBSET Job /\ outbox \in [Job -> OutboxEntry] /\ replays \in Nat
    BY DEF OutboxInv, OutboxTypes
  <1>3. /\ enqueue' \in [pc : {"persist", "accepted", "undo", "failed"}, created : SUBSET Job]
        /\ enqueue'.pc \in {"undo", "failed"}
    BY <1>1, <1>2
  <1>4. outbox' \in [Job -> OutboxEntry] /\ outbox'[j] = NoEntry /\ \A i \in Job \ {j} : outbox'[i] = outbox[i]
    BY <1>1, <1>2, NoEntryIs
  <1>5. (\A i \in Job : RowAdmin(i)) /\ replays <= replays'
    BY <1>1, <1>2, <1>4 DEF RowAdmin
  <1>6. OutboxTypes'
    BY <1>1, <1>3, <1>4 DEF OutboxInv, OutboxTypes
  <1>7. CreatedIs' /\ NoTrace'
    BY <1>3 DEF CreatedIs, NoTrace
  <1> QED
    BY <1>1, <1>5, <1>6, <1>7, AdminKeeps

\* The administrator reads a dead letter.
LEMMA ReplayGetKeeps == ASSUME OutboxInv, NEW j \in Job, ReplayGet(j) PROVE OutboxInv'
  <1>1. /\ dlq[j] # NoEntry /\ replay' = [replay EXCEPT ![j] = "got"] /\ replays' = replays + 1
        /\ UNCHANGED <<enqueue, outbox, dlq, worker, delivered, discarded>>
    BY DEF ReplayGet
  <1>2. replay \in [Job -> {"none", "got", "put"}] /\ replays \in Nat
    BY DEF OutboxInv, OutboxTypes
  <1>3. /\ replay' \in [Job -> {"none", "got", "put"}] /\ replays' \in Nat /\ replays' # 0 /\ replays < replays'
        /\ \A i \in Job \ {j} : replay'[i] = replay[i]
    BY <1>1, <1>2
  <1>4. OutboxTypes'
    BY <1>1, <1>3 DEF OutboxInv, OutboxTypes
  <1>5. (\A i \in Job : RowAdmin(i)) /\ replays <= replays'
    BY <1>1, <1>2 DEF RowAdmin
  <1>6. CreatedIs'
    BY <1>1 DEF OutboxInv, CreatedIs
  <1>7. NoTrace'
    BY <1>1, <1>3 DEF OutboxInv, NoTrace
  <1> QED
    BY <1>1, <1>3, <1>4, <1>5, <1>6, <1>7, AdminKeeps

\* The administrator inserts the job, unless its row is there.
LEMMA ReplayPutKeeps == ASSUME OutboxInv, NEW j \in Job, ReplayPut(j) PROVE OutboxInv'
  <1> DEFINE x == Entry(replays, "queued", 0, "none")
  <1>1. /\ replay[j] = "got" /\ replay' = [replay EXCEPT ![j] = "put"]
        /\ outbox' = IF Present(j) THEN outbox ELSE [outbox EXCEPT ![j] = x]
        /\ UNCHANGED <<enqueue, dlq, worker, replays, delivered, discarded>>
    BY DEF ReplayPut
  <1>2. /\ replay \in [Job -> {"none", "got", "put"}] /\ replays \in Nat /\ replays # 0
        /\ outbox \in [Job -> OutboxEntry]
    BY <1>1 DEF OutboxInv, OutboxTypes
  <1>3. x \in OutboxEntry /\ x.gen = replays /\ x.status = "queued" /\ x # NoEntry
    BY <1>2, OutboxValues, EntryIs, NoEntryIs
  <1> HIDE DEF x
  <1>4. /\ replay' \in [Job -> {"none", "got", "put"}] /\ replay'[j] = "put"
        /\ \A i \in Job \ {j} : replay'[i] = replay[i]
    BY <1>1, <1>2
  <1>5. /\ outbox' \in [Job -> OutboxEntry] /\ (\A i \in Job \ {j} : outbox'[i] = outbox[i])
        /\ outbox'[j] = IF Present(j) THEN outbox[j] ELSE x
    BY <1>1, <1>2, <1>3
  <1>6. OutboxTypes'
    BY <1>1, <1>2, <1>4, <1>5 DEF OutboxInv, OutboxTypes
  <1>7. RowAdmin(j)
    <2>1. CASE Present(j)
      BY <1>5, <2>1 DEF RowAdmin
    <2>2. CASE ~Present(j)
      <3>1. outbox'[j] = x /\ outbox[j] = NoEntry /\ replay'[j] # "got" /\ x.gen <= replays'
        BY <1>1, <1>2, <1>3, <1>4, <1>5, <2>2 DEF Present
      <3>2. \A w \in Worker : worker[w].pc = "deliver" /\ worker[w].job = j => worker[w].entry.gen < x.gen
        BY <1>1, <1>3 DEF OutboxInv, Generations
      <3> QED
        BY <1>3, <3>1, <3>2 DEF RowAdmin
    <2> QED
      BY <2>1, <2>2
  <1>8. (\A i \in Job : RowAdmin(i)) /\ replays <= replays'
    BY <1>1, <1>2, <1>5, <1>7 DEF RowAdmin
  <1>9. CreatedIs'
    BY <1>1 DEF OutboxInv, CreatedIs
  <1>10. NoTrace'
    BY <1>1, <1>4, <1>5 DEF OutboxInv, NoTrace
  <1>11. \A i \in Job : replay'[i] = "got" => replay[i] = "got"
    BY <1>4
  <1> QED
    BY <1>1, <1>6, <1>8, <1>9, <1>10, <1>11, AdminKeeps

\* The administrator deletes the dead letter that was replayed, or gives up.
LEMMA ReplayEndsKeeps ==
    ASSUME OutboxInv, NEW j \in Job, ReplayDelete(j) \/ ReplayFails(j) PROVE OutboxInv'
  <1>1. /\ replay[j] # "none" /\ replay' = [replay EXCEPT ![j] = "none"]
        /\ dlq' = dlq \/ dlq' = [dlq EXCEPT ![j] = NoEntry]
        /\ UNCHANGED <<enqueue, outbox, worker, replays, delivered, discarded>>
    BY DEF ReplayDelete, ReplayFails
  <1>2. /\ replay \in [Job -> {"none", "got", "put"}] /\ replays \in Nat /\ replays # 0
        /\ dlq \in [Job -> OutboxEntry]
    BY <1>1 DEF OutboxInv, OutboxTypes
  <1>3. /\ replay' \in [Job -> {"none", "got", "put"}]
        /\ \A i \in Job : replay'[i] # "none" => replay'[i] = replay[i]
    BY <1>1, <1>2
  <1>4. dlq' \in [Job -> OutboxEntry] /\ \A i \in Job : dlq'[i] # NoEntry => dlq'[i] = dlq[i]
    BY <1>1, <1>2, NoEntryIs
  <1>5. OutboxTypes'
    BY <1>1, <1>2, <1>3, <1>4 DEF OutboxInv, OutboxTypes
  <1>6. (\A i \in Job : RowAdmin(i)) /\ replays <= replays'
    BY <1>1, <1>2 DEF RowAdmin
  <1>7. CreatedIs'
    BY <1>1 DEF OutboxInv, CreatedIs
  <1>8. NoTrace'
    BY <1>1, <1>3, <1>4 DEF OutboxInv, NoTrace
  <1>9. \A i \in Job : replay'[i] = "got" => replay[i] = "got"
    BY <1>3
  <1> QED
    BY <1>1, <1>5, <1>6, <1>7, <1>8, <1>9, AdminKeeps

\* The administrator deletes a dead letter.
LEMMA DeleteKeeps == ASSUME OutboxInv, NEW j \in Job, DeleteDurableDeadLetter(j) PROVE OutboxInv'
  <1>1. /\ dlq' = [dlq EXCEPT ![j] = NoEntry] /\ discarded' = discarded \union {j}
        /\ UNCHANGED <<enqueue, outbox, worker, replay, replays, delivered>>
    BY DEF DeleteDurableDeadLetter
  <1>2. replays \in Nat /\ dlq \in [Job -> OutboxEntry]
    BY DEF OutboxInv, OutboxTypes
  <1>3. /\ dlq' \in [Job -> OutboxEntry] /\ dlq'[j] = NoEntry
        /\ \A i \in Job \ {j} : dlq'[i] = dlq[i]
    BY <1>1, <1>2, NoEntryIs
  <1>4. OutboxTypes'
    BY <1>1, <1>3 DEF OutboxInv, OutboxTypes
  <1>5. (\A i \in Job : RowAdmin(i)) /\ replays <= replays'
    BY <1>1, <1>2 DEF RowAdmin
  <1>7. CreatedIs'
    BY <1>1 DEF OutboxInv, CreatedIs
  <1>8. NoTrace'
    BY <1>1, <1>3 DEF OutboxInv, NoTrace
  <1> QED
    BY <1>1, <1>4, <1>5, <1>7, <1>8, AdminKeeps

\* Every step leaves the invariant true.
LEMMA OutboxStepInv == OutboxInv /\ [OutboxNext]_outboxVars => OutboxInv'
  <1> SUFFICES ASSUME OutboxInv, [OutboxNext]_outboxVars PROVE OutboxInv'
    OBVIOUS
  <1>1. ASSUME NEW w \in Worker, WorkerStep(w) PROVE OutboxInv'
    BY <1>1, AvailableKeeps, FinishedKeeps, ClaimKeeps, DeliverKeeps, FinishKeeps, BuryKeeps, DropKeeps
       DEF WorkerStep
  <1>2. ASSUME NEW w \in Worker, GiveUp(w) PROVE OutboxInv'
    <2>1. /\ worker' = [worker EXCEPT ![w] = Scanning(worker[w].batch)]
          /\ UNCHANGED <<enqueue, replay, replays, discarded, delivered, outbox, dlq>>
      BY <1>2 DEF GiveUp
    <2> QED
      BY <2>1, ScansKeeps
  <1>3. ASSUME NEW w \in Worker, WorkerCrash(w) PROVE OutboxInv'
    <2>1. /\ worker' = [worker EXCEPT ![w] = Scanning({})]
          /\ UNCHANGED <<enqueue, replay, replays, discarded, delivered, outbox, dlq>>
      BY <1>3 DEF WorkerCrash
    <2> QED
      BY <2>1, ScansKeeps
  <1>4. ASSUME UNCHANGED <<enqueue, outbox, dlq, worker, replay, replays, delivered, discarded>>
        PROVE  OutboxInv'
    BY <1>4 DEF OutboxInv, OutboxTypes, ListedArePresent, CompletedDelivered, CreatedIs, NoTrace,
                Generations, OneWorkerPerAttempt, Present
  <1>5. ASSUME NEW j \in Job, TimePasses(j) PROVE OutboxInv'
    BY <1>4, <1>5 DEF TimePasses
  <1>6. ASSUME NEW j \in Job, AdminStep(j) PROVE OutboxInv'
    BY <1>6, ReplayGetKeeps, ReplayPutKeeps, ReplayEndsKeeps, DeleteKeeps DEF AdminStep
  <1>7. CASE UNCHANGED outboxVars
    BY <1>4, <1>7 DEF outboxVars
  <1> QED
    BY <1>1, <1>2, <1>3, <1>5, <1>6, <1>7, PersistKeeps, EnqueueKeeps, UndoKeeps DEF OutboxNext

\* What needs no row: a job that is delivered, was deleted by the administrator, or of which a
\* burial and a replay have crossed.
Settled(j) == j \in delivered \/ j \in discarded \/ j \in crossed

\* A dead letter that no replay is about to delete.
Buried(j) == dlq[j] # NoEntry /\ replay[j] # "put"

\* A worker deletes the row of a job that needs none or is buried.
DropsKept == \A w \in Worker : worker[w].pc = "drop" => Settled(worker[w].job) \/ Buried(worker[w].job)

\* What Enqueue has written needs no row, has one, or is buried.
CreatedKept ==
    enqueue.pc \in {"persist", "accepted"} =>
        \A j \in enqueue.created : Settled(j) \/ Present(j) \/ Buried(j)

\* Nothing that is settled is unsettled by a step that takes nothing from the three sets.
LEMMA SettledStays ==
    ASSUME delivered \subseteq delivered', discarded \subseteq discarded', crossed \subseteq crossed', NEW j
    PROVE  Settled(j) => Settled(j)'
  BY DEF Settled

\* A step of a worker that leaves rows where they are, or deletes one that its job does not need,
\* and comes to delete only such a row, keeps what was written.
LEMMA WorkerKept ==
    ASSUME OutboxInv, DropsKept, CreatedKept, NEW w \in Worker, NEW r, worker' = [worker EXCEPT ![w] = r],
           UNCHANGED <<enqueue, replay, dlq, discarded, crossed>>, delivered \subseteq delivered',
           r.pc = "drop" => Settled(r.job)',
           \A j \in Job : Present(j) => Present(j)' \/ Settled(j)' \/ Buried(j)
    PROVE  DropsKept' /\ CreatedKept'
  <1>1. \A j : /\ Settled(j) => Settled(j)'
               /\ Buried(j) => Buried(j)'
    BY DEF Settled, Buried
  <1>2. worker'[w] = r /\ \A v \in Worker \ {w} : worker'[v] = worker[v]
    BY DEF OutboxInv, OutboxTypes
  <1>3. DropsKept'
    BY <1>1, <1>2 DEF DropsKept
  <1>4. enqueue.created \subseteq Job
    BY DEF OutboxInv, OutboxTypes
  <1>5. CreatedKept'
    BY <1>1, <1>4 DEF CreatedKept
  <1> QED
    BY <1>3, <1>5

\* A worker that writes no row, and does not come to delete one.
LEMMA IdleKept ==
    ASSUME OutboxInv, DropsKept, CreatedKept, NEW w \in Worker, NEW r, worker' = [worker EXCEPT ![w] = r],
           r.pc # "drop", UNCHANGED <<enqueue, outbox, replay, dlq, discarded, crossed>>,
           delivered \subseteq delivered'
    PROVE  DropsKept' /\ CreatedKept'
  BY WorkerKept DEF Present

\* What is left of a delivery that another worker began: the row of a delivered job is deleted.
LEMMA FinishedKept ==
    ASSUME OutboxInv, DropsKept, CreatedKept, NEW w \in Worker, processFinished(w)
    PROVE  DropsKept' /\ CreatedKept'
  <1>1. PICK e \in worker[w].batch :
           LET rest == worker[w].batch \ {e}
           IN  /\ worker[w].pc = "scan"
               /\ \/ /\ e.entry.status = "completed"
                     /\ outbox' = [outbox EXCEPT ![e.job] = NoEntry]
                     /\ worker' = [worker EXCEPT ![w].batch = rest]
                  \/ /\ e.entry.status = "dead"
                     /\ worker' = [worker EXCEPT ![w] =
                           [pc |-> "bury", batch |-> rest, job |-> e.job, entry |-> e.entry, result |-> "none"]]
                     /\ UNCHANGED outbox
               /\ UNCHANGED <<enqueue, ripe, dlq, replay, replays, faults, delivered, discarded, crossed>>
    BY DEF processFinished
  <1> DEFINE rest == worker[w].batch \ {e}
  <1>2. UNCHANGED <<enqueue, dlq, replay, delivered, discarded, crossed>> /\ worker[w].pc = "scan"
    BY <1>1
  <1>3. CASE /\ e.entry.status = "completed" /\ outbox' = [outbox EXCEPT ![e.job] = NoEntry]
             /\ worker' = [worker EXCEPT ![w].batch = rest]
    <2> DEFINE r == [worker[w] EXCEPT !.batch = rest]
    <2>1. worker[w] \in OutboxWorker /\ rest \in SUBSET ListedEntry
      BY OutboxWorkerIs DEF OutboxInv
    <2>2. worker' = [worker EXCEPT ![w] = r] /\ r.pc = "scan"
      BY <1>2, <1>3, <2>1 DEF OutboxWorker
    <2>3. e.job \in Job /\ Settled(e.job)'
      BY <1>2, <1>3, ListedIs DEF Settled
    <2>4. \A j \in Job \ {e.job} : outbox'[j] = outbox[j]
      BY <1>3 DEF OutboxInv, OutboxTypes
    <2>5. \A j \in Job : Present(j) => Present(j)' \/ Settled(j)' \/ Buried(j)
      BY <2>3, <2>4 DEF Present
    <2> HIDE DEF r
    <2> QED
      BY <1>2, <2>2, <2>5, WorkerKept
  <1>4. CASE /\ e.entry.status = "dead" /\ UNCHANGED outbox
             /\ worker' = [worker EXCEPT ![w] =
                   [pc |-> "bury", batch |-> rest, job |-> e.job, entry |-> e.entry, result |-> "none"]]
    <2> DEFINE r == [pc |-> "bury", batch |-> rest, job |-> e.job, entry |-> e.entry, result |-> "none"]
    <2>1. worker' = [worker EXCEPT ![w] = r] /\ r.pc # "drop"
      BY <1>4
    <2> HIDE DEF r
    <2> QED
      BY <1>2, <1>4, <2>1, IdleKept
  <1> QED
    BY <1>1, <1>3, <1>4

\* A row that is swapped for another one is still there.
LEMMA SwapKept ==
    ASSUME OutboxInv, NEW j \in Job, NEW old, NEW x \in OutboxEntry, x.status # "absent",
           outbox' = CompareAndSwap(j, old, x), old # NoEntry
    PROVE  \A i \in Job : Present(i) => Present(i)'
  <1>1. CASE outbox[j] = old
    <2>1. outbox'[j] = x /\ \A i \in Job \ {j} : outbox'[i] = outbox[i]
      BY <1>1 DEF CompareAndSwap, OutboxInv, OutboxTypes
    <2>2. x # NoEntry
      BY NoEntryIs
    <2> QED
      BY <2>1, <2>2 DEF Present
  <1>2. CASE outbox[j] # old
    BY <1>2 DEF CompareAndSwap, Present
  <1> QED
    BY <1>1, <1>2

\* The claim of a row.
LEMMA ClaimKept ==
    ASSUME OutboxInv, DropsKept, CreatedKept, NEW w \in Worker, processClaim(w)
    PROVE  DropsKept' /\ CreatedKept'
  <1>1. PICK e \in worker[w].batch :
          LET rest == worker[w].batch \ {e}
              claimed == Entry(e.entry.gen, "leased", e.entry.attempts + 1, w)
          IN  /\ worker[w].pc = "scan" /\ e.entry.status \in {"queued", "leased"}
              /\ outbox' = CompareAndSwap(e.job, e.entry, claimed)
              /\ IF outbox[e.job] = e.entry
                   THEN /\ worker' = [worker EXCEPT ![w] = [pc |-> "deliver", batch |-> rest,
                                          job |-> e.job, entry |-> claimed, result |-> "none"]]
                        /\ ripe' = ripe \ {e.job}
                   ELSE /\ worker' = [worker EXCEPT ![w].batch = rest]
                        /\ UNCHANGED ripe
              /\ UNCHANGED <<enqueue, dlq, replay, replays, faults, delivered, discarded, crossed>>
    BY DEF processClaim
  <1> DEFINE rest == worker[w].batch \ {e}
             claimed == Entry(e.entry.gen, "leased", e.entry.attempts + 1, w)
  <1>2. /\ worker[w].pc = "scan" /\ outbox' = CompareAndSwap(e.job, e.entry, claimed)
        /\ UNCHANGED <<enqueue, dlq, replay, delivered, discarded, crossed>>
    BY <1>1
  <1>3. e.job \in Job /\ e.entry \in OutboxEntry /\ e.entry.status # "absent" /\ e.entry # NoEntry
    BY ListedIs, NoEntryIs
  <1>4. claimed \in OutboxEntry /\ claimed.status = "leased"
    <2>1. e.entry.gen \in Nat /\ e.entry.attempts \in Nat /\ e.entry.attempts + 1 \in Nat
          /\ "leased" \in OutboxStatus /\ w \in Worker \union {"none"}
      BY <1>3, OutboxValues DEF OutboxEntry
    <2> QED
      BY <2>1, EntryIs
  <1> HIDE DEF claimed
  <1>5. \A j \in Job : Present(j) => Present(j)'
    BY <1>2, <1>3, <1>4, SwapKept
  <1>6. worker[w] \in OutboxWorker
    BY OutboxWorkerIs DEF OutboxInv
  <1>7. CASE outbox[e.job] = e.entry
    <2> DEFINE r == [pc |-> "deliver", batch |-> rest, job |-> e.job, entry |-> claimed, result |-> "none"]
    <2>1. worker' = [worker EXCEPT ![w] = r] /\ r.pc # "drop"
      BY <1>1, <1>7 DEF claimed
    <2> HIDE DEF r
    <2> QED
      BY <1>2, <1>5, <2>1, WorkerKept
  <1>8. CASE outbox[e.job] # e.entry
    <2> DEFINE r == [worker[w] EXCEPT !.batch = rest]
    <2>1. worker' = [worker EXCEPT ![w] = r] /\ r.pc # "drop"
      BY <1>1, <1>2, <1>6, <1>8 DEF OutboxWorker
    <2> HIDE DEF r
    <2> QED
      BY <1>2, <1>5, <2>1, WorkerKept
  <1> QED
    BY <1>7, <1>8

\* The outcome of an attempt: only the row of a delivered job is deleted next.
LEMMA FinishKept ==
    ASSUME OutboxInv, DropsKept, CreatedKept, NEW w \in Worker, finishDelivery(w)
    PROVE  DropsKept' /\ CreatedKept'
  <1> DEFINE j == worker[w].job  held == worker[w].entry
             status == Outcome(held, worker[w].result)
             next == Entry(held.gen, status, held.attempts, "none")
             pc == CASE status = "completed" -> "drop" [] status = "dead" -> "bury" [] OTHER -> "scan"
             r == IF outbox[j] = held /\ pc # "scan"
                    THEN [pc |-> pc, batch |-> worker[w].batch, job |-> j, entry |-> next, result |-> "none"]
                    ELSE Scanning(worker[w].batch)
  <1>1. /\ worker[w].pc = "finish" /\ outbox' = CompareAndSwap(j, held, next)
        /\ UNCHANGED <<enqueue, dlq, replay, delivered, discarded, crossed>>
        /\ worker' = [worker EXCEPT ![w] = r]
    BY DEF finishDelivery
  <1>2. /\ j \in Job /\ held \in OutboxEntry /\ held.status = "leased" /\ worker[w].batch \in SUBSET ListedEntry
        /\ worker[w].result = "ok" => j \in delivered
    BY <1>1, TakenIs, OutboxWorkerIs DEF OutboxInv, ListedArePresent, CompletedDelivered
  <1>3. /\ status \in {"completed", "dead", "queued"} /\ (status = "completed" => worker[w].result = "ok")
    BY DEF Outcome
  <1>4. next \in OutboxEntry /\ next.status = status /\ held # NoEntry
    <2>1. held.gen \in Nat /\ held.attempts \in Nat /\ status \in OutboxStatus /\ "none" \in Worker \union {"none"}
      BY <1>2, <1>3, OutboxValues DEF OutboxEntry
    <2>2. held # NoEntry
      BY <1>2, NoEntryIs
    <2> HIDE DEF held, status
    <2> QED
      BY <2>1, <2>2, EntryIs
  <1>5. r.pc = "drop" => r.job = j /\ status = "completed"
    <2>1. pc = "drop" => status = "completed"
      BY <1>3
    <2>2. Scanning(worker[w].batch).pc = "scan"
      BY <1>2, ScanningIs
    <2> HIDE DEF pc, next, status, held
    <2> QED
      BY <2>1, <2>2
  <1> HIDE DEF r, next, status, held
  <1>6. \A i \in Job : Present(i) => Present(i)'
    <2>1. next.status # "absent"
      BY <1>3, <1>4
    <2> HIDE DEF j
    <2> QED
      BY <1>1, <1>2, <1>4, <2>1, SwapKept
  <1>7. r.pc = "drop" => r.job \in delivered'
    BY <1>1, <1>2, <1>3, <1>5
  <1>8. PICK x : x = r
    OBVIOUS
  <1>9. x.pc = "drop" => Settled(x.job)'
    BY <1>7, <1>8 DEF Settled
  <1>10. worker' = [worker EXCEPT ![w] = x]
    BY <1>1, <1>8
  <1> QED
    BY <1>1, <1>6, <1>9, <1>10, WorkerKept

\* The dead letter is written: its job is buried, or a replay that has put it in is crossed.
LEMMA BuryKept ==
    ASSUME OutboxInv, DropsKept, CreatedKept, NEW w \in Worker, bury(w)
    PROVE  DropsKept' /\ CreatedKept'
  <1> DEFINE r == [worker[w] EXCEPT !.pc = "drop"]  j == worker[w].job  x == worker[w].entry
  <1>1. /\ worker[w].pc = "bury" /\ UNCHANGED <<enqueue, outbox, replay, discarded, delivered>>
        /\ worker' = [worker EXCEPT ![w] = r] /\ dlq' = [dlq EXCEPT ![j] = x]
        /\ crossed' = IF replay[j] = "put" THEN crossed \union {j} ELSE crossed
    BY DEF bury
  <1>2. /\ worker[w] \in OutboxWorker /\ "drop" \in OutboxPc /\ x \in OutboxEntry
    BY OutboxWorkerIs, OutboxValues DEF OutboxInv
  <1>3. /\ r.pc = "drop" /\ r.job = j
    BY <1>2 DEF OutboxWorker
  <1>4. /\ j \in Job /\ x # NoEntry
    BY <1>1, TakenIs, NoEntryIs DEF OutboxInv, ListedArePresent
  <1> HIDE DEF r, j, x
  <1>5. dlq'[j] = x /\ \A i \in Job \ {j} : dlq'[i] = dlq[i]
    BY <1>1, <1>2, <1>4 DEF OutboxInv, OutboxTypes
  <1>6. \A i \in Job : (Settled(i) => Settled(i)') /\ (Buried(i) => Buried(i)')
    BY <1>1, <1>4, <1>5 DEF Settled, Buried
  <1>7. \A i \in Job : i = j => Settled(i)' \/ Buried(i)'
    BY <1>1, <1>4, <1>5 DEF Settled, Buried
  <1>8. worker'[w] = r /\ \A v \in Worker \ {w} : worker'[v] = worker[v]
    BY <1>1 DEF OutboxInv, OutboxTypes
  <1>9. \A v \in Worker : worker[v].pc = "drop" => worker[v].job \in Job
    BY TakenIs
  <1>10. DropsKept'
    <2> SUFFICES ASSUME NEW v \in Worker, worker'[v].pc = "drop", NEW k, k = worker'[v].job
                 PROVE  Settled(k)' \/ Buried(k)'
      BY DEF DropsKept, Settled, Buried
    <2>1. CASE v = w
      BY <1>3, <1>4, <1>7, <1>8, <2>1
    <2>2. CASE v # w
      <3>1. worker[v].pc = "drop" /\ k = worker[v].job
        BY <1>8, <2>2
      <3> QED
        BY <1>6, <1>9, <3>1 DEF DropsKept
    <2> QED
      BY <2>1, <2>2
  <1>11. enqueue.created \subseteq Job
    BY DEF OutboxInv, OutboxTypes
  <1>12. CreatedKept'
    BY <1>1, <1>6, <1>11 DEF CreatedKept, Present
  <1> QED
    BY <1>10, <1>12

\* The row is deleted of a job that needs none or is buried.
LEMMA DropKept ==
    ASSUME OutboxInv, DropsKept, CreatedKept, NEW w \in Worker, drop(w)
    PROVE  DropsKept' /\ CreatedKept'
  <1> DEFINE r == Scanning(worker[w].batch)  j == worker[w].job
  <1>1. /\ worker[w].pc = "drop" /\ UNCHANGED <<enqueue, dlq, replay, discarded, delivered, crossed>>
        /\ worker' = [worker EXCEPT ![w] = r] /\ outbox' = [outbox EXCEPT ![j] = NoEntry]
    BY DEF drop
  <1>2. r.pc = "scan"
    BY OutboxWorkerIs, ScanningIs DEF OutboxInv
  <1>3. Settled(j) \/ Buried(j)
    BY <1>1 DEF DropsKept
  <1>4. \A i \in Job \ {j} : outbox'[i] = outbox[i]
    BY <1>1 DEF OutboxInv, OutboxTypes
  <1>5. \A i \in Job : Settled(i) => Settled(i)'
    BY <1>1 DEF Settled
  <1> HIDE DEF r, j
  <1>6. \A i \in Job : Present(i) => Present(i)' \/ Settled(i)' \/ Buried(i)
    BY <1>3, <1>4, <1>5 DEF Present
  <1> QED
    BY <1>1, <1>2, <1>6, WorkerKept

\* Every other step of a worker writes no row.
LEMMA OtherKept ==
    ASSUME OutboxInv, DropsKept, CreatedKept, NEW w \in Worker,
           processAvailable(w) \/ Deliver(w) \/ GiveUp(w) \/ WorkerCrash(w)
    PROVE  DropsKept' /\ CreatedKept'
  <1>1. ASSUME NEW b \in SUBSET ListedEntry, worker' = [worker EXCEPT ![w] = Scanning(b)],
               UNCHANGED <<enqueue, outbox, replay, dlq, delivered, discarded, crossed>>
        PROVE  DropsKept' /\ CreatedKept'
    <2> DEFINE r == Scanning(b)
    <2>1. worker' = [worker EXCEPT ![w] = r] /\ r.pc # "drop"
      BY <1>1, ScanningIs
    <2> HIDE DEF r
    <2> QED
      BY <1>1, <2>1, IdleKept
  <1>2. CASE processAvailable(w)
    <2>1. {[job |-> j, entry |-> outbox[j]] : j \in {j \in Job : Due(j)}} \in SUBSET ListedEntry
      BY DEF OutboxInv, OutboxTypes, ListedEntry
    <2> QED
      BY <1>1, <1>2, <2>1 DEF processAvailable
  <1>3. CASE GiveUp(w) \/ WorkerCrash(w)
    <2>1. worker[w].batch \in SUBSET ListedEntry /\ {} \in SUBSET ListedEntry
      BY OutboxWorkerIs DEF OutboxInv
    <2> QED
      BY <1>1, <1>3, <2>1 DEF GiveUp, WorkerCrash
  <1>4. CASE Deliver(w)
    <2>1. PICK res \in {"ok", "transient", "permanent"} :
             /\ worker' = [worker EXCEPT ![w].pc = "finish", ![w].result = res]
             /\ delivered' = IF res = "ok" THEN delivered \union {worker[w].job} ELSE delivered
      BY <1>4 DEF Deliver
    <2> DEFINE r == [worker[w] EXCEPT !.pc = "finish", !.result = res]
    <2>2. worker[w] \in OutboxWorker
      BY OutboxWorkerIs DEF OutboxInv
    <2>3. r.pc # "drop"
      BY <2>2 DEF OutboxWorker
    <2>4. worker' = [worker EXCEPT ![w] = r]
      BY <2>1, <2>2 DEF OutboxInv, OutboxTypes
    <2>5. UNCHANGED <<enqueue, outbox, replay, dlq, discarded, crossed>> /\ delivered \subseteq delivered'
      BY <1>4, <2>1 DEF Deliver
    <2> HIDE DEF r
    <2> QED
      BY <2>3, <2>4, <2>5, IdleKept
  <1> QED
    BY <1>2, <1>3, <1>4

\* Enqueue writes a row, ends, or undoes what nobody counts on.
LEMMA EnqueueKept ==
    ASSUME OutboxInv, DropsKept, CreatedKept, persistReceipt \/ EnqueueDone \/ EnqueueFails \/ EnqueueUndo
    PROVE  DropsKept' /\ CreatedKept'
  <1>1. UNCHANGED <<dlq, worker, replay, delivered, discarded, crossed>>
    BY DEF persistReceipt, EnqueueDone, EnqueueFails, EnqueueUndo
  <1>2. DropsKept'
    BY <1>1 DEF DropsKept, Settled, Buried
  <1>3. \A j : (Settled(j) => Settled(j)') /\ (Buried(j) => Buried(j)')
    BY <1>1 DEF Settled, Buried
  <1>4. /\ enqueue \in [pc : {"persist", "accepted", "undo", "failed"}, created : SUBSET Job]
        /\ outbox \in [Job -> OutboxEntry]
    BY DEF OutboxInv, OutboxTypes
  <1>5. CASE persistReceipt
    <2>1. PICK j \in Job :
             /\ enqueue.pc = "persist" /\ enqueue' = [enqueue EXCEPT !.created = @ \union {j}]
             /\ outbox' = [outbox EXCEPT ![j] = Entry(0, "queued", 0, "none")]
      BY <1>5 DEF persistReceipt
    <2>2. Entry(0, "queued", 0, "none") # NoEntry
      BY OutboxValues, EntryIs, NoEntryIs
    <2>3. enqueue'.created = enqueue.created \union {j} /\ enqueue.created \subseteq Job
      BY <1>4, <2>1
    <2>4. Present(j)' /\ \A i \in Job : Present(i) => Present(i)'
      BY <1>4, <2>1, <2>2 DEF Present
    <2> QED
      BY <1>2, <1>3, <2>1, <2>3, <2>4 DEF CreatedKept
  <1>6. CASE EnqueueDone
    <2>1. enqueue.pc = "persist" /\ enqueue'.created = enqueue.created /\ outbox' = outbox
      BY <1>4, <1>6 DEF EnqueueDone
    <2> QED
      BY <1>2, <1>3, <2>1 DEF CreatedKept, Present
  <1>7. CASE EnqueueFails \/ EnqueueUndo
    <2>1. enqueue'.pc \in {"undo", "failed"}
      BY <1>4, <1>7 DEF EnqueueFails, EnqueueUndo
    <2> QED
      BY <1>2, <2>1 DEF CreatedKept
  <1> QED
    BY <1>5, <1>6, <1>7

\* A replay puts the job in before it deletes the dead letter.
LEMMA AdminKept ==
    ASSUME OutboxInv, DropsKept, CreatedKept, NEW j \in Job, AdminStep(j)
    PROVE  DropsKept' /\ CreatedKept'
  <1>1. UNCHANGED <<enqueue, worker, delivered>> /\ discarded \subseteq discarded' /\ crossed \subseteq crossed'
    BY DEF AdminStep, ReplayGet, ReplayPut, ReplayDelete, ReplayFails, DeleteDurableDeadLetter
  <1>2. /\ replay \in [Job -> {"none", "got", "put"}] /\ dlq \in [Job -> OutboxEntry]
        /\ outbox \in [Job -> OutboxEntry] /\ enqueue.created \subseteq Job
    BY DEF OutboxInv, OutboxTypes
  <1>3. \A i \in Job : Settled(i) => Settled(i)'
    BY <1>1 DEF Settled
  <1>4. \A v \in Worker : worker[v].pc = "drop" => worker[v].job \in Job
    BY TakenIs
  <1>5. ASSUME \A i \in Job \ {j} : replay'[i] = replay[i] /\ dlq'[i] = dlq[i],
               \A i \in Job : Present(i) => Present(i)',
               Buried(j) => Settled(j)' \/ Buried(j)'
        PROVE  DropsKept' /\ CreatedKept'
    <2>1. \A i \in Job \ {j} : Buried(i) => Buried(i)'
      BY <1>5 DEF Buried
    <2>2. DropsKept'
      BY <1>1, <1>3, <1>4, <1>5, <2>1 DEF DropsKept
    <2>3. CreatedKept'
      BY <1>1, <1>2, <1>3, <1>5, <2>1 DEF CreatedKept
    <2> QED
      BY <2>2, <2>3
  <1>6. CASE ReplayGet(j)
    <2>1. replay' = [replay EXCEPT ![j] = "got"] /\ UNCHANGED <<outbox, dlq>>
      BY <1>6 DEF ReplayGet
    <2>2. replay'[j] = "got" /\ \A i \in Job \ {j} : replay'[i] = replay[i]
      BY <1>2, <2>1
    <2>3. Buried(j) => Buried(j)'
      BY <2>1, <2>2 DEF Buried
    <2> QED
      BY <1>5, <2>1, <2>2, <2>3 DEF Present
  <1>7. CASE ReplayPut(j)
    <2> DEFINE x == Entry(replays, "queued", 0, "none")
    <2>1. /\ replay' = [replay EXCEPT ![j] = "put"] /\ UNCHANGED dlq
          /\ outbox' = IF Present(j) THEN outbox ELSE [outbox EXCEPT ![j] = x]
          /\ crossed' = IF Dropping(j) THEN crossed \union {j} ELSE crossed
      BY <1>7 DEF ReplayPut
    <2>2. x # NoEntry
      <3>1. replays \in Nat
        BY DEF OutboxInv, OutboxTypes
      <3> QED
        BY <3>1, OutboxValues, EntryIs, NoEntryIs
    <2> HIDE DEF x
    <2>3. \A i \in Job \ {j} : replay'[i] = replay[i]
      BY <1>2, <2>1
    <2>4. Present(j)' /\ \A i \in Job : Present(i) => Present(i)'
      BY <1>2, <2>1, <2>2 DEF Present
    <2>5. Dropping(j) => Settled(j)'
      BY <2>1 DEF Settled
    <2>6. DropsKept'
      BY <1>1, <1>3, <1>4, <2>1, <2>3, <2>5 DEF DropsKept, Dropping, Buried
    <2>7. CreatedKept'
      BY <1>1, <1>2, <1>3, <2>1, <2>3, <2>4 DEF CreatedKept, Buried
    <2> QED
      BY <2>6, <2>7
  <1>8. CASE ReplayDelete(j)
    <2>1. replay[j] = "put" /\ replay' = [replay EXCEPT ![j] = "none"] /\ dlq' = [dlq EXCEPT ![j] = NoEntry]
          /\ UNCHANGED outbox
      BY <1>8 DEF ReplayDelete
    <2>2. ~Buried(j) /\ \A i \in Job \ {j} : replay'[i] = replay[i] /\ dlq'[i] = dlq[i]
      BY <1>2, <2>1 DEF Buried
    <2> QED
      BY <1>5, <2>1, <2>2 DEF Present
  <1>9. CASE ReplayFails(j)
    <2>1. replay' = [replay EXCEPT ![j] = "none"] /\ UNCHANGED <<outbox, dlq>>
      BY <1>9 DEF ReplayFails
    <2>2. replay'[j] = "none" /\ \A i \in Job \ {j} : replay'[i] = replay[i]
      BY <1>2, <2>1
    <2>3. Buried(j) => Buried(j)'
      BY <2>1, <2>2 DEF Buried
    <2> QED
      BY <1>5, <2>1, <2>2, <2>3 DEF Present
  <1>10. CASE DeleteDurableDeadLetter(j)
    <2>1. /\ dlq' = [dlq EXCEPT ![j] = NoEntry] /\ discarded' = discarded \union {j} /\ UNCHANGED <<outbox, replay>>
      BY <1>10 DEF DeleteDurableDeadLetter
    <2>2. Settled(j)' /\ \A i \in Job \ {j} : replay'[i] = replay[i] /\ dlq'[i] = dlq[i]
      BY <1>2, <2>1 DEF Settled
    <2> QED
      BY <1>5, <2>1, <2>2 DEF Present
  <1> QED
    BY <1>6, <1>7, <1>8, <1>9, <1>10 DEF AdminStep

\* Every step keeps what was written.
LEMMA OutboxStepKept ==
    OutboxInv /\ DropsKept /\ CreatedKept /\ [OutboxNext]_outboxVars => DropsKept' /\ CreatedKept'
  <1> SUFFICES ASSUME OutboxInv, DropsKept, CreatedKept, [OutboxNext]_outboxVars
               PROVE  DropsKept' /\ CreatedKept'
    OBVIOUS
  <1>1. ASSUME UNCHANGED <<enqueue, outbox, dlq, worker, replay, delivered, discarded, crossed>>
        PROVE  DropsKept' /\ CreatedKept'
    BY <1>1 DEF DropsKept, CreatedKept, Settled, Buried, Present
  <1>2. ASSUME NEW w \in Worker, WorkerStep(w) \/ GiveUp(w) \/ WorkerCrash(w) PROVE DropsKept' /\ CreatedKept'
    BY <1>2, FinishedKept, ClaimKept, FinishKept, BuryKept, DropKept, OtherKept DEF WorkerStep
  <1>3. ASSUME NEW j \in Job, TimePasses(j) \/ AdminStep(j) PROVE DropsKept' /\ CreatedKept'
    BY <1>1, <1>3, AdminKept DEF TimePasses
  <1>4. CASE UNCHANGED outboxVars
    BY <1>1, <1>4 DEF outboxVars
  <1> QED
    BY <1>2, <1>3, <1>4, EnqueueKept DEF OutboxNext

\* NotLost and OneWorkerPerAttempt (DurableOutbox): an accepted receipt is in the outbox, a dead
\* letter, delivered or deleted by the administrator, whatever crashes, fails, outlasts its lease
\* or is replayed, unless a burial and a replay of the job have crossed; and no two workers ever
\* make the same attempt.
THEOREM OutboxIsSafe == OutboxSpec => []OutboxSafe
  <1>1. OutboxInit => DropsKept /\ CreatedKept
    BY DEF OutboxInit, DropsKept, CreatedKept, Scanning
  <1>2. OutboxInv /\ DropsKept /\ CreatedKept => OutboxSafe
    BY DEF OutboxInv, OutboxSafe, NotLost, CreatedIs, CreatedKept, Settled, Buried, Accounted
  <1> QED
    BY OutboxInitInv, OutboxStepInv, OutboxStepKept, <1>1, <1>2, PTL DEF OutboxSpec

-----------------------------------------------------------------------------
(* Scheduled messages. *)

SchedPc == {"idle", "insert", "remove"}
SchedStep == [pc : SchedPc, row : Row \union {0}]

\* What the variables are, as far as the proofs need it.
SchedTypes ==
    /\ rows \subseteq Row /\ rowCount \in Nat /\ claims \subseteq Row /\ expired \in [Row -> Nat]
    /\ scan \in [SNode -> SUBSET Row] /\ topicStep \in [SNode -> SchedStep]
    /\ hubSchedule \in [SNode -> Seq(Row)] /\ topicQueue \in [SNode -> Seq(Row)]
    /\ dying \in [SNode -> Seq(Row)]

\* A full queue never grows.
QueuesBounded ==
    \A n \in SNode : Len(hubSchedule[n]) <= SchedQueue /\ Len(topicQueue[n]) <= SchedQueue
                     /\ Len(dying[n]) <= SchedQueue

\* A topic removes a row after the message exists.
RemovesPublished == \A n \in SNode : topicStep[n].pc = "remove" => topicMessages # {}

\* There are as many copies of a row under way as its claim, if it stands, and the claims that
\* expired under a copy account for.
CopiesClaimed ==
    \A r \in Row : /\ IsFiniteSet(CopiesOf(r))
                   /\ Copies(r) <= expired[r] + (IF r \in claims THEN 1 ELSE 0)

\* The inductive invariant of scheduled messages.
SchedInv == SchedTypes /\ QueuesBounded /\ RemovesPublished /\ ScheduledIsKept /\ CopiesClaimed

\* The places of the queues, by queue.
LEMMA PlaceIs ==
    ASSUME NEW c \in SchedPlace
    PROVE  /\ c.queue \in {"hub", "topic", "dying"} /\ c.node \in SNode /\ c.at \in 1 .. SchedQueue
           /\ c.queue = "hub" => QueueAt(c) = hubSchedule[c.node]
           /\ c.queue = "topic" => QueueAt(c) = topicQueue[c.node]
           /\ c.queue = "dying" => QueueAt(c) = dying[c.node]
           /\ \A k \in {"hub", "topic", "dying"}, i \in 1 .. SchedQueue :
                 /\ [queue |-> k, node |-> c.node, at |-> i] \in SchedPlace
                 /\ [queue |-> k, node |-> c.node, at |-> i].queue = k
                 /\ [queue |-> k, node |-> c.node, at |-> i].node = c.node
                 /\ [queue |-> k, node |-> c.node, at |-> i].at = i
  BY DEF SchedPlace, QueueAt

\* Two places with the same fields are the same.
LEMMA SamePlace ==
    ASSUME NEW c \in SchedPlace, NEW d \in SchedPlace, c.queue = d.queue, c.node = d.node, c.at = d.at
    PROVE  c = d
  BY DEF SchedPlace

\* If what is in the queues after a step was, each copy at another place, in the queues before
\* it, then there are no more copies of any row than before.
LEMMA CopiesMove ==
    ASSUME NEW g, NEW r, IsFiniteSet(CopiesOf(r)),
           \A c \in CopiesOf(r)' : g[c] \in CopiesOf(r),
           \A c, d \in CopiesOf(r)' : g[c] = g[d] => c = d
    PROVE  IsFiniteSet(CopiesOf(r)') /\ Copies(r)' <= Copies(r)
  <1> DEFINE S == CopiesOf(r)'  T == CopiesOf(r)  f == [c \in S |-> g[c]]
  <1>1. f \in Injection(S, T)
    <2> HIDE DEF S, T
    <2>1. \A c \in S : g[c] \in T
      BY DEF S, T
    <2>2. \A c, d \in S : g[c] = g[d] => c = d
      BY DEF S
    <2> QED
      BY <2>1, <2>2 DEF Injection, IsInjective
  <1>2. IsFiniteSet(S) /\ Cardinality(S) <= Cardinality(T)
    <2> HIDE DEF S, f
    <2> QED
      BY <1>1, FS_Injection
  <1> QED
    BY <1>2 DEF Copies

\* A queue that stays, is emptied or loses its head.
Shorter(old, new) == new = old \/ new = <<>> \/ (old # <<>> /\ new = Tail(old))

\* What the queue of a place holds.
LEMMA QueueIs ==
    ASSUME SchedTypes, QueuesBounded, NEW c \in SchedPlace
    PROVE  QueueAt(c) \in Seq(Row) /\ Len(QueueAt(c)) <= SchedQueue
  <1>1. c.queue \in {"hub", "topic", "dying"} /\ c.node \in SNode
    BY PlaceIs
  <1>2. CASE c.queue = "hub"
    BY <1>1, <1>2, PlaceIs DEF SchedTypes, QueuesBounded
  <1>3. CASE c.queue = "topic"
    BY <1>1, <1>3, PlaceIs DEF SchedTypes, QueuesBounded
  <1>4. CASE c.queue = "dying"
    BY <1>1, <1>4, PlaceIs DEF SchedTypes, QueuesBounded
  <1> QED
    BY <1>1, <1>2, <1>3, <1>4

\* A step that makes queues shorter makes no copies.
LEMMA ShorterMove ==
    ASSUME SchedTypes, QueuesBounded,
           \A m \in SNode : Shorter(hubSchedule[m], hubSchedule'[m]) /\ Shorter(topicQueue[m], topicQueue'[m])
                            /\ Shorter(dying[m], dying'[m]),
           NEW r, IsFiniteSet(CopiesOf(r))
    PROVE  IsFiniteSet(CopiesOf(r)') /\ Copies(r)' <= Copies(r)
  <1> DEFINE g == [c \in SchedPlace |->
                    IF QueueAt(c)' = QueueAt(c) THEN c
                    ELSE [queue |-> c.queue, node |-> c.node, at |-> c.at + 1]]
  <1>1. \A c \in SchedPlace : Shorter(QueueAt(c), QueueAt(c)')
    BY PlaceIs DEF QueueAt
  <1>2. ASSUME NEW c \in CopiesOf(r)' PROVE /\ g[c] \in CopiesOf(r) /\ c \in SchedPlace
                                            /\ g[c].queue = c.queue /\ g[c].node = c.node
                                            /\ g[c].at = IF QueueAt(c)' = QueueAt(c) THEN c.at ELSE c.at + 1
    <2>1. c \in SchedPlace /\ c.at <= Len(QueueAt(c)') /\ QueueAt(c)'[c.at] = r
      BY <1>2 DEF CopiesOf
    <2>2. QueueAt(c) \in Seq(Row) /\ Len(QueueAt(c)) <= SchedQueue /\ c.at \in 1 .. SchedQueue
      BY <2>1, QueueIs, PlaceIs
    <2>3. CASE QueueAt(c)' = QueueAt(c)
      BY <2>1, <2>3 DEF CopiesOf
    <2>4. CASE QueueAt(c)' # QueueAt(c)
      <3>1. QueueAt(c)' # <<>>
        BY <2>1, <2>2
      <3>2. QueueAt(c) # <<>> /\ QueueAt(c)' = Tail(QueueAt(c))
        BY <1>1, <2>1, <2>4, <3>1 DEF Shorter
      <3>3. c.at + 1 <= Len(QueueAt(c)) /\ QueueAt(c)[c.at + 1] = r /\ c.at + 1 \in 1 .. SchedQueue
        BY <2>1, <2>2, <3>2, SchedAssumption
      <3> DEFINE d == [queue |-> c.queue, node |-> c.node, at |-> c.at + 1]
      <3>4. d \in SchedPlace /\ d.queue = c.queue /\ d.node = c.node /\ d.at = c.at + 1 /\ g[c] = d
        BY <2>1, <2>4, <3>3, PlaceIs
      <3> HIDE DEF d, g
      <3>5. QueueAt(d) = QueueAt(c)
        BY <3>4 DEF QueueAt
      <3> QED
        BY <2>1, <2>4, <3>3, <3>4, <3>5 DEF CopiesOf
    <2> QED
      BY <2>3, <2>4
  <1> HIDE DEF g
  <1>3. ASSUME NEW c \in CopiesOf(r)', NEW d \in CopiesOf(r)', g[c] = g[d] PROVE c = d
    <2>1. c \in SchedPlace /\ d \in SchedPlace /\ c.queue = d.queue /\ c.node = d.node
      BY <1>2, <1>3
    <2>2. QueueAt(c) = QueueAt(d) /\ QueueAt(c)' = QueueAt(d)'
      BY <2>1 DEF QueueAt
    <2>3. c.at = d.at
      BY <1>2, <1>3, <2>1, <2>2, PlaceIs
    <2> QED
      BY <2>1, <2>3, SamePlace
  <1> QED
    BY <1>2, <1>3, CopiesMove

\* The Hub hands the head of its queue to the topic, or drops it.
LEMMA HubTakesMove ==
    ASSUME SchedTypes, QueuesBounded, NEW n \in SNode, hubTakes(n), NEW r, IsFiniteSet(CopiesOf(r))
    PROVE  IsFiniteSet(CopiesOf(r)') /\ Copies(r)' <= Copies(r)
  <1>1. /\ hubSchedule[n] # <<>> /\ hubSchedule' = [hubSchedule EXCEPT ![n] = Tail(hubSchedule[n])]
        /\ topicQueue' = [topicQueue EXCEPT ![n] =
              IF Len(topicQueue[n]) < SchedQueue THEN Append(topicQueue[n], Head(hubSchedule[n])) ELSE topicQueue[n]]
        /\ dying' = dying
    BY DEF hubTakes, tableVars, outcomeVars
  <1>2. /\ hubSchedule \in [SNode -> Seq(Row)] /\ topicQueue \in [SNode -> Seq(Row)]
        /\ \A m \in SNode : Len(hubSchedule[m]) <= SchedQueue /\ Len(topicQueue[m]) <= SchedQueue
    BY DEF SchedTypes, QueuesBounded
  <1>3. /\ hubSchedule'[n] = Tail(hubSchedule[n]) /\ (\A m \in SNode \ {n} : hubSchedule'[m] = hubSchedule[m])
        /\ topicQueue'[n] = (IF Len(topicQueue[n]) < SchedQueue THEN Append(topicQueue[n], Head(hubSchedule[n]))
                            ELSE topicQueue[n])
        /\ \A m \in SNode \ {n} : topicQueue'[m] = topicQueue[m]
    BY <1>1, <1>2
  <1> DEFINE last == Len(topicQueue[n]) + 1
             at(c) == IF c.queue = "hub" /\ c.node = n THEN c.at + 1
                      ELSE IF c.queue = "topic" /\ c.node = n /\ c.at = last THEN 1 ELSE c.at
             queue(c) == IF c.queue = "topic" /\ c.node = n /\ c.at = last THEN "hub" ELSE c.queue
             g == [c \in SchedPlace |-> [queue |-> queue(c), node |-> c.node, at |-> at(c)]]
  <1>4. ASSUME NEW c \in CopiesOf(r)'
        PROVE  /\ g[c] \in CopiesOf(r) /\ c \in SchedPlace
               /\ g[c].queue = queue(c) /\ g[c].node = c.node /\ g[c].at = at(c)
    <2>1. c \in SchedPlace /\ c.at <= Len(QueueAt(c)') /\ QueueAt(c)'[c.at] = r
      BY <1>4 DEF CopiesOf
    <2>2. /\ c.at \in 1 .. SchedQueue /\ c.node \in SNode /\ c.queue \in {"hub", "topic", "dying"}
          /\ g[c] = [queue |-> queue(c), node |-> c.node, at |-> at(c)]
      BY <2>1, PlaceIs
    <2> DEFINE d == [queue |-> queue(c), node |-> c.node, at |-> at(c)]
    <2>3. d.queue = queue(c) /\ d.node = c.node /\ d.at = at(c)
      OBVIOUS
    <2>4. at(c) \in 1 .. SchedQueue => d \in SchedPlace
      BY <2>1, <2>2, PlaceIs
    <2>5. g[c] = d
      BY <2>2
    <2> HIDE DEF d, g
    <2>6. CASE c.queue = "hub" /\ c.node = n
      <3>1. QueueAt(c)' = Tail(hubSchedule[n]) /\ QueueAt(d) = hubSchedule[n] /\ d.at = c.at + 1
        BY <1>3, <2>3, <2>6 DEF QueueAt
      <3>2. d.at <= Len(hubSchedule[n]) /\ hubSchedule[n][d.at] = r /\ at(c) \in 1 .. SchedQueue
        BY SMTT(30), <1>1, <1>2, <2>1, <2>2, <2>3, <3>1, SchedAssumption
      <3> QED
        BY <2>1, <2>3, <2>4, <2>5, <3>1, <3>2 DEF CopiesOf
    <2>7. CASE c.queue = "topic" /\ c.node = n /\ c.at = last
      <3>1. QueueAt(c)' = topicQueue'[n] /\ QueueAt(d) = hubSchedule[n] /\ d.at = 1
        BY <2>3, <2>7 DEF QueueAt
      <3>2. Len(topicQueue[n]) < SchedQueue
        BY <1>2, <2>2, <2>7, SchedAssumption
      <3>3. r = Head(hubSchedule[n])
        BY <1>1, <1>2, <1>3, <2>1, <2>7, <3>1, <3>2
      <3>4. d.at <= Len(hubSchedule[n]) /\ hubSchedule[n][d.at] = r /\ at(c) \in 1 .. SchedQueue
        BY <1>1, <1>2, <2>2, <2>3, <3>1, <3>3, SchedAssumption
      <3> QED
        BY <2>1, <2>3, <2>4, <2>5, <3>1, <3>4 DEF CopiesOf
    <2>8. CASE ~(c.queue = "hub" /\ c.node = n) /\ ~(c.queue = "topic" /\ c.node = n /\ c.at = last)
      <3>1. d.queue = c.queue /\ d.node = c.node /\ d.at = c.at /\ d \in SchedPlace
        BY <2>2, <2>3, <2>4, <2>8
      <3>2. QueueAt(d) = QueueAt(c)
        BY <3>1 DEF QueueAt
      <3>3. CASE c.queue = "topic" /\ c.node = n
        <4>1. QueueAt(c) = topicQueue[n] /\ QueueAt(c)' = topicQueue'[n]
          BY <3>3 DEF QueueAt
        <4>2. c.at <= Len(topicQueue[n]) /\ topicQueue[n][c.at] = r
          BY <1>1, <1>2, <1>3, <2>1, <2>2, <2>8, <3>3, <4>1
        <4> QED
          BY <2>1, <2>3, <2>5, <3>1, <3>2, <4>1, <4>2 DEF CopiesOf
      <3>4. CASE ~(c.queue = "topic" /\ c.node = n)
        <4>1. QueueAt(c)' = QueueAt(c)
          BY <1>1, <1>3, <2>2, <2>8, <3>4 DEF QueueAt
        <4> QED
          BY <2>1, <2>3, <2>5, <3>1, <3>2, <4>1 DEF CopiesOf
      <3> QED
        BY <3>3, <3>4
    <2> QED
      BY <2>1, <2>3, <2>5, <2>6, <2>7, <2>8
  <1> HIDE DEF g
  <1>5. ASSUME NEW c \in CopiesOf(r)', NEW d \in CopiesOf(r)', g[c] = g[d] PROVE c = d
    <2>1. /\ c \in SchedPlace /\ d \in SchedPlace /\ c.node = d.node
          /\ queue(c) = queue(d) /\ at(c) = at(d)
      BY <1>4, <1>5
    <2>2. c.at \in 1 .. SchedQueue /\ d.at \in 1 .. SchedQueue
      BY <2>1, PlaceIs
    <2>3. c.queue = d.queue /\ c.at = d.at
      BY <2>1, <2>2, SchedAssumption
    <2> QED
      BY <2>1, <2>3, SamePlace
  <1> QED
    BY <1>4, <1>5, CopiesMove

\* A topic that is unloaded takes its queue with it.
LEMMA UnregMove ==
    ASSUME SchedTypes, QueuesBounded, NEW n \in SNode, topicUnreg(n), NEW r, IsFiniteSet(CopiesOf(r))
    PROVE  IsFiniteSet(CopiesOf(r)') /\ Copies(r)' <= Copies(r)
  <1>1. /\ hubSchedule' = hubSchedule
        /\ topicQueue'[n] = <<>> /\ (\A m \in SNode \ {n} : topicQueue'[m] = topicQueue[m])
        /\ dying'[n] = topicQueue[n] /\ (\A m \in SNode \ {n} : dying'[m] = dying[m])
    BY DEF SchedTypes, topicUnreg, tableVars, outcomeVars
  <1> DEFINE queue(c) == IF c.queue = "dying" /\ c.node = n THEN "topic" ELSE c.queue
             g == [c \in SchedPlace |-> [queue |-> queue(c), node |-> c.node, at |-> c.at]]
  <1>2. ASSUME NEW c \in CopiesOf(r)'
        PROVE  /\ g[c] \in CopiesOf(r) /\ c \in SchedPlace
               /\ g[c].queue = queue(c) /\ g[c].node = c.node /\ g[c].at = c.at
               /\ ~(c.queue = "topic" /\ c.node = n)
    <2>1. c \in SchedPlace /\ c.at <= Len(QueueAt(c)') /\ QueueAt(c)'[c.at] = r
      BY <1>2 DEF CopiesOf
    <2>2. /\ c.at \in 1 .. SchedQueue /\ c.node \in SNode /\ c.queue \in {"hub", "topic", "dying"}
          /\ g[c] = [queue |-> queue(c), node |-> c.node, at |-> c.at]
      BY <2>1, PlaceIs
    <2> DEFINE d == [queue |-> queue(c), node |-> c.node, at |-> c.at]
    <2>3. d.queue = queue(c) /\ d.node = c.node /\ d.at = c.at /\ d \in SchedPlace /\ g[c] = d
      BY <2>1, <2>2, PlaceIs
    <2> HIDE DEF d, g
    <2>4. ~(c.queue = "topic" /\ c.node = n)
      <3>1. SUFFICES ASSUME c.queue = "topic", c.node = n PROVE FALSE
        OBVIOUS
      <3>2. QueueAt(c)' = <<>>
        BY <1>1, <3>1 DEF QueueAt
      <3> QED
        BY <2>1, <2>2, <3>2, SchedAssumption
    <2>5. QueueAt(d) = QueueAt(c)'
      BY <1>1, <2>2, <2>3, <2>4 DEF QueueAt
    <2> QED
      BY <2>1, <2>3, <2>4, <2>5 DEF CopiesOf
  <1> HIDE DEF g
  <1>3. ASSUME NEW c \in CopiesOf(r)', NEW d \in CopiesOf(r)', g[c] = g[d] PROVE c = d
    <2>1. /\ c \in SchedPlace /\ d \in SchedPlace /\ c.node = d.node /\ c.at = d.at /\ c.queue = d.queue
      BY <1>2, <1>3
    <2> QED
      BY <2>1, SamePlace
  <1> QED
    BY <1>2, <1>3, CopiesMove

\* It holds before anything is scheduled.
LEMMA SchedInitInv == SchedInit => SchedInv
  <1> SUFFICES ASSUME SchedInit PROVE SchedInv
    OBVIOUS
  <1>1. /\ rows = {} /\ rowCount = 0 /\ claims = {} /\ accepted = {} /\ topicMessages = {}
        /\ expired = [r \in Row |-> 0] /\ scan = [n \in SNode |-> {}]
        /\ hubSchedule = [n \in SNode |-> <<>>] /\ topicQueue = [n \in SNode |-> <<>>]
        /\ dying = [n \in SNode |-> <<>>] /\ topicStep = [n \in SNode |-> NoStep]
    BY DEF SchedInit
  <1>2. NoStep \in SchedStep /\ NoStep.pc = "idle"
    BY DEF NoStep, SchedStep, SchedPc
  <1>3. SchedTypes
    BY <1>1, <1>2 DEF SchedTypes
  <1>4. QueuesBounded /\ RemovesPublished /\ ScheduledIsKept
    BY <1>1, <1>2, SchedAssumption DEF QueuesBounded, RemovesPublished, ScheduledIsKept
  <1>5. ASSUME NEW r \in Row PROVE CopiesOf(r) = {}
    <2> SUFFICES ASSUME NEW c \in SchedPlace, c.at <= Len(QueueAt(c)) PROVE FALSE
      BY DEF CopiesOf
    <2>1. c.at \in 1 .. SchedQueue /\ QueueAt(c) = <<>>
      BY <1>1, PlaceIs
    <2> QED
      BY <2>1, SchedAssumption
  <1>6. CopiesClaimed
    <2> SUFFICES ASSUME NEW r \in Row
                 PROVE  IsFiniteSet(CopiesOf(r)) /\ Copies(r) <= expired[r] + (IF r \in claims THEN 1 ELSE 0)
      BY DEF CopiesClaimed
    <2>1. IsFiniteSet(CopiesOf(r)) /\ Copies(r) = 0
      BY <1>5, FS_EmptySet DEF Copies
    <2>2. expired[r] = 0
      BY <1>1
    <2> QED
      BY <2>1, <2>2
  <1> QED
    BY <1>3, <1>4, <1>6 DEF SchedInv

\* A step that removes rows for one of the reasons there are leaves the invariant true, if it
\* leaves the queues bounded and the copies accounted for.
LEMMA RowsKeep ==
    ASSUME SchedInv, SchedTypes', QueuesBounded', CopiesClaimed',
           \A m \in SNode : topicStep'[m].pc = "remove" => topicStep[m].pc = "remove" \/ topicMessages' # {},
           accepted' \subseteq accepted \union rows', topicMessages # {} => topicMessages' # {},
           cancelled \subseteq cancelled', refused \subseteq refused', dropped \subseteq dropped',
           \A r \in rows \ rows' : topicMessages' # {} \/ r \in cancelled' \union refused' \union dropped'
    PROVE  SchedInv'
  <1>1. RemovesPublished'
    BY DEF SchedInv, RemovesPublished
  <1>2. ScheduledIsKept'
    BY DEF SchedInv, ScheduledIsKept
  <1> QED
    BY <1>1, <1>2 DEF SchedInv

\* The copies, when a step makes none and takes no claim away.
LEMMA CopiesKeep ==
    ASSUME SchedInv, SchedTypes', UNCHANGED expired, claims \subseteq claims',
           \A r \in Row : IsFiniteSet(CopiesOf(r)) => IsFiniteSet(CopiesOf(r)') /\ Copies(r)' <= Copies(r)
    PROVE  CopiesClaimed'
  <1> SUFFICES ASSUME NEW r \in Row
               PROVE  IsFiniteSet(CopiesOf(r)') /\ Copies(r)' <= expired[r] + (IF r \in claims' THEN 1 ELSE 0)
    BY DEF CopiesClaimed
  <1>1. IsFiniteSet(CopiesOf(r)) /\ Copies(r) <= expired[r] + (IF r \in claims THEN 1 ELSE 0) /\ expired[r] \in Nat
    BY DEF SchedInv, CopiesClaimed, SchedTypes
  <1>2. IsFiniteSet(CopiesOf(r)') /\ Copies(r)' <= Copies(r)
    BY <1>1
  <1>3. Copies(r) \in Nat /\ Copies(r)' \in Nat
    BY <1>1, <1>2, FS_CardinalityType DEF Copies
  <1> QED
    BY <1>1, <1>2, <1>3

\* A step that makes queues no longer leaves the invariant true.
LEMMA SchedKeeps ==
    ASSUME SchedInv, SchedTypes', UNCHANGED expired, claims \subseteq claims',
           \A m \in SNode : Shorter(hubSchedule[m], hubSchedule'[m]) /\ Shorter(topicQueue[m], topicQueue'[m])
                            /\ Shorter(dying[m], dying'[m]),
           \A m \in SNode : topicStep'[m].pc = "remove" => topicStep[m].pc = "remove" \/ topicMessages' # {},
           accepted' \subseteq accepted \union rows', topicMessages # {} => topicMessages' # {},
           cancelled \subseteq cancelled', refused \subseteq refused', dropped \subseteq dropped',
           \A r \in rows \ rows' : topicMessages' # {} \/ r \in cancelled' \union refused' \union dropped'
    PROVE  SchedInv'
  <1>1. ASSUME NEW old \in Seq(Row), NEW new, Shorter(old, new), Len(old) <= SchedQueue
        PROVE  Len(new) <= SchedQueue
    <2>1. SchedQueue \in Nat /\ Len(old) \in Nat
      BY SchedAssumption
    <2>2. CASE new = <<>>
      BY <2>1, <2>2
    <2>3. CASE old # <<>> /\ new = Tail(old)
      BY <1>1, <2>1, <2>3
    <2> QED
      BY <1>1, <2>2, <2>3 DEF Shorter
  <1>2. QueuesBounded'
    BY <1>1 DEF SchedInv, SchedTypes, QueuesBounded
  <1>3. CopiesClaimed'
    BY CopiesKeep, ShorterMove DEF SchedInv
  <1> QED
    BY <1>2, <1>3, RowsKeep

\* What a step of a topic, and the heads and tails of its queues, are.
LEMMA SchedValues ==
    ASSUME SchedTypes
    PROVE  /\ NoStep \in SchedStep /\ NoStep.pc = "idle"
           /\ \A r \in Row \union {0} : /\ [pc |-> "insert", row |-> r] \in SchedStep
                                        /\ [pc |-> "insert", row |-> r].pc = "insert"
                                        /\ [pc |-> "remove", row |-> r] \in SchedStep
           /\ \A q \in Seq(Row) : q # <<>> => Head(q) \in Row /\ Tail(q) \in Seq(Row)
           /\ \A m \in SNode : /\ hubSchedule[m] \in Seq(Row) /\ topicQueue[m] \in Seq(Row)
                               /\ dying[m] \in Seq(Row) /\ topicStep[m] \in SchedStep /\ scan[m] \subseteq Row
  <1>1. \A q \in Seq(Row) : q # <<>> => Head(q) \in Row /\ Tail(q) \in Seq(Row)
    OBVIOUS
  <1> QED
    BY <1>1 DEF SchedTypes, NoStep, SchedStep, SchedPc

\* Requests to schedule and to cancel, and the passing of time.
LEMMA RequestKeeps ==
    ASSUME SchedInv, NEW n \in SNode, scheduleCheck(n) \/ scheduleInsert(n) \/ replyDelScheduled(n)
    PROVE  SchedInv'
  <1>1. /\ UNCHANGED <<claims, expired, scan, hubSchedule, topicQueue, dying, topicMessages, refused, dropped>>
        /\ cancelled \subseteq cancelled' /\ accepted' \subseteq accepted \union rows'
        /\ (\A r \in rows \ rows' : r \in cancelled')
        /\ rows' \subseteq rows \union {rowCount + 1} /\ rowCount' \in {rowCount, rowCount + 1}
        /\ rows' \subseteq rows \/ rowCount < MaxRow
    BY DEF scheduleCheck, scheduleInsert, replyDelScheduled, tableVars, nodeVars, outcomeVars
  <1>2. \/ topicStep' = topicStep
        \/ \E s \in SchedStep : topicStep' = [topicStep EXCEPT ![n] = s] /\ s.pc # "remove"
    BY SchedValues DEF SchedInv, scheduleCheck, scheduleInsert, replyDelScheduled, nodeVars
  <1>3. topicStep' \in [SNode -> SchedStep] /\ \A m \in SNode : topicStep'[m].pc = "remove" => topicStep[m].pc = "remove"
    BY <1>2 DEF SchedInv, SchedTypes
  <1>4. rows' \subseteq Row /\ rowCount' \in Nat
    BY <1>1, SchedAssumption DEF SchedInv, SchedTypes, Row
  <1>5. SchedTypes'
    BY <1>1, <1>3, <1>4 DEF SchedInv, SchedTypes
  <1> QED
    BY <1>1, <1>3, <1>5, SchedKeeps DEF Shorter

\* Steps that touch neither rows nor queues.
LEMMA QuietKeeps ==
    ASSUME SchedInv, claims \subseteq claims', claims' \subseteq Row, scan' \in [SNode -> SUBSET Row],
           UNCHANGED <<rows, rowCount, expired, topicStep, hubSchedule, topicQueue, dying>>,
           UNCHANGED <<topicMessages, accepted, cancelled, refused, dropped>>
    PROVE  SchedInv'
  <1>1. SchedTypes'
    BY DEF SchedInv, SchedTypes
  <1> QED
    BY <1>1, SchedKeeps DEF Shorter

\* The scheduler claims a row and puts a copy of it into the Hub's queue.
LEMMA HandOverKeeps ==
    ASSUME SchedInv, NEW n \in SNode, NEW r \in scan[n], r \notin claims, claims' = claims \union {r},
           Len(hubSchedule[n]) < SchedQueue, hubSchedule' = [hubSchedule EXCEPT ![n] = Append(hubSchedule[n], r)],
           scan' \in [SNode -> SUBSET Row],
           UNCHANGED <<rows, rowCount, expired, topicStep, topicQueue, dying>>,
           UNCHANGED <<topicMessages, accepted, cancelled, refused, dropped>>
    PROVE  SchedInv'
  <1> DEFINE q == hubSchedule[n]
  <1>1. r \in Row /\ q \in Seq(Row) /\ Len(q) \in Nat /\ SchedQueue \in Nat
    BY SchedValues, SchedAssumption DEF SchedInv
  <1>2. /\ hubSchedule' \in [SNode -> Seq(Row)] /\ hubSchedule'[n] = Append(q, r)
        /\ \A m \in SNode \ {n} : hubSchedule'[m] = hubSchedule[m]
    BY <1>1 DEF SchedInv, SchedTypes
  <1>3. SchedTypes'
    BY <1>1, <1>2 DEF SchedInv, SchedTypes
  <1>4. Len(Append(q, r)) = Len(q) + 1 /\ Append(q, r)[Len(q) + 1] = r /\ \A i \in 1 .. Len(q) : Append(q, r)[i] = q[i]
    BY <1>1
  <1>5. QueuesBounded'
    <2>1. Len(hubSchedule'[n]) <= SchedQueue
      BY <1>1, <1>2, <1>4
    <2> QED
      BY <1>2, <2>1 DEF SchedInv, QueuesBounded
  <1> DEFINE new == [queue |-> "hub", node |-> n, at |-> Len(q) + 1]
  <1>6. new \in SchedPlace /\ new.queue = "hub" /\ new.node = n /\ new.at = Len(q) + 1
    BY <1>1 DEF SchedPlace
  <1> HIDE DEF new
  <1>7. ASSUME NEW x \in Row, NEW c \in CopiesOf(x)' PROVE c \in CopiesOf(x) \/ (c = new /\ x = r)
    <2>1. c \in SchedPlace /\ c.at <= Len(QueueAt(c)') /\ QueueAt(c)'[c.at] = x
      BY <1>7 DEF CopiesOf
    <2>2. c.at \in 1 .. SchedQueue /\ c.node \in SNode /\ c.queue \in {"hub", "topic", "dying"}
      BY <2>1, PlaceIs
    <2>3. CASE c.queue = "hub" /\ c.node = n
      <3>1. QueueAt(c)' = Append(q, r) /\ QueueAt(c) = q
        BY <1>2, <2>3 DEF QueueAt
      <3>2. CASE c.at = Len(q) + 1
        BY <1>4, <1>6, <2>1, <2>3, <3>1, <3>2, SamePlace
      <3>3. CASE c.at # Len(q) + 1
        <4>1. c.at \in 1 .. Len(q)
          BY <1>1, <1>4, <2>1, <2>2, <3>1, <3>3
        <4> QED
          BY <1>1, <1>4, <2>1, <2>2, <3>1, <4>1 DEF CopiesOf
      <3> QED
        BY <3>2, <3>3
    <2>4. CASE ~(c.queue = "hub" /\ c.node = n)
      <3>1. QueueAt(c)' = QueueAt(c)
        BY <1>2, <2>2, <2>4 DEF QueueAt
      <3> QED
        BY <2>1, <3>1 DEF CopiesOf
    <2> QED
      BY <2>3, <2>4
  <1>8. CopiesClaimed'
    <2> SUFFICES ASSUME NEW x \in Row
                 PROVE  IsFiniteSet(CopiesOf(x)') /\ Copies(x)' <= expired[x] + (IF x \in claims' THEN 1 ELSE 0)
      BY DEF CopiesClaimed
    <2>1. IsFiniteSet(CopiesOf(x)) /\ Copies(x) <= expired[x] + (IF x \in claims THEN 1 ELSE 0) /\ expired[x] \in Nat
      BY DEF SchedInv, CopiesClaimed, SchedTypes
    <2>2. Cardinality(CopiesOf(x)) \in Nat
      BY <2>1, FS_CardinalityType
    <2>3. CASE x # r
      <3>1. CopiesOf(x)' \subseteq CopiesOf(x)
        BY <1>7, <2>3
      <3>2. IsFiniteSet(CopiesOf(x)') /\ Cardinality(CopiesOf(x)') <= Cardinality(CopiesOf(x))
        BY <2>1, <3>1, FS_Subset
      <3>3. Cardinality(CopiesOf(x)') \in Nat
        BY <3>2, FS_CardinalityType
      <3> QED
        BY <2>1, <2>2, <2>3, <3>2, <3>3 DEF Copies
    <2>4. CASE x = r
      <3> DEFINE S == CopiesOf(x) \union {new}
      <3>1. IsFiniteSet(S) /\ Cardinality(S) <= Cardinality(CopiesOf(x)) + 1 /\ Cardinality(S) \in Nat
        <4>1. /\ IsFiniteSet(S)
              /\ Cardinality(S) = IF new \in CopiesOf(x) THEN Cardinality(CopiesOf(x)) ELSE Cardinality(CopiesOf(x)) + 1
          BY <2>1, FS_AddElement
        <4> QED
          BY <2>2, <4>1
      <3>2. CopiesOf(x)' \subseteq S
        BY <1>7
      <3> HIDE DEF S
      <3>3. IsFiniteSet(CopiesOf(x)') /\ Cardinality(CopiesOf(x)') <= Cardinality(S)
        BY <3>1, <3>2, FS_Subset
      <3>4. Cardinality(CopiesOf(x)') \in Nat
        BY <3>3, FS_CardinalityType
      <3> QED
        BY <2>1, <2>2, <2>4, <3>1, <3>3, <3>4 DEF Copies
    <2> QED
      BY <2>3, <2>4
  <1> QED
    BY <1>3, <1>5, <1>8, RowsKeep

\* A row of the batch.
LEMMA DispatchKeeps == ASSUME SchedInv, NEW n \in SNode, dispatch(n) PROVE SchedInv'
  <1>1. PICK r \in scan[n] :
          /\ IF isLocal[n] /\ ClaimTask(r)
               THEN /\ claims' = claims \union {r}
                    /\ IF Len(hubSchedule[n]) < SchedQueue
                         THEN /\ hubSchedule' = [hubSchedule EXCEPT ![n] = Append(hubSchedule[n], r)]
                              /\ scan' = [scan EXCEPT ![n] = @ \ {r}]
                         ELSE /\ scan' = [scan EXCEPT ![n] = {}]
                              /\ UNCHANGED hubSchedule
               ELSE /\ scan' = [scan EXCEPT ![n] = @ \ {r}]
                    /\ UNCHANGED <<claims, hubSchedule>>
          /\ UNCHANGED <<tableVars, expired, isLocal, topicQueue, topicState, topicStep, dying,
                         outcomeVars, schedFaults>>
    BY DEF dispatch
  <1>2. /\ UNCHANGED <<rows, rowCount, expired, topicStep, topicQueue, dying>>
        /\ UNCHANGED <<topicMessages, accepted, cancelled, refused, dropped>>
    BY <1>1 DEF tableVars, outcomeVars
  <1>3. scan[n] \subseteq Row /\ r \in Row /\ scan \in [SNode -> SUBSET Row] /\ claims \subseteq Row
    BY SchedValues DEF SchedInv, SchedTypes
  <1>4. scan' \in [SNode -> SUBSET Row]
    BY <1>1, <1>3
  <1>5. CASE isLocal[n] /\ ClaimTask(r) /\ Len(hubSchedule[n]) < SchedQueue
    <2>1. /\ claims' = claims \union {r} /\ r \notin claims
          /\ hubSchedule' = [hubSchedule EXCEPT ![n] = Append(hubSchedule[n], r)]
      BY <1>1, <1>5 DEF ClaimTask
    <2> QED
      BY <1>2, <1>4, <1>5, <2>1, HandOverKeeps
  <1>6. CASE ~(isLocal[n] /\ ClaimTask(r) /\ Len(hubSchedule[n]) < SchedQueue)
    <2>1. UNCHANGED hubSchedule /\ claims' \in {claims, claims \union {r}}
      BY <1>1, <1>6
    <2> QED
      BY <1>2, <1>3, <1>4, <2>1, QuietKeeps
  <1> QED
    BY <1>5, <1>6

\* A lease ends: under a copy that is under way, or not.
LEMMA ExpiresKeeps == ASSUME SchedInv, ClaimExpires PROVE SchedInv'
  <1>1. PICK r \in claims :
           /\ claims' = claims \ {r}
           /\ expired' = [expired EXCEPT ![r] = IF Copies(r) > 0 THEN @ + 1 ELSE @]
           /\ UNCHANGED <<tableVars, nodeVars, outcomeVars>>
    BY DEF ClaimExpires
  <1>2. /\ UNCHANGED <<rows, rowCount, scan, topicStep, hubSchedule, topicQueue, dying>>
        /\ UNCHANGED <<topicMessages, accepted, cancelled, refused, dropped>>
    BY <1>1 DEF tableVars, nodeVars, outcomeVars
  <1>3. r \in Row /\ claims \subseteq Row /\ expired \in [Row -> Nat]
    BY DEF SchedInv, SchedTypes
  <1>4. /\ expired' \in [Row -> Nat] /\ expired'[r] = (IF Copies(r) > 0 THEN expired[r] + 1 ELSE expired[r])
        /\ \A x \in Row \ {r} : expired'[x] = expired[x]
    BY <1>1, <1>3
  <1>5. SchedTypes' /\ QueuesBounded'
    BY <1>1, <1>2, <1>3, <1>4 DEF SchedInv, SchedTypes, QueuesBounded
  <1>6. CopiesClaimed'
    <2> SUFFICES ASSUME NEW x \in Row
                 PROVE  IsFiniteSet(CopiesOf(x)') /\ Copies(x)' <= expired'[x] + (IF x \in claims' THEN 1 ELSE 0)
      BY DEF CopiesClaimed
    <2>1. CopiesOf(x)' = CopiesOf(x) /\ Copies(x)' = Copies(x)
      BY <1>2 DEF Copies, CopiesOf, QueueAt
    <2>2. IsFiniteSet(CopiesOf(x)) /\ Copies(x) <= expired[x] + (IF x \in claims THEN 1 ELSE 0) /\ expired[x] \in Nat
      BY <1>3 DEF SchedInv, CopiesClaimed
    <2>3. Copies(x) \in Nat
      BY <2>2, FS_CardinalityType DEF Copies
    <2>4. CASE x = r
      BY <1>1, <1>4, <2>1, <2>2, <2>3, <2>4
    <2>5. CASE x # r
      BY <1>1, <1>4, <2>1, <2>2, <2>3, <2>5
    <2> QED
      BY <2>4, <2>5
  <1> QED
    BY <1>2, <1>5, <1>6, RowsKeep

\* The Hub hands a message to the topic.
LEMMA HubTakesKeeps == ASSUME SchedInv, NEW n \in SNode, hubTakes(n) PROVE SchedInv'
  <1> DEFINE h == hubSchedule[n]  q == topicQueue[n]
             q2 == IF Len(q) < SchedQueue THEN Append(q, Head(h)) ELSE q
  <1>1. /\ h # <<>> /\ hubSchedule' = [hubSchedule EXCEPT ![n] = Tail(h)]
        /\ topicQueue' = [topicQueue EXCEPT ![n] = q2]
        /\ UNCHANGED <<rows, rowCount, claims, expired, scan, topicStep, dying>>
        /\ UNCHANGED <<topicMessages, accepted, cancelled, refused, dropped>>
    BY DEF hubTakes, tableVars, outcomeVars
  <1>2. h \in Seq(Row) /\ q \in Seq(Row) /\ Head(h) \in Row /\ Tail(h) \in Seq(Row) /\ q2 \in Seq(Row)
    BY <1>1, SchedValues DEF SchedInv
  <1>3. Len(Tail(h)) <= SchedQueue /\ Len(q2) <= SchedQueue
    <2>1. Len(h) <= SchedQueue /\ Len(q) <= SchedQueue /\ Len(h) \in Nat /\ Len(q) \in Nat /\ SchedQueue \in Nat
      BY <1>2, SchedAssumption DEF SchedInv, QueuesBounded
    <2> QED
      BY <1>1, <1>2, <2>1
  <1> HIDE DEF q2
  <1>4. /\ hubSchedule' \in [SNode -> Seq(Row)] /\ hubSchedule'[n] = Tail(h)
        /\ topicQueue' \in [SNode -> Seq(Row)] /\ topicQueue'[n] = q2
        /\ \A m \in SNode \ {n} : hubSchedule'[m] = hubSchedule[m] /\ topicQueue'[m] = topicQueue[m]
    BY <1>1, <1>2 DEF SchedInv, SchedTypes
  <1>5. SchedTypes'
    BY <1>1, <1>4 DEF SchedInv, SchedTypes
  <1>6. QueuesBounded'
    BY <1>1, <1>3, <1>4 DEF SchedInv, QueuesBounded
  <1>7. CopiesClaimed'
    BY <1>1, <1>5, HubTakesMove, CopiesKeep DEF SchedInv
  <1> QED
    BY <1>1, <1>5, <1>6, <1>7, RowsKeep

\* A topic takes the head of its queue and publishes, fails to, refuses to or drops it; or it
\* removes the row of the message it has published.
LEMMA PublishKeeps ==
    ASSUME SchedInv, NEW n \in SNode,
           publish(n) \/ publishFails(n) \/ publishRefused(n) \/ publishRefreshFails(n)
           \/ removeScheduled(n)
    PROVE  SchedInv'
  <1>1. /\ UNCHANGED <<rowCount, claims, expired, scan, hubSchedule, dying, accepted, cancelled>>
        /\ refused \subseteq refused' /\ dropped \subseteq dropped' /\ rows' \subseteq rows
    BY DEF publish, publishFails, publishRefused, publishRefreshFails, removeScheduled, tableVars, outcomeVars
  <1>2. /\ topicQueue' \in [SNode -> Seq(Row)]
        /\ \A m \in SNode : Shorter(topicQueue[m], topicQueue'[m])
    <2>1. \/ topicQueue' = topicQueue
          \/ topicQueue[n] # <<>> /\ topicQueue' = [topicQueue EXCEPT ![n] = Tail(topicQueue[n])]
      BY DEF publish, publishFails, publishRefused, publishRefreshFails, removeScheduled
    <2>2. topicQueue \in [SNode -> Seq(Row)] /\ (topicQueue[n] # <<>> => Tail(topicQueue[n]) \in Seq(Row))
      BY SchedValues DEF SchedInv, SchedTypes
    <2> QED
      BY <2>1, <2>2 DEF Shorter
  <1>3. (topicMessages # {} => topicMessages' # {})
    BY DEF publish, publishFails, publishRefused, publishRefreshFails, removeScheduled, outcomeVars
  <1>4. /\ topicStep' \in [SNode -> SchedStep]
        /\ \A m \in SNode : topicStep'[m].pc = "remove" => topicStep[m].pc = "remove" \/ topicMessages' # {}
    <2>0. topicStep \in [SNode -> SchedStep] /\ NoStep \in SchedStep /\ NoStep.pc = "idle"
      BY SchedValues DEF SchedInv, SchedTypes
    <2>1. CASE publish(n)
      <3>1. /\ topicMessages' # {}
            /\ topicStep' = [topicStep EXCEPT ![n] = [pc |-> "remove", row |-> Head(topicQueue[n])]]
        BY <2>1 DEF publish
      <3>2. [pc |-> "remove", row |-> Head(topicQueue[n])] \in SchedStep
        BY <2>1, SchedValues DEF SchedInv, publish
      <3> QED
        BY <2>0, <3>1, <3>2
    <2>2. CASE publishFails(n) \/ publishRefused(n) \/ publishRefreshFails(n)
      BY <2>0, <2>2 DEF publishFails, publishRefused, publishRefreshFails
    <2>3. CASE removeScheduled(n)
      <3>1. topicStep' = [topicStep EXCEPT ![n] = NoStep]
        BY <2>3 DEF removeScheduled
      <3> QED
        BY <2>0, <3>1
    <2> QED
      BY <2>1, <2>2, <2>3
  <1>5. \A r \in rows \ rows' : topicMessages' # {} \/ r \in refused' \union dropped'
    <2>1. CASE publish(n) \/ publishFails(n)
      BY <2>1 DEF publish, publishFails, tableVars
    <2>2. CASE publishRefused(n)
      BY <2>2 DEF publishRefused
    <2>3. CASE removeScheduled(n)
      BY <1>3, <2>3 DEF removeScheduled, SchedInv, RemovesPublished
    <2>4. CASE publishRefreshFails(n)
      BY <2>4 DEF publishRefreshFails
    <2> QED
      BY <2>1, <2>2, <2>3, <2>4
  <1>6. SchedTypes'
    BY <1>1, <1>2, <1>4 DEF SchedInv, SchedTypes
  <1> QED
    BY <1>1, <1>2, <1>3, <1>4, <1>5, <1>6, SchedKeeps DEF Shorter

\* A topic fails to load, a topic that was unloaded goes on or ends, a node crashes.
LEMMA EndsKeep ==
    ASSUME SchedInv, NEW n \in SNode,
           topicLoadFails(n) \/ dyingTakes(n) \/ dyingEnds(n) \/ nodeCrashes(n)
    PROVE  SchedInv'
  <1>0. /\ hubSchedule \in [SNode -> Seq(Row)] /\ topicQueue \in [SNode -> Seq(Row)] /\ dying \in [SNode -> Seq(Row)]
        /\ scan \in [SNode -> SUBSET Row] /\ topicStep \in [SNode -> SchedStep]
        /\ NoStep \in SchedStep /\ NoStep.pc = "idle" /\ <<>> \in Seq(Row)
        /\ dying[n] # <<>> => Tail(dying[n]) \in Seq(Row)
    BY SchedValues DEF SchedInv, SchedTypes
  <1>1. /\ UNCHANGED <<rowCount, claims, expired, topicMessages, accepted, cancelled, refused>>
        /\ dropped \subseteq dropped' /\ rows' \subseteq rows /\ \A r \in rows \ rows' : r \in dropped'
    BY DEF topicLoadFails, dyingTakes, dyingEnds, nodeCrashes, tableVars, outcomeVars
  <1>2. /\ hubSchedule' = hubSchedule \/ hubSchedule' = [hubSchedule EXCEPT ![n] = <<>>]
        /\ topicQueue' = topicQueue \/ topicQueue' = [topicQueue EXCEPT ![n] = <<>>]
        /\ \/ dying' = dying \/ dying' = [dying EXCEPT ![n] = <<>>]
           \/ dying[n] # <<>> /\ dying' = [dying EXCEPT ![n] = Tail(dying[n])]
        /\ scan' = scan \/ scan' = [scan EXCEPT ![n] = {}]
        /\ topicStep' = topicStep \/ topicStep' = [topicStep EXCEPT ![n] = NoStep]
    BY DEF topicLoadFails, dyingTakes, dyingEnds, nodeCrashes
  <1>3. hubSchedule' \in [SNode -> Seq(Row)] /\ \A m \in SNode : Shorter(hubSchedule[m], hubSchedule'[m])
    BY ZenonT(60), <1>0, <1>2 DEF Shorter
  <1>4. topicQueue' \in [SNode -> Seq(Row)] /\ \A m \in SNode : Shorter(topicQueue[m], topicQueue'[m])
    BY ZenonT(60), <1>0, <1>2 DEF Shorter
  <1>5. dying' \in [SNode -> Seq(Row)] /\ \A m \in SNode : Shorter(dying[m], dying'[m])
    BY ZenonT(60), <1>0, <1>2 DEF Shorter
  <1>6. /\ scan' \in [SNode -> SUBSET Row] /\ topicStep' \in [SNode -> SchedStep]
        /\ \A m \in SNode : topicStep'[m].pc = "remove" => topicStep[m].pc = "remove"
    BY ZenonT(60), <1>0, <1>2
  <1>7. SchedTypes'
    BY <1>1, <1>3, <1>4, <1>5, <1>6 DEF SchedInv, SchedTypes
  <1> QED
    BY <1>1, <1>3, <1>4, <1>5, <1>6, <1>7, SchedKeeps

\* A topic is unloaded.
LEMMA UnregKeeps == ASSUME SchedInv, NEW n \in SNode, topicUnreg(n) PROVE SchedInv'
  <1>1. /\ dying' = [dying EXCEPT ![n] = topicQueue[n]] /\ topicQueue' = [topicQueue EXCEPT ![n] = <<>>]
        /\ UNCHANGED <<rows, rowCount, claims, expired, scan, topicStep, hubSchedule>>
        /\ UNCHANGED <<topicMessages, accepted, cancelled, refused, dropped>>
    BY DEF topicUnreg, tableVars, outcomeVars
  <1>2. /\ dying' \in [SNode -> Seq(Row)] /\ dying'[n] = topicQueue[n]
        /\ topicQueue' \in [SNode -> Seq(Row)] /\ topicQueue'[n] = <<>>
        /\ \A m \in SNode \ {n} : dying'[m] = dying[m] /\ topicQueue'[m] = topicQueue[m]
    BY <1>1 DEF SchedInv, SchedTypes
  <1>3. SchedTypes'
    BY <1>1, <1>2 DEF SchedInv, SchedTypes
  <1>4. QueuesBounded'
    <2>1. Len(<<>>) <= SchedQueue
      BY SchedAssumption
    <2> QED
      BY <1>1, <1>2, <2>1 DEF SchedInv, QueuesBounded
  <1>5. CopiesClaimed'
    BY <1>1, <1>3, UnregMove, CopiesKeep DEF SchedInv
  <1> QED
    BY <1>1, <1>3, <1>4, <1>5, RowsKeep

\* Every step leaves the invariant true.
LEMMA SchedStepInv == SchedInv /\ [SchedNext]_schedVars => SchedInv'
  <1> SUFFICES ASSUME SchedInv, [SchedNext]_schedVars PROVE SchedInv'
    OBVIOUS
  <1>0. scan \in [SNode -> SUBSET Row] /\ claims \subseteq Row /\ rows \subseteq Row
    BY DEF SchedInv, SchedTypes
  <1>1. CASE DueTimePasses
    BY <1>0, <1>1, QuietKeeps DEF DueTimePasses, nodeVars, outcomeVars
  <1>2. ASSUME NEW n \in SNode, readDue(n) PROVE SchedInv'
    <2>1. scan' \in [SNode -> SUBSET Row]
      BY <1>0, <1>2 DEF readDue
    <2> QED
      BY <1>0, <1>2, <2>1, QuietKeeps DEF readDue, tableVars, outcomeVars
  <1>3. ASSUME NEW n \in SNode, dispatchFails(n) PROVE SchedInv'
    <2>1. scan' \in [SNode -> SUBSET Row] /\ claims \subseteq claims' /\ claims' \subseteq Row
      BY <1>0, <1>3 DEF dispatchFails
    <2> QED
      BY <1>3, <2>1, QuietKeeps DEF dispatchFails, tableVars, outcomeVars
  <1>4. ASSUME NEW n \in SNode, topicLoads(n) \/ viewMoves(n) PROVE SchedInv'
    BY <1>0, <1>4, QuietKeeps DEF topicLoads, viewMoves, tableVars, outcomeVars
  <1>5. CASE UNCHANGED schedVars
    BY <1>0, <1>5, QuietKeeps DEF schedVars
  <1>6. ASSUME NEW n \in SNode, schedulerStep(n) \/ topicStepOf(n) \/ dyingStep(n) PROVE SchedInv'
    BY <1>2, <1>6, DispatchKeeps, RequestKeeps, PublishKeeps, EndsKeep DEF schedulerStep, topicStepOf, dyingStep
  <1>7. ASSUME NEW n \in SNode,
               scheduleCheck(n) \/ replyDelScheduled(n) \/ hubTakes(n) \/ topicLoadFails(n)
               \/ publishFails(n) \/ publishRefreshFails(n) \/ topicUnreg(n) \/ nodeCrashes(n)
        PROVE  SchedInv'
    BY <1>7, RequestKeeps, HubTakesKeeps, EndsKeep, PublishKeeps, UnregKeeps
  <1> QED
    BY <1>1, <1>3, <1>4, <1>5, <1>6, <1>7, ExpiresKeeps DEF SchedNext

\* ScheduledIsKept and OneCopyPerClaim (dispatchDueScheduledMessages, removeScheduled): an accepted
\* request is in the table until it is published, cancelled, refused or dropped (by a topic that is
\* being unloaded or could not read an official channel's members), and a row is handed over once per claim, on any number of nodes with queues of
\* any capacity.
THEOREM ScheduleIsSafe == SchedSpec => []ScheduleSafe
  <1>1. SchedInv => ScheduleSafe
    <2> SUFFICES ASSUME SchedInv, NEW r \in Row PROVE Copies(r) <= 1 + expired[r]
      BY DEF SchedInv, ScheduleSafe, OneCopyPerClaim
    <2>1. IsFiniteSet(CopiesOf(r)) /\ Copies(r) <= expired[r] + (IF r \in claims THEN 1 ELSE 0) /\ expired[r] \in Nat
      BY DEF SchedInv, CopiesClaimed, SchedTypes
    <2>2. Copies(r) \in Nat
      BY <2>1, FS_CardinalityType DEF Copies
    <2> QED
      BY <2>1, <2>2
  <1> QED
    BY SchedInitInv, SchedStepInv, <1>1, PTL DEF SchedSpec

-----------------------------------------------------------------------------
(* The cache of unread counters. *)

PushRequest == [kind : {"push"}, id : Nat, to : SUBSET CUser, val : Int]
CacheRequest ==
    [kind : {"topic"}, inc : BOOLEAN] \union [kind : {"unread"}, user : CUser, val : Int]
    \union [kind : {"gone"}, user : CUser] \union PushRequest
CacheEntry == [unread : Int, topics : Int]
CacheBuffer == [on : BOOLEAN, sum : Int]
CacheCounts == UNION {[S -> Int] : S \in SUBSET CUser}
CacheRead == [users : SUBSET CUser, state : {"asked", "read", "failed"}, counts : CacheCounts]
PendingReceipt == [id : Nat, to : SUBSET CUser, ios : Int]

\* What the variables are, without bounds.
CacheTypes ==
    /\ unreadRows \in [CUser -> Int] /\ usersCache \in [CUser -> CacheEntry]
    /\ buffers \in [CUser -> CacheBuffer] /\ waiting \in [CUser -> SUBSET Nat]
    /\ toSend \in Seq(CacheRequest) /\ updates \in Seq(CacheRequest) /\ receipts \in Nat
    /\ reads \subseteq CacheRead /\ pending \subseteq PendingReceipt
    /\ \A d \in reads : d.state = "read" => d.counts \in [d.users -> Int]

\* A counter is read once at a time, and its updates are buffered as long.
ReadsApart ==
    /\ \A d, e \in reads : d # e => d.users \cap e.users = {}
    /\ \A u \in CUser : buffers[u].on <=> \E d \in reads : u \in d.users

\* A counter that is being read is not known, nor is that of a user who is not in the cache: it
\* is set once.
SetOnce ==
    ~initialised /\ \A u \in CUser : (Known(u) => ~buffers[u].on) /\ (~InCache(u) => usersCache[u].unread < 0)

\* The newest receipt that has left the topic, and the receipts the cache has seen.
Newest == IF toSend # <<>> /\ Head(toSend).kind = "push" THEN receipts - 1 ELSE receipts
Handled(x) ==
    (\E p \in pending : p.id = x) \/ (\E p \in pushed : p.id = x) \/ (\E u \in CUser : x \in waiting[u])

\* Receipts come in the order in which the topic made them.
ReceiptsInOrder ==
    /\ toSend # <<>> /\ Head(toSend).kind = "push" => Head(toSend).id = receipts /\ receipts # 0
    /\ \A i \in 2 .. Len(toSend) : toSend[i].kind # "push"
    /\ \A i \in 1 .. Len(updates) : updates[i].kind = "push" => updates[i].id <= Newest
    /\ \A i, j \in 1 .. Len(updates) :
          i < j /\ updates[i].kind = "push" /\ updates[j].kind = "push" => updates[i].id < updates[j].id
    /\ \A x \in Nat : Handled(x) =>
          x <= Newest /\ \A i \in 1 .. Len(updates) : updates[i].kind = "push" => x < updates[i].id

\* A receipt waits or was pushed, once.
PushedOnce ==
    /\ \A p, q \in pending : p.id = q.id => p = q
    /\ \A p \in pending, q \in pushed : p.id # q.id
    /\ \A p, q \in pushed : p.id = q.id => p = q
    /\ \A p \in pushed : p.id \in Nat

\* The inductive invariant of the cache.
CacheInv == CacheTypes /\ ReadsApart /\ SetOnce /\ ReceiptsInOrder /\ PushedOnce /\ ReceiptsAreCounted

\* Requests, taken apart.
LEMMA RequestIs ==
    ASSUME NEW x \in CacheRequest
    PROVE  /\ x.kind = "push" => x.id \in Nat /\ x.to \in SUBSET CUser /\ x.val \in Int
           /\ x.kind = "unread" => x.user \in CUser /\ x.val \in Int
           /\ x.kind = "gone" => x.user \in CUser
  BY DEF CacheRequest, PushRequest

\* The requests a topic makes.
LEMMA RequestsAre ==
    /\ \A b \in BOOLEAN : CountTopic(b) \in CacheRequest /\ CountTopic(b).kind = "topic"
    /\ \A u \in CUser, n \in Int : Delta(u, n) \in CacheRequest /\ Delta(u, n).kind = "unread"
    /\ \A u \in CUser : RemoveUser(u) \in CacheRequest /\ RemoveUser(u).kind = "gone"
    /\ \A r \in Nat, to \in SUBSET CUser, n \in Int :
          /\ Receipt(r, to, n) \in CacheRequest /\ Receipt(r, to, n).kind = "push"
          /\ Receipt(r, to, n).id = r
  BY DEF CacheRequest, PushRequest, CountTopic, Delta, RemoveUser, Receipt

\* The head and the rest of a queue of requests.
LEMMA PopIs ==
    ASSUME NEW q \in Seq(CacheRequest), q # <<>>
    PROVE  /\ Head(q) \in CacheRequest /\ Head(q) = q[1] /\ Tail(q) \in Seq(CacheRequest)
           /\ Len(q) \in Nat \ {0} /\ Len(Tail(q)) = Len(q) - 1
           /\ \A i \in 1 .. Len(q) - 1 : Tail(q)[i] = q[i + 1]
  OBVIOUS

\* It holds at the start.
LEMMA CacheInitInv == UserCacheInit => CacheInv
  <1> SUFFICES ASSUME UserCacheInit PROVE CacheInv
    OBVIOUS
  <1>1. NotCached \in CacheEntry /\ NotCached.topics = 0 /\ NotCached.unread = -1 /\ NoBuffer \in CacheBuffer /\ ~NoBuffer.on
    BY DEF NotCached, CacheEntry, NoBuffer, CacheBuffer
  <1>2. /\ usersCache = [u \in CUser |-> NotCached] /\ buffers = [u \in CUser |-> NoBuffer]
        /\ waiting = [u \in CUser |-> {}] /\ unreadRows = [u \in CUser |-> 1]
        /\ toSend = <<>> /\ updates = <<>> /\ pending = {} /\ reads = {} /\ pushed = {} /\ receipts = 0
        /\ ~initialised
    BY DEF UserCacheInit
  <1>3. CacheTypes
    BY <1>1, <1>2 DEF CacheTypes
  <1>4. ReadsApart /\ PushedOnce /\ ReceiptsAreCounted
    BY <1>1, <1>2 DEF ReadsApart, PushedOnce, ReceiptsAreCounted
  <1>5. SetOnce
    BY <1>1, <1>2 DEF SetOnce
  <1>6. ReceiptsInOrder
    BY <1>2 DEF ReceiptsInOrder, Handled
  <1> QED
    BY <1>3, <1>4, <1>5, <1>6 DEF CacheInv

\* A topic sets out to send requests, at most one of them the next receipt and that one first.
LEMMA SetOutKeeps ==
    ASSUME CacheInv, toSend = <<>>, NEW new \in Seq(CacheRequest), toSend' = new, new # <<>>,
           \A i \in 2 .. Len(new) : new[i].kind # "push",
           \/ new[1].kind # "push" /\ receipts' = receipts
           \/ new[1].kind = "push" /\ receipts' = receipts + 1 /\ new[1].id = receipts + 1,
           unreadRows' \in [CUser -> Int],
           UNCHANGED <<updates, usersCache, buffers, waiting, pending, reads, pushed, initialised>>
    PROVE  CacheInv'
  <1>1. receipts \in Nat /\ Head(new) = new[1]
    BY DEF CacheInv, CacheTypes
  <1>2. CacheTypes'
    BY <1>1 DEF CacheInv, CacheTypes
  <1>3. /\ ReadsApart' /\ SetOnce' /\ PushedOnce' /\ ReceiptsAreCounted'
    BY DEF CacheInv, ReadsApart, SetOnce, PushedOnce, ReceiptsAreCounted, Known, InCache
  <1>4. Newest' = receipts /\ Newest = receipts
    BY <1>1 DEF Newest
  <1>5. \A x \in Nat : Handled(x)' <=> Handled(x)
    BY DEF Handled
  <1>6. ReceiptsInOrder'
    BY <1>1, <1>4, <1>5 DEF CacheInv, ReceiptsInOrder
  <1> QED
    BY <1>2, <1>3, <1>6 DEF CacheInv

\* What a topic does.
LEMMA TopicSendsKeeps ==
    ASSUME CacheInv,
           \/ usersRegisterTopic \/ pushForData
           \/ \E u \in CUser : usersRemoveUser(u)
           \/ \E u \in CUser, n \in 1 .. MaxUnread : noteRead(u, n)
    PROVE  CacheInv'
  <1>0. unreadRows \in [CUser -> Int] /\ receipts \in Nat
    BY DEF CacheInv, CacheTypes
  <1>1. CASE usersRegisterTopic
    <2>1. PICK b \in BOOLEAN : toSend' = <<CountTopic(b)>>
      BY <1>1 DEF usersRegisterTopic
    <2> DEFINE x == CountTopic(b)
    <2>2. x \in CacheRequest /\ x.kind # "push"
      BY RequestsAre
    <2>3. /\ toSend = <<>> /\ toSend' = <<x>> /\ receipts' = receipts
          /\ UNCHANGED <<unreadRows, updates, usersCache, buffers, waiting, pending, reads, pushed, initialised>>
      BY <1>1, <2>1 DEF usersRegisterTopic
    <2> HIDE DEF x
    <2>4. <<x>> \in Seq(CacheRequest) /\ <<x>> # <<>> /\ <<x>>[1] = x /\ Len(<<x>>) = 1
      BY <2>2
    <2> DEFINE new == <<x>>
    <2>5. \A i \in 2 .. Len(new) : new[i].kind # "push"
      BY <2>4
    <2> HIDE DEF new
    <2> QED
      BY <1>0, <2>2, <2>3, <2>4, <2>5, SetOutKeeps DEF new
  <1>2. CASE \E u \in CUser : usersRemoveUser(u)
    <2>1. PICK u \in CUser : usersRemoveUser(u)
      BY <1>2
    <2> DEFINE x == RemoveUser(u)
    <2>2. x \in CacheRequest /\ x.kind # "push"
      BY RequestsAre
    <2>3. /\ toSend = <<>> /\ toSend' = <<x>> /\ receipts' = receipts
          /\ UNCHANGED <<unreadRows, updates, usersCache, buffers, waiting, pending, reads, pushed, initialised>>
      BY <2>1 DEF usersRemoveUser
    <2> HIDE DEF x
    <2>4. <<x>> \in Seq(CacheRequest) /\ <<x>> # <<>> /\ <<x>>[1] = x /\ Len(<<x>>) = 1
      BY <2>2
    <2> DEFINE new == <<x>>
    <2>5. \A i \in 2 .. Len(new) : new[i].kind # "push"
      BY <2>4
    <2> HIDE DEF new
    <2> QED
      BY <1>0, <2>2, <2>3, <2>4, <2>5, SetOutKeeps DEF new
  <1>3. CASE pushForData
    <2> DEFINE x == Receipt(receipts + 1, CUser, 1)
    <2>2. x \in CacheRequest /\ x.kind = "push" /\ x.id = receipts + 1
      BY <1>0, RequestsAre
    <2>3. /\ toSend = <<>> /\ toSend' = <<x>> /\ receipts' = receipts + 1
          /\ unreadRows' = [u \in CUser |-> unreadRows[u] + 1]
          /\ UNCHANGED <<updates, usersCache, buffers, waiting, pending, reads, pushed, initialised>>
      BY <1>3 DEF pushForData
    <2>4. unreadRows' \in [CUser -> Int]
      BY <1>0, <2>3
    <2> HIDE DEF x
    <2>5. <<x>> \in Seq(CacheRequest) /\ <<x>> # <<>> /\ <<x>>[1] = x /\ Len(<<x>>) = 1
      BY <2>2
    <2> DEFINE new == <<x>>
    <2>6. \A i \in 2 .. Len(new) : new[i].kind # "push"
      BY <2>5
    <2> HIDE DEF new
    <2> QED
      BY <2>2, <2>3, <2>4, <2>5, <2>6, SetOutKeeps DEF new
  <1>4. CASE \E u \in CUser, n \in 1 .. MaxUnread : noteRead(u, n)
    <2>1. PICK u \in CUser, n \in 1 .. MaxUnread : noteRead(u, n)
      BY <1>4
    <2> DEFINE x == Receipt(receipts + 1, {u}, 0)  y == Delta(u, -n)
    <2>2. n \in Int /\ -n \in Int /\ {u} \in SUBSET CUser
      BY CacheAssumption
    <2>3. x \in CacheRequest /\ x.kind = "push" /\ x.id = receipts + 1 /\ y \in CacheRequest /\ y.kind # "push"
      BY <1>0, <2>2, RequestsAre
    <2>4. /\ toSend = <<>> /\ toSend' = <<x, y>> /\ receipts' = receipts + 1
          /\ unreadRows' = [unreadRows EXCEPT ![u] = @ - n]
          /\ UNCHANGED <<updates, usersCache, buffers, waiting, pending, reads, pushed, initialised>>
      BY <2>1 DEF noteRead
    <2>5. unreadRows' \in [CUser -> Int]
      BY <1>0, <2>2, <2>4
    <2> HIDE DEF x, y
    <2> DEFINE new == <<x, y>>
    <2>6. new \in Seq(CacheRequest) /\ new # <<>> /\ new[1] = x /\ new[2] = y /\ Len(new) = 2
      BY <2>3
    <2> HIDE DEF new
    <2>7. \A i \in 2 .. Len(new) : new[i].kind # "push"
      BY <2>3, <2>6
    <2>8. toSend' = new
      BY <2>4 DEF new
    <2> QED
      BY <2>3, <2>4, <2>5, <2>6, <2>7, <2>8, SetOutKeeps
  <1> QED
    BY <1>1, <1>2, <1>3, <1>4

\* A request goes into the queue, or is dropped.
LEMMA SendKeeps == ASSUME CacheInv, sendRequest PROVE CacheInv'
  <1> DEFINE x == Head(toSend)
  <1>1. /\ toSend # <<>> /\ toSend' = Tail(toSend)
        /\ updates' = Append(updates, x) \/ updates' = updates
        /\ UNCHANGED <<unreadRows, usersCache, buffers, waiting, pending, reads, pushed, receipts, initialised>>
    BY DEF sendRequest
  <1>2. toSend \in Seq(CacheRequest) /\ updates \in Seq(CacheRequest) /\ receipts \in Nat
    BY DEF CacheInv, CacheTypes
  <1>3. /\ x \in CacheRequest /\ Tail(toSend) \in Seq(CacheRequest) /\ Len(Tail(toSend)) = Len(toSend) - 1
        /\ \A i \in 1 .. Len(toSend) - 1 : Tail(toSend)[i] = toSend[i + 1]
    BY <1>1, <1>2, PopIs
  <1>4. CacheTypes'
    <2>1. updates' \in Seq(CacheRequest)
      BY SMTT(30), <1>1, <1>2, <1>3
    <2> QED
      BY <1>1, <1>3, <2>1 DEF CacheInv, CacheTypes
  <1>5. /\ ReadsApart' /\ SetOnce' /\ PushedOnce' /\ ReceiptsAreCounted'
    BY <1>1 DEF CacheInv, ReadsApart, SetOnce, PushedOnce, ReceiptsAreCounted, Known, InCache
  <1>6. \A y \in Nat : Handled(y)' <=> Handled(y)
    BY <1>1 DEF Handled
  <1>7. \A i \in 1 .. Len(toSend') : toSend'[i].kind # "push"
    <2> SUFFICES ASSUME NEW i \in 1 .. Len(toSend') PROVE toSend'[i].kind # "push"
      OBVIOUS
    <2>1. i + 1 \in 2 .. Len(toSend) /\ toSend'[i] = toSend[i + 1]
      BY <1>1, <1>2, <1>3
    <2> QED
      BY <2>1 DEF CacheInv, ReceiptsInOrder
  <1>8. toSend' # <<>> => Head(toSend').kind # "push"
    <2> SUFFICES ASSUME toSend' # <<>> PROVE Head(toSend').kind # "push"
      OBVIOUS
    <2>1. Head(toSend') = toSend'[1] /\ 1 \in 1 .. Len(toSend')
      BY <1>1, <1>3, PopIs
    <2> QED
      BY <1>7, <2>1
  <1>9. Newest' = receipts /\ Newest = (IF x.kind = "push" THEN receipts - 1 ELSE receipts)
    BY <1>1, <1>8 DEF Newest
  <1>10. /\ x.kind = "push" => x.id = receipts /\ receipts # 0
         /\ \A i \in 1 .. Len(updates) : updates[i].kind = "push" => updates[i].id <= Newest
         /\ \A i, j \in 1 .. Len(updates) :
              i < j /\ updates[i].kind = "push" /\ updates[j].kind = "push" => updates[i].id < updates[j].id
         /\ \A y \in Nat : Handled(y) =>
              y <= Newest /\ \A i \in 1 .. Len(updates) : updates[i].kind = "push" => y < updates[i].id
    BY <1>1 DEF CacheInv, ReceiptsInOrder
  <1>11. \A i \in 1 .. Len(updates) : updates[i].kind = "push" => updates[i].id \in Nat
    BY <1>2, RequestIs
  <1>12. CASE updates' = updates
    <2>1. \A i \in 1 .. Len(updates) : updates[i].kind = "push" => updates[i].id <= Newest'
      BY <1>2, <1>9, <1>10, <1>11
    <2>2. \A y \in Nat : Handled(y) => y <= Newest'
      BY <1>2, <1>9, <1>10
    <2>3. ReceiptsInOrder'
      BY <1>6, <1>7, <1>8, <1>10, <1>12, <2>1, <2>2 DEF ReceiptsInOrder
    <2> QED
      BY <1>4, <1>5, <2>3 DEF CacheInv
  <1>13. CASE updates' = Append(updates, x)
    <2>1. /\ Len(updates') = Len(updates) + 1 /\ updates'[Len(updates) + 1] = x /\ Len(updates) \in Nat
          /\ \A i \in 1 .. Len(updates) : updates'[i] = updates[i]
      BY <1>2, <1>3, <1>13
    <2> HIDE DEF x
    <2>2. ASSUME NEW i \in 1 .. Len(updates'), updates'[i].kind = "push"
          PROVE  updates'[i].id <= Newest'
      <3>1. CASE i = Len(updates) + 1
        BY <1>2, <1>9, <1>10, <2>1, <2>2, <3>1
      <3>2. CASE i \in 1 .. Len(updates)
        BY <1>2, <1>9, <1>10, <1>11, <2>1, <2>2, <3>2
      <3> QED
        BY <2>1, <3>1, <3>2
    <2>3. ASSUME NEW i \in 1 .. Len(updates'), NEW j \in 1 .. Len(updates'), i < j,
                 updates'[i].kind = "push", updates'[j].kind = "push"
          PROVE  updates'[i].id < updates'[j].id
      <3>1. i \in 1 .. Len(updates) /\ updates'[i] = updates[i] /\ updates[i].id \in Nat
        BY <1>11, <2>1, <2>3
      <3>2. CASE j = Len(updates) + 1
        BY <1>2, <1>9, <1>10, <2>1, <2>3, <3>1, <3>2
      <3>3. CASE j \in 1 .. Len(updates)
        BY <1>10, <2>1, <2>3, <3>1, <3>3
      <3> QED
        BY <2>1, <3>2, <3>3
    <2>4. ASSUME NEW y \in Nat, Handled(y)
          PROVE  y <= Newest' /\ \A i \in 1 .. Len(updates') : updates'[i].kind = "push" => y < updates'[i].id
      <3>1. y <= Newest /\ y <= Newest'
        BY <1>2, <1>9, <1>10, <2>4
      <3>2. ASSUME NEW i \in 1 .. Len(updates'), updates'[i].kind = "push" PROVE y < updates'[i].id
        <4>1. CASE i = Len(updates) + 1
          BY <1>2, <1>9, <1>10, <2>1, <3>1, <3>2, <4>1
        <4>2. CASE i \in 1 .. Len(updates)
          BY <1>10, <2>1, <2>4, <3>2, <4>2
        <4> QED
          BY <2>1, <4>1, <4>2
      <3> QED
        BY <3>1, <3>2
    <2>5. ReceiptsInOrder'
      BY <1>6, <1>7, <1>8, <2>2, <2>3, <2>4 DEF ReceiptsInOrder
    <2> QED
      BY <1>4, <1>5, <2>5 DEF CacheInv
  <1> QED
    BY <1>1, <1>12, <1>13

\* The cache takes the oldest request: the receipts it knows of stay the oldest.
LEMMA TakesInOrder ==
    ASSUME CacheInv, updates # <<>>, updates' = Tail(updates), UNCHANGED <<toSend, receipts>>,
           \A x \in Nat : Handled(x)' => Handled(x) \/ (Head(updates).kind = "push" /\ x = Head(updates).id)
    PROVE  ReceiptsInOrder' /\ updates' \in Seq(CacheRequest)
  <1>1. updates \in Seq(CacheRequest) /\ receipts \in Nat
    BY DEF CacheInv, CacheTypes
  <1>2. /\ updates' \in Seq(CacheRequest) /\ Head(updates) = updates[1] /\ Len(updates) \in Nat \ {0}
        /\ Len(updates') = Len(updates) - 1
        /\ \A i \in 1 .. Len(updates) - 1 : updates'[i] = updates[i + 1]
    BY <1>1, PopIs
  <1>3. Newest' = Newest
    BY DEF Newest
  <1>4. \A i \in 1 .. Len(updates') : i + 1 \in 1 .. Len(updates) /\ updates'[i] = updates[i + 1]
    BY <1>2
  <1>5. \A i \in 1 .. Len(updates') : updates'[i].kind = "push" => updates'[i].id <= Newest'
    BY <1>3, <1>4 DEF CacheInv, ReceiptsInOrder
  <1>6. ASSUME NEW i \in 1 .. Len(updates'), NEW j \in 1 .. Len(updates'), i < j,
               updates'[i].kind = "push", updates'[j].kind = "push"
        PROVE  updates'[i].id < updates'[j].id
    <2> DEFINE k == i + 1  m == j + 1
    <2>1. /\ k \in 1 .. Len(updates) /\ m \in 1 .. Len(updates) /\ k < m
          /\ updates'[i] = updates[k] /\ updates'[j] = updates[m]
      BY <1>4, <1>6
    <2> HIDE DEF k, m
    <2>2. updates[k].id < updates[m].id
      BY <1>6, <2>1 DEF CacheInv, ReceiptsInOrder
    <2> QED
      BY <2>1, <2>2
  <1>7. ASSUME NEW x \in Nat, Handled(x)'
        PROVE  x <= Newest' /\ \A i \in 1 .. Len(updates') : updates'[i].kind = "push" => x < updates'[i].id
    <2>1. CASE Handled(x)
      BY <1>3, <1>4, <2>1 DEF CacheInv, ReceiptsInOrder
    <2>2. CASE updates[1].kind = "push" /\ x = updates[1].id
      <3>1. 1 \in 1 .. Len(updates) /\ \A i \in 1 .. Len(updates') : 1 < i + 1
        BY <1>2
      <3> QED
        BY <1>3, <1>4, <2>2, <3>1 DEF CacheInv, ReceiptsInOrder
    <2> QED
      BY <1>2, <1>7, <2>1, <2>2
  <1>8. /\ toSend' # <<>> /\ Head(toSend').kind = "push" => Head(toSend').id = receipts' /\ receipts' # 0
        /\ \A i \in 2 .. Len(toSend') : toSend'[i].kind # "push"
    BY DEF CacheInv, ReceiptsInOrder
  <1>9. ReceiptsInOrder'
    BY <1>5, <1>6, <1>7, <1>8 DEF ReceiptsInOrder
  <1> QED
    BY <1>2, <1>9

\* A step that takes no request and makes no receipt keeps their order.
LEMMA StaysInOrder ==
    ASSUME CacheInv, UNCHANGED <<updates, toSend, receipts>>, \A x \in Nat : Handled(x)' => Handled(x)
    PROVE  ReceiptsInOrder'
  BY DEF CacheInv, ReceiptsInOrder, Newest

\* unreadUpdater: of the counters that are asked for, those that are not known are read unless a
\* read of them is under way.
LEMMA UpdaterIs ==
    ASSUME CacheInv, NEW us \in SUBSET CUser, NEW n \in Int, unreadUpdater(us, n)
    PROVE  /\ usersCache' \in [CUser -> CacheEntry] /\ buffers' \in [CUser -> CacheBuffer]
           /\ reads' \subseteq CacheRead /\ (\A d \in reads' : d.state = "read" => d.counts \in [d.users -> Int])
           /\ ReadsApart'
           /\ \A u \in CUser : (Known(u)' => ~buffers'[u].on) /\ (~InCache(u)' => usersCache'[u].unread < 0)
  <1> DEFINE asked == {u \in us : Starts(u)}
             new == [users |-> asked, state |-> "asked", counts |-> NotRead]
  <1>1. new \in CacheRead /\ new.users = asked /\ new.state = "asked"
    <2>1. NotRead \in CacheCounts
      BY DEF NotRead, CacheCounts
    <2> QED
      BY <2>1 DEF CacheRead
  <1>2. \A d : d \in reads' <=> d \in reads \/ (asked # {} /\ d = new)
    BY DEF unreadUpdater, NewRead
  <1>3. usersCache \in [CUser -> CacheEntry] /\ buffers \in [CUser -> CacheBuffer]
    BY DEF CacheInv, CacheTypes
  <1>4. ASSUME NEW u \in CUser
        PROVE  buffers'[u] \in CacheBuffer /\ (buffers'[u].on <=> buffers[u].on \/ u \in asked)
    <2>1. buffers'[u] = IF u \notin us \/ ~InCache(u) \/ Known(u) THEN buffers[u]
                        ELSE IF Starts(u) THEN [on |-> TRUE, sum |-> 0] ELSE [buffers[u] EXCEPT !.sum = @ + n]
      BY DEF unreadUpdater, UpdatedBuffers
    <2>2. buffers[u] \in CacheBuffer /\ usersCache[u].unread \in Int
      BY <1>3 DEF CacheEntry
    <2>3. Starts(u) => InCache(u) /\ ~Known(u)
      BY <2>2 DEF Starts, Known
    <2>4. CASE u \notin us \/ ~InCache(u) \/ Known(u)
      BY <2>1, <2>2, <2>3, <2>4
    <2>5. CASE u \in us /\ InCache(u) /\ ~Known(u) /\ Starts(u)
      BY <2>1, <2>5 DEF CacheBuffer
    <2>6. CASE u \in us /\ InCache(u) /\ ~Known(u) /\ ~Starts(u)
      <3>1. buffers'[u] = [buffers[u] EXCEPT !.sum = @ + n]
        BY <2>1, <2>6
      <3>2. buffers'[u] \in CacheBuffer /\ buffers'[u].on = buffers[u].on
        BY <2>2, <3>1 DEF CacheBuffer
      <3> QED
        BY <2>6, <3>2
    <2> QED
      BY <2>4, <2>5, <2>6
  <1>5. ASSUME NEW u \in CUser
        PROVE  /\ usersCache'[u] \in CacheEntry /\ (InCache(u)' <=> InCache(u))
               /\ ~Known(u) => usersCache'[u] = usersCache[u]
    <2>1. usersCache'[u] = IF u \in us /\ Known(u) THEN [usersCache[u] EXCEPT !.unread = @ + n] ELSE usersCache[u]
      BY DEF unreadUpdater, UpdatedCache
    <2>2. usersCache[u] \in CacheEntry
      BY <1>3
    <2> QED
      BY <2>1, <2>2 DEF CacheEntry, InCache
  <1>6. usersCache' \in [CUser -> CacheEntry] /\ buffers' \in [CUser -> CacheBuffer]
    <2>1. usersCache' = [u \in CUser |-> usersCache'[u]] /\ buffers' = [u \in CUser |-> buffers'[u]]
      BY DEF unreadUpdater, UpdatedCache, UpdatedBuffers
    <2> QED
      BY <1>4, <1>5, <2>1
  <1>7. ASSUME NEW u \in CUser
        PROVE  (Known(u)' => ~buffers'[u].on) /\ (~InCache(u)' => usersCache'[u].unread < 0)
    <2>1. usersCache[u].unread \in Int
      BY <1>3 DEF CacheEntry
    <2>2. Known(u)' => Known(u)
      BY <1>5 DEF Known, InCache
    <2>3. Known(u) => u \notin asked
      BY <2>1 DEF Known, Starts
    <2>4. ~InCache(u) => ~Known(u)
      BY DEF Known
    <2> QED
      BY <1>4, <1>5, <2>2, <2>3, <2>4 DEF CacheInv, SetOnce
  <1>8. \A u \in asked : u \in CUser /\ ~buffers[u].on
    BY DEF Starts
  <1> HIDE DEF new, asked
  <1>9. /\ reads' \subseteq CacheRead
        /\ \A d \in reads' : d.state = "read" => d.counts \in [d.users -> Int]
    BY <1>1, <1>2 DEF CacheInv, CacheTypes
  <1>10. ReadsApart'
    <2>1. ASSUME NEW d \in reads', NEW e \in reads', d # e PROVE d.users \cap e.users = {}
      <3>1. CASE d \in reads /\ e \in reads
        BY <2>1, <3>1 DEF CacheInv, ReadsApart
      <3>2. CASE d = new /\ e \in reads
        BY <1>1, <1>8, <3>2 DEF CacheInv, ReadsApart
      <3>3. CASE d \in reads /\ e = new
        BY <1>1, <1>8, <3>3 DEF CacheInv, ReadsApart
      <3> QED
        BY <1>2, <2>1, <3>1, <3>2, <3>3
    <2>2. ASSUME NEW u \in CUser PROVE buffers'[u].on <=> \E d \in reads' : u \in d.users
      <3>1. buffers[u].on <=> \E d \in reads : u \in d.users
        BY DEF CacheInv, ReadsApart
      <3>2. (\E d \in reads' : u \in d.users) <=> (\E d \in reads : u \in d.users) \/ u \in asked
        BY <1>1, <1>2
      <3> QED
        BY <1>4, <3>1, <3>2
    <2> QED
      BY <2>1, <2>2 DEF ReadsApart
  <1> QED
    BY <1>6, <1>7, <1>9, <1>10

\* An update of a counter.
LEMMA UpdateUnreadKeeps == ASSUME CacheInv, updateUnread PROVE CacheInv'
  <1> DEFINE x == Head(updates)
  <1>1. /\ updates # <<>> /\ x.kind = "unread" /\ unreadUpdater({x.user}, x.val) /\ updates' = Tail(updates)
        /\ UNCHANGED <<unreadRows, toSend, waiting, pending, pushed, receipts, initialised>>
    BY DEF updateUnread
  <1>2. {x.user} \in SUBSET CUser /\ x.val \in Int
    <2>1. x \in CacheRequest
      BY <1>1, PopIs DEF CacheInv, CacheTypes
    <2> QED
      BY <1>1, <2>1, RequestIs
  <1> HIDE DEF x
  <1>3. /\ usersCache' \in [CUser -> CacheEntry] /\ buffers' \in [CUser -> CacheBuffer]
        /\ reads' \subseteq CacheRead /\ (\A d \in reads' : d.state = "read" => d.counts \in [d.users -> Int])
        /\ ReadsApart'
        /\ \A u \in CUser : (Known(u)' => ~buffers'[u].on) /\ (~InCache(u)' => usersCache'[u].unread < 0)
    BY <1>1, <1>2, UpdaterIs
  <1>4. \A y \in Nat : Handled(y)' => Handled(y)
    BY <1>1 DEF Handled
  <1>5. ReceiptsInOrder' /\ updates' \in Seq(CacheRequest)
    BY <1>1, <1>4, TakesInOrder
  <1>6. CacheTypes'
    BY <1>1, <1>3, <1>5 DEF CacheInv, CacheTypes
  <1>7. SetOnce'
    BY <1>1, <1>3 DEF CacheInv, SetOnce
  <1>8. PushedOnce' /\ ReceiptsAreCounted'
    BY <1>1 DEF CacheInv, PushedOnce, ReceiptsAreCounted
  <1> QED
    BY <1>3, <1>5, <1>6, <1>7, <1>8 DEF CacheInv

\* Topics are counted, users leave: no counter becomes known.
LEMMA UpdateTopicKeeps == ASSUME CacheInv, updateTopic \/ updateGone PROVE CacheInv'
  <1>1. /\ updates # <<>> /\ updates' = Tail(updates)
        /\ UNCHANGED <<unreadRows, toSend, buffers, waiting, pending, reads, pushed, receipts, initialised>>
    BY DEF updateTopic, updateGone
  <1>2. usersCache \in [CUser -> CacheEntry] /\ Head(updates) \in CacheRequest
    BY <1>1, PopIs DEF CacheInv, CacheTypes
  <1>3. NotCached \in CacheEntry /\ NotCached.unread = -1 /\ NotCached.topics = 0
    BY DEF NotCached, CacheEntry
  <1>4. /\ usersCache' \in [CUser -> CacheEntry]
        /\ \A u \in CUser : \/ usersCache'[u] = NotCached \/ usersCache'[u] = usersCache[u]
                            \/ usersCache'[u] = [usersCache[u] EXCEPT !.topics = @ + 1]
                            \/ /\ usersCache[u].topics > 1
                               /\ usersCache'[u] = [usersCache[u] EXCEPT !.topics = @ - 1]
    <2>1. CASE updateTopic
      <3>1. usersCache' = [u \in CUser |-> IF Head(updates).inc THEN [usersCache[u] EXCEPT !.topics = @ + 1]
                              ELSE IF usersCache[u].topics > 1 THEN [usersCache[u] EXCEPT !.topics = @ - 1]
                              ELSE NotCached]
        BY <2>1 DEF updateTopic
      <3>2. \A u \in CUser : /\ [usersCache[u] EXCEPT !.topics = @ + 1] \in CacheEntry
                             /\ [usersCache[u] EXCEPT !.topics = @ - 1] \in CacheEntry
        BY <1>2 DEF CacheEntry
      <3> QED
        BY <1>3, <3>1, <3>2
    <2>2. CASE updateGone
      BY <1>2, <1>3, <2>2 DEF updateGone
    <2> QED
      BY <2>1, <2>2
  <1>5. ASSUME NEW u \in CUser
        PROVE  (Known(u)' => ~buffers'[u].on) /\ (~InCache(u)' => usersCache'[u].unread < 0)
    <2>1. /\ usersCache[u] \in CacheEntry /\ usersCache[u].unread \in Int /\ usersCache[u].topics \in Int
      BY <1>2 DEF CacheEntry
    <2>2. (Known(u) => ~buffers[u].on) /\ (~InCache(u) => usersCache[u].unread < 0) /\ buffers' = buffers
      BY <1>1 DEF CacheInv, SetOnce
    <2>3. CASE usersCache'[u] = NotCached
      BY <1>3, <2>3 DEF Known, InCache
    <2>4. CASE usersCache'[u] = usersCache[u]
      BY <2>2, <2>4 DEF Known, InCache
    <2>5. CASE usersCache'[u] = [usersCache[u] EXCEPT !.topics = @ + 1]
      <3>1. usersCache'[u].unread = usersCache[u].unread /\ usersCache'[u].topics = usersCache[u].topics + 1
        BY <2>1, <2>5 DEF CacheEntry
      <3> QED
        BY <2>1, <2>2, <3>1 DEF Known, InCache
    <2>6. CASE usersCache[u].topics > 1 /\ usersCache'[u] = [usersCache[u] EXCEPT !.topics = @ - 1]
      <3>1. usersCache'[u].unread = usersCache[u].unread /\ usersCache'[u].topics = usersCache[u].topics - 1
        BY <2>1, <2>6 DEF CacheEntry
      <3> QED
        BY <2>1, <2>2, <2>6, <3>1 DEF Known, InCache
    <2> QED
      BY <1>4, <2>3, <2>4, <2>5, <2>6
  <1>6. \A y \in Nat : Handled(y)' => Handled(y)
    BY <1>1 DEF Handled
  <1>7. ReceiptsInOrder' /\ updates' \in Seq(CacheRequest)
    BY <1>1, <1>6, TakesInOrder
  <1>8. CacheTypes'
    BY <1>1, <1>4, <1>7 DEF CacheInv, CacheTypes
  <1>9. SetOnce'
    BY <1>1, <1>5 DEF CacheInv, SetOnce
  <1>10. ReadsApart' /\ PushedOnce' /\ ReceiptsAreCounted'
    BY <1>1 DEF CacheInv, ReadsApart, PushedOnce, ReceiptsAreCounted
  <1> QED
    BY <1>7, <1>8, <1>9, <1>10 DEF CacheInv

\* A receipt that the cache takes is new to it.
LEMMA HeadIsNew ==
    ASSUME CacheInv, updates # <<>>, Head(updates).kind = "push"
    PROVE  /\ Head(updates).id \in Nat /\ Head(updates).to \in SUBSET CUser /\ Head(updates).val \in Int
           /\ ~Handled(Head(updates).id)
  <1>1. /\ updates \in Seq(CacheRequest) /\ Head(updates) \in CacheRequest /\ Head(updates) = updates[1]
        /\ 1 \in 1 .. Len(updates)
    BY PopIs DEF CacheInv, CacheTypes
  <1>2. Head(updates).id \in Nat /\ Head(updates).to \in SUBSET CUser /\ Head(updates).val \in Int
    BY <1>1, RequestIs
  <1>3. \A x \in Nat : Handled(x) => x < updates[1].id
    BY <1>1 DEF CacheInv, ReceiptsInOrder
  <1> QED
    BY <1>1, <1>2, <1>3

\* A receipt is pushed, or waits for the counters of its users that are not known.
LEMMA UpdatePushKeeps == ASSUME CacheInv, updatePush PROVE CacheInv'
  <1> DEFINE r == Head(updates)
             held == {u \in r.to : InCache(u) /\ ~Known(u)}
             id == r.id
             p0 == [id |-> r.id, to |-> r.to, ios |-> Cardinality(held)]
             s0 == [id |-> r.id, unread |-> Carried(usersCache', r.to)]
  <1>1. /\ updates # <<>> /\ r.kind = "push" /\ unreadUpdater(r.to, r.val) /\ updates' = Tail(updates)
        /\ UNCHANGED <<unreadRows, toSend, receipts, initialised>>
    BY DEF updatePush
  <1>2. \/ held = {} /\ pushed' = pushed \union {s0} /\ UNCHANGED <<waiting, pending>>
        \/ /\ held # {} /\ pending' = pending \union {p0} /\ UNCHANGED pushed
           /\ waiting' = [u \in CUser |-> IF u \in held THEN waiting[u] \union {id} ELSE waiting[u]]
    BY DEF updatePush
  <1>3. /\ id \in Nat /\ r.to \in SUBSET CUser /\ r.val \in Int /\ ~Handled(id)
    BY <1>1, HeadIsNew
  <1>4. /\ usersCache' \in [CUser -> CacheEntry] /\ buffers' \in [CUser -> CacheBuffer]
        /\ reads' \subseteq CacheRead /\ (\A d \in reads' : d.state = "read" => d.counts \in [d.users -> Int])
        /\ ReadsApart'
        /\ \A u \in CUser : (Known(u)' => ~buffers'[u].on) /\ (~InCache(u)' => usersCache'[u].unread < 0)
    BY <1>1, <1>3, UpdaterIs
  <1>5. /\ \A p \in pending : p.id # id
        /\ \A p \in pushed : p.id # id
        /\ \A u \in CUser : id \notin waiting[u]
    BY <1>3 DEF Handled
  <1>6. held \in SUBSET CUser /\ IsFiniteSet(held) /\ Cardinality(held) \in Nat /\ (held # {} => Cardinality(held) > 0)
    <2>1. held \in SUBSET CUser
      BY <1>3
    <2> HIDE DEF held
    <2>2. IsFiniteSet(held)
      BY <2>1, CacheAssumption, FS_Subset
    <2>3. Cardinality(held) \in Nat /\ (Cardinality(held) = 0 <=> held = {})
      BY <2>2, FS_CardinalityType, FS_EmptySet
    <2> QED
      BY <2>1, <2>2, <2>3
  <1>7. p0 \in PendingReceipt /\ p0.id = id /\ p0.ios = Cardinality(held) /\ s0.id = id
    BY <1>3, <1>6 DEF PendingReceipt
  <1>8. waiting \in [CUser -> SUBSET Nat] /\ pending \subseteq PendingReceipt
    BY DEF CacheInv, CacheTypes
  <1>9. SetOnce'
    BY <1>1, <1>4 DEF CacheInv, SetOnce
  <1> HIDE DEF p0, s0, held
  <1>10. CASE held = {} /\ pushed' = pushed \union {s0} /\ UNCHANGED <<waiting, pending>>
    <2>1. \A y \in Nat : Handled(y)' => Handled(y) \/ y = id
      BY <1>7, <1>10 DEF Handled
    <2>2. ReceiptsInOrder' /\ updates' \in Seq(CacheRequest)
      BY <1>1, <2>1, TakesInOrder
    <2>3. CacheTypes'
      BY <1>1, <1>4, <1>10, <2>2 DEF CacheInv, CacheTypes
    <2>4. PushedOnce'
      BY <1>3, <1>5, <1>7, <1>10 DEF CacheInv, PushedOnce
    <2>5. ReceiptsAreCounted'
      BY <1>5, <1>7, <1>10 DEF CacheInv, ReceiptsAreCounted
    <2> QED
      BY <1>4, <1>9, <2>2, <2>3, <2>4, <2>5 DEF CacheInv
  <1>11. CASE /\ held # {} /\ pending' = pending \union {p0} /\ UNCHANGED pushed
              /\ waiting' = [u \in CUser |-> IF u \in held THEN waiting[u] \union {id} ELSE waiting[u]]
    <2> HIDE DEF id
    <2>1. /\ waiting' \in [CUser -> SUBSET Nat]
          /\ \A u \in CUser : \A y : y \in waiting'[u] <=> y \in waiting[u] \/ (u \in held /\ y = id)
      BY <1>3, <1>8, <1>11
    <2>2. \A y \in Nat : Handled(y)' => Handled(y) \/ y = id
      BY <1>7, <1>11, <2>1 DEF Handled
    <2>3. ReceiptsInOrder' /\ updates' \in Seq(CacheRequest)
      BY <1>1, <2>2, TakesInOrder DEF id
    <2>4. CacheTypes'
      BY <1>1, <1>4, <1>7, <1>8, <1>11, <2>1, <2>3 DEF CacheInv, CacheTypes
    <2>5. PushedOnce'
      BY <1>5, <1>7, <1>11 DEF CacheInv, PushedOnce
    <2>6. ReceiptsAreCounted'
      <3>1. ASSUME NEW p \in pending PROVE p.ios = Cardinality({u \in CUser : p.id \in waiting'[u]}) /\ p.ios > 0
        <4>1. {u \in CUser : p.id \in waiting'[u]} = {u \in CUser : p.id \in waiting[u]}
          BY <1>5, <2>1
        <4> QED
          BY <4>1 DEF CacheInv, ReceiptsAreCounted
      <3>2. p0.ios = Cardinality({u \in CUser : p0.id \in waiting'[u]}) /\ p0.ios > 0
        <4>1. {u \in CUser : id \in waiting'[u]} = held
          BY <1>5, <1>6, <2>1
        <4> QED
          BY <1>6, <1>7, <1>11, <4>1
      <3>3. \A u \in CUser, p \in pushed' : p.id \notin waiting'[u]
        BY <1>5, <1>11, <2>1 DEF CacheInv, ReceiptsAreCounted
      <3> QED
        BY <1>11, <3>1, <3>2, <3>3 DEF ReceiptsAreCounted
    <2> QED
      BY <1>4, <1>9, <2>3, <2>4, <2>5, <2>6 DEF CacheInv
  <1> QED
    BY <1>2, <1>10, <1>11

\* A read of the database is answered.
LEMMA ReadRowsKeeps == ASSUME CacheInv, NEW d \in reads, readRows(d) PROVE CacheInv'
  <1>1. UNCHANGED <<unreadRows, toSend, updates, usersCache, buffers, waiting, pending, pushed, receipts, initialised>>
    BY DEF readRows
  <1>2. d \in CacheRead /\ d.users \in SUBSET CUser /\ unreadRows \in [CUser -> Int]
    BY DEF CacheInv, CacheTypes, CacheRead
  <1> DEFINE counts == [u \in d.users |-> unreadRows[u]]
  <1>3. counts \in [d.users -> Int] /\ counts \in CacheCounts
    BY <1>2 DEF CacheCounts
  <1>4. PICK e \in CacheRead : /\ reads' = (reads \ {d}) \union {e} /\ e.users = d.users
                               /\ e.state = "read" => e.counts \in [e.users -> Int]
    <2>1. CASE reads' = (reads \ {d}) \union {[d EXCEPT !.state = "read", !.counts = counts]}
      <3> DEFINE e == [d EXCEPT !.state = "read", !.counts = counts]
      <3>1. e \in CacheRead /\ e.users = d.users /\ e.counts = counts
        BY <1>2, <1>3 DEF CacheRead
      <3> QED
        BY <1>3, <2>1, <3>1
    <2>2. CASE reads' = (reads \ {d}) \union {[d EXCEPT !.state = "failed"]}
      <3> DEFINE e == [d EXCEPT !.state = "failed"]
      <3>1. e \in CacheRead /\ e.users = d.users /\ e.state = "failed"
        BY <1>2 DEF CacheRead
      <3> QED
        BY <2>2, <3>1
    <2> QED
      BY <2>1, <2>2 DEF readRows
  <1>5. CacheTypes'
    BY <1>1, <1>4 DEF CacheInv, CacheTypes
  <1>6. ReadsApart'
    <2>1. \A a, b \in reads' : a # b => a.users \cap b.users = {}
      BY <1>4 DEF CacheInv, ReadsApart
    <2>2. ASSUME NEW u \in CUser PROVE (\E a \in reads' : u \in a.users) <=> (\E a \in reads : u \in a.users)
      BY <1>4
    <2> QED
      BY <1>1, <2>1, <2>2 DEF CacheInv, ReadsApart
  <1>7. SetOnce' /\ PushedOnce' /\ ReceiptsAreCounted'
    BY <1>1 DEF CacheInv, SetOnce, PushedOnce, ReceiptsAreCounted, Known, InCache
  <1>8. ReceiptsInOrder'
    BY <1>1, StaysInOrder DEF Handled
  <1> QED
    BY <1>5, <1>6, <1>7, <1>8 DEF CacheInv

\* The read of some counters is over, and so is the buffering of their updates.
LEMMA ReadEnds ==
    ASSUME CacheInv, NEW d \in reads, reads' = reads \ {d},
           buffers' = [u \in CUser |-> IF u \in d.users THEN NoBuffer ELSE buffers[u]]
    PROVE  /\ ReadsApart' /\ buffers' \in [CUser -> CacheBuffer]
           /\ \A u \in CUser : (u \in d.users => ~buffers'[u].on) /\ (u \notin d.users => buffers'[u] = buffers[u])
  <1>1. NoBuffer \in CacheBuffer /\ ~NoBuffer.on /\ buffers \in [CUser -> CacheBuffer]
    BY DEF NoBuffer, CacheBuffer, CacheInv, CacheTypes
  <1>2. buffers' \in [CUser -> CacheBuffer]
    BY <1>1
  <1>3. \A u \in CUser : (u \in d.users => ~buffers'[u].on) /\ (u \notin d.users => buffers'[u] = buffers[u])
    BY <1>1
  <1>4. ASSUME NEW u \in CUser PROVE buffers'[u].on <=> \E e \in reads' : u \in e.users
    <2>1. buffers[u].on <=> \E e \in reads : u \in e.users
      BY DEF CacheInv, ReadsApart
    <2>2. CASE u \in d.users
      BY <1>3, <2>2 DEF CacheInv, ReadsApart
    <2>3. CASE u \notin d.users
      BY <1>3, <2>1, <2>3
    <2> QED
      BY <2>2, <2>3
  <1>5. ReadsApart'
    BY <1>4 DEF CacheInv, ReadsApart
  <1> QED
    BY <1>2, <1>3, <1>5

\* After an error the counters stay unknown.
LEMMA IoFailsKeeps == ASSUME CacheInv, NEW d \in reads, ioFails(d) PROVE CacheInv'
  <1>1. /\ reads' = reads \ {d}
        /\ buffers' = [u \in CUser |-> IF u \in d.users THEN NoBuffer ELSE buffers[u]]
        /\ UNCHANGED <<unreadRows, toSend, updates, usersCache, waiting, pending, pushed, receipts, initialised>>
    BY DEF ioFails
  <1>2. /\ ReadsApart' /\ buffers' \in [CUser -> CacheBuffer]
        /\ \A u \in CUser : (u \in d.users => ~buffers'[u].on) /\ (u \notin d.users => buffers'[u] = buffers[u])
    BY <1>1, ReadEnds
  <1>3. CacheTypes'
    BY <1>1, <1>2 DEF CacheInv, CacheTypes
  <1>4. SetOnce'
    BY <1>1, <1>2 DEF CacheInv, SetOnce, Known, InCache
  <1>5. PushedOnce' /\ ReceiptsAreCounted'
    BY <1>1 DEF CacheInv, PushedOnce, ReceiptsAreCounted
  <1>6. ReceiptsInOrder'
    BY <1>1, StaysInOrder DEF Handled
  <1> QED
    BY <1>2, <1>3, <1>4, <1>5, <1>6 DEF CacheInv

\* A receipt that waits for a read that is over waits for as many others as hold it still.
LEMMA ReleasedIs ==
    ASSUME CacheInv, NEW us \in SUBSET CUser, NEW p \in pending,
           waiting' = [u \in CUser |-> IF u \in us THEN {} ELSE waiting[u]]
    PROVE  /\ Released(p, us) \in PendingReceipt /\ Released(p, us).id = p.id /\ Released(p, us).to = p.to
           /\ Released(p, us).ios = Cardinality({u \in CUser : p.id \in waiting'[u]})
           /\ Released(p, us).ios \in Nat
           /\ Released(p, us).ios = 0 => \A u \in CUser : p.id \notin waiting'[u]
  <1> DEFINE S == {u \in CUser : p.id \in waiting[u]}
             W == {u \in us : p.id \in waiting[u]}
             T == {u \in CUser : p.id \in waiting'[u]}
             q == Released(p, us)
  <1>1. p \in PendingReceipt /\ p.ios = Cardinality(S)
    BY DEF CacheInv, CacheTypes, ReceiptsAreCounted
  <1>2. waiting \in [CUser -> SUBSET Nat]
    BY DEF CacheInv, CacheTypes
  <1>3. T = S \ W /\ S \cap W = W /\ S \subseteq CUser
    BY <1>2
  <1>4. q = [p EXCEPT !.ios = p.ios - Cardinality(W)]
    BY DEF Released
  <1> HIDE DEF S, W, T, q
  <1>5. IsFiniteSet(S)
    BY <1>3, CacheAssumption, FS_Subset
  <1>6. IsFiniteSet(T) /\ Cardinality(T) = Cardinality(S) - Cardinality(W)
    <2>1. IsFiniteSet(S \ W) /\ Cardinality(S \ W) = Cardinality(S) - Cardinality(S \cap W)
      BY <1>5, FS_Difference
    <2> QED
      BY <1>3, <2>1
  <1>7. Cardinality(T) \in Nat /\ (Cardinality(T) = 0 <=> T = {})
    BY <1>6, FS_CardinalityType, FS_EmptySet
  <1>8. p.ios - Cardinality(W) = Cardinality(T)
    BY <1>1, <1>6
  <1>9. q \in PendingReceipt /\ q.id = p.id /\ q.to = p.to /\ q.ios = Cardinality(T)
    BY <1>1, <1>4, <1>7, <1>8 DEF PendingReceipt
  <1> QED
    BY <1>7, <1>9 DEF q, T

\* A read is over: counters are set, receipts that wait for nothing else are pushed.
LEMMA IoDoneKeeps == ASSUME CacheInv, NEW d \in reads, ioDone(d) PROVE CacheInv'
  <1> DEFINE us == d.users
             cache == [u \in CUser |-> IF u \in us /\ InCache(u)
                          THEN [usersCache[u] EXCEPT !.unread = d.counts[u] + buffers[u].sum] ELSE usersCache[u]]
             after == {Released(p, us) : p \in pending}
             Sent(q) == [id |-> q.id, unread |-> Carried(cache, q.to)]
  <1>1. /\ d.state = "read" /\ initialised' = (initialised \/ \E u \in us : Known(u))
        /\ usersCache' = cache /\ reads' = reads \ {d}
        /\ waiting' = [u \in CUser |-> IF u \in us THEN {} ELSE waiting[u]]
        /\ pending' = {p \in after : p.ios > 0}
        /\ pushed' = pushed \union {Sent(p) : p \in {q \in after : q.ios = 0}}
        /\ buffers' = [u \in CUser |-> IF u \in us THEN NoBuffer ELSE buffers[u]]
        /\ UNCHANGED <<unreadRows, toSend, updates, receipts>>
    BY DEF ioDone
  <1>2. /\ us \in SUBSET CUser /\ d.counts \in [us -> Int]
        /\ usersCache \in [CUser -> CacheEntry] /\ buffers \in [CUser -> CacheBuffer]
        /\ waiting \in [CUser -> SUBSET Nat]
    BY <1>1 DEF CacheInv, CacheTypes, CacheRead
  <1>3. /\ ReadsApart' /\ buffers' \in [CUser -> CacheBuffer]
        /\ \A u \in CUser : (u \in us => ~buffers'[u].on) /\ (u \notin us => buffers'[u] = buffers[u])
    BY <1>1, ReadEnds
  <1>4. ASSUME NEW u \in CUser
        PROVE  /\ usersCache'[u] \in CacheEntry /\ usersCache'[u].topics = usersCache[u].topics
               /\ u \notin us \/ ~InCache(u) => usersCache'[u] = usersCache[u]
    <2>1. usersCache'[u] = IF u \in us /\ InCache(u)
                           THEN [usersCache[u] EXCEPT !.unread = d.counts[u] + buffers[u].sum] ELSE usersCache[u]
      BY <1>1
    <2>2. usersCache[u] \in CacheEntry /\ buffers[u].sum \in Int
      BY <1>2 DEF CacheBuffer
    <2>3. u \in us => d.counts[u] + buffers[u].sum \in Int
      BY <1>2, <2>2
    <2> QED
      BY <2>1, <2>2, <2>3 DEF CacheEntry
  <1>5. usersCache' \in [CUser -> CacheEntry]
    <2>1. usersCache' = [u \in CUser |-> usersCache'[u]]
      BY <1>1
    <2> QED
      BY <1>4, <2>1
  <1>6. SetOnce'
    <2>1. \A u \in us : buffers[u].on
      BY <1>2 DEF CacheInv, ReadsApart
    <2>2. ~initialised'
      BY <1>1, <1>2, <2>1 DEF CacheInv, SetOnce
    <2>3. ASSUME NEW u \in CUser
          PROVE  (Known(u)' => ~buffers'[u].on) /\ (~InCache(u)' => usersCache'[u].unread < 0)
      <3>1. InCache(u)' <=> InCache(u)
        BY <1>4 DEF InCache
      <3>2. CASE u \in us
        BY <1>3, <1>4, <3>1, <3>2 DEF CacheInv, SetOnce
      <3>3. CASE u \notin us
        <4>1. usersCache'[u] = usersCache[u] /\ buffers'[u] = buffers[u]
          BY <1>3, <1>4, <3>3
        <4> QED
          BY <3>1, <4>1 DEF CacheInv, SetOnce, Known
      <3> QED
        BY <3>2, <3>3
    <2> QED
      BY <2>2, <2>3 DEF SetOnce
  <1>7. \A p \in pending : LET q == Released(p, us) IN
           /\ q \in PendingReceipt /\ q.id = p.id /\ q.to = p.to /\ q.ios \in Nat
           /\ q.ios = Cardinality({u \in CUser : p.id \in waiting'[u]})
           /\ q.ios = 0 => \A u \in CUser : p.id \notin waiting'[u]
    BY <1>1, <1>2, ReleasedIs
  <1>8. \A q \in pending' : \E p \in pending : q = Released(p, us) /\ q.ios > 0
    BY <1>1
  <1>9. \A s \in pushed' : s \in pushed \/ \E p \in pending : s = Sent(Released(p, us)) /\ Released(p, us).ios = 0
    BY <1>1
  <1>10. ASSUME NEW p \in pending PROVE Sent(Released(p, us)).id = p.id
    <2>1. Sent(Released(p, us)).id = Released(p, us).id
      OBVIOUS
    <2> QED
      BY <1>7, <2>1
  <1>11. /\ waiting' \in [CUser -> SUBSET Nat]
         /\ \A u \in CUser : \A y : y \in waiting'[u] => y \in waiting[u]
    BY <1>1, <1>2
  <1> HIDE DEF us, cache, after, Sent
  <1>12. \A q \in pending' : q \in PendingReceipt /\ q.ios > 0 /\ q.ios = Cardinality({u \in CUser : q.id \in waiting'[u]})
    <2> SUFFICES ASSUME NEW q \in pending'
                 PROVE  q \in PendingReceipt /\ q.ios > 0 /\ q.ios = Cardinality({u \in CUser : q.id \in waiting'[u]})
      OBVIOUS
    <2>1. PICK p \in pending : q = Released(p, us) /\ q.ios > 0
      BY <1>8
    <2> QED
      BY <1>7, <2>1
  <1>13. CacheTypes'
    <2>1. reads' \subseteq CacheRead /\ \A e \in reads' : e.state = "read" => e.counts \in [e.users -> Int]
      BY <1>1 DEF CacheInv, CacheTypes
    <2> QED
      BY <1>1, <1>3, <1>5, <1>11, <1>12, <2>1 DEF CacheInv, CacheTypes
  <1>14. ReceiptsAreCounted'
    <2>1. ASSUME NEW u \in CUser, NEW s \in pushed' PROVE s.id \notin waiting'[u]
      <3>1. CASE s \in pushed
        BY <1>11, <3>1 DEF CacheInv, ReceiptsAreCounted
      <3>2. ASSUME NEW p \in pending, s = Sent(Released(p, us)), Released(p, us).ios = 0
            PROVE  s.id \notin waiting'[u]
        BY <1>7, <1>10, <3>2
      <3> QED
        BY <1>9, <3>1, <3>2
    <2> QED
      BY <1>12, <2>1 DEF ReceiptsAreCounted
  <1>15. \A x \in Nat : Handled(x)' => Handled(x)
    <2>1. \A q \in pending' : \E p \in pending : p.id = q.id
      BY <1>7, <1>8
    <2>2. \A s \in pushed' : s \in pushed \/ \E p \in pending : p.id = s.id
      BY <1>9, <1>10
    <2> QED
      BY <1>11, <2>1, <2>2 DEF Handled
  <1>16. ReceiptsInOrder'
    BY <1>1, <1>15, StaysInOrder
  <1>17. PushedOnce'
    <2>0. /\ \A p, q \in pending : p.id = q.id => p = q
          /\ \A p \in pending, q \in pushed : p.id # q.id
          /\ \A p, q \in pushed : p.id = q.id => p = q
          /\ (\A p \in pushed : p.id \in Nat) /\ (\A p \in pending : p.id \in Nat)
      BY DEF CacheInv, CacheTypes, PushedOnce, PendingReceipt
    <2>1. ASSUME NEW p \in pending', NEW q \in pending', p.id = q.id PROVE p = q
      <3>1. PICK a \in pending : p = Released(a, us) /\ p.id = a.id
        BY <1>7, <1>8
      <3>2. PICK b \in pending : q = Released(b, us) /\ q.id = b.id
        BY <1>7, <1>8
      <3> QED
        BY <2>0, <2>1, <3>1, <3>2
    <2>2. ASSUME NEW q \in pending', NEW s \in pushed' PROVE q.id # s.id
      <3>1. PICK p \in pending : q = Released(p, us) /\ q.ios > 0 /\ q.id = p.id
        BY <1>7, <1>8
      <3>2. CASE s \in pushed
        BY <2>0, <3>1, <3>2
      <3>3. ASSUME NEW p2 \in pending, s = Sent(Released(p2, us)), Released(p2, us).ios = 0 PROVE q.id # s.id
        <4>1. s.id = p2.id
          BY <1>10, <3>3
        <4>2. p2 # p
          BY <3>1, <3>3
        <4> QED
          BY <2>0, <3>1, <4>1, <4>2
      <3> QED
        BY <1>9, <3>2, <3>3
    <2>3. ASSUME NEW s \in pushed', NEW t \in pushed', s.id = t.id PROVE s = t
      <3>2. CASE s \in pushed /\ t \in pushed
        BY <2>0, <2>3, <3>2
      <3>3. CASE s \notin pushed /\ t \in pushed
        BY <1>9, <1>10, <2>0, <2>3, <3>3
      <3>4. CASE s \in pushed /\ t \notin pushed
        BY <1>9, <1>10, <2>0, <2>3, <3>4
      <3>5. CASE s \notin pushed /\ t \notin pushed
        BY <1>9, <1>10, <2>0, <2>3, <3>5
      <3> QED
        BY <3>2, <3>3, <3>4, <3>5
    <2>4. \A s \in pushed' : s.id \in Nat
      BY <1>9, <1>10, <2>0
    <2> QED
      BY <2>1, <2>2, <2>3, <2>4 DEF PushedOnce
  <1> QED
    BY <1>3, <1>6, <1>13, <1>14, <1>16, <1>17 DEF CacheInv

\* Every step leaves the invariant true.
LEMMA CacheStepInv == CacheInv /\ [UserCacheNext]_cacheVars => CacheInv'
  <1> SUFFICES ASSUME CacheInv, [UserCacheNext]_cacheVars PROVE CacheInv'
    OBVIOUS
  <1>1. CASE UNCHANGED cacheVars
    BY <1>1 DEF cacheVars, CacheInv, CacheTypes, ReadsApart, SetOnce, ReceiptsInOrder, PushedOnce,
                ReceiptsAreCounted, Known, InCache, Newest, Handled
  <1>2. CASE updaterStep
    BY <1>2, UpdateUnreadKeeps, UpdatePushKeeps, UpdateTopicKeeps, IoDoneKeeps, IoFailsKeeps DEF updaterStep
  <1> QED
    BY <1>1, <1>2, TopicSendsKeeps, SendKeeps, ReadRowsKeeps DEF UserCacheNext

\* BufferIsRead and ReceiptsAreCounted (userUpdater): updates of a counter are buffered exactly
\* while one read of it is under way, and every receipt that waits is counted for the users that
\* hold it, for any number of users, requests and failed reads.
THEOREM CacheIsSafe == UserCacheSpec => []CacheSafe
  <1>1. CacheInv => BufferIsRead
    <2> SUFFICES ASSUME CacheInv, NEW u \in CUser
                 PROVE  Cardinality({d \in reads : u \in d.users}) = IF buffers[u].on THEN 1 ELSE 0
      BY DEF BufferIsRead
    <2>1. CASE buffers[u].on
      <3>1. PICK d \in reads : u \in d.users
        BY <2>1 DEF CacheInv, ReadsApart
      <3>2. {e \in reads : u \in e.users} = {d}
        BY <3>1 DEF CacheInv, ReadsApart
      <3> QED
        BY <2>1, <3>2, FS_Singleton
    <2>2. CASE ~buffers[u].on
      <3>1. {e \in reads : u \in e.users} = {}
        BY <2>2 DEF CacheInv, ReadsApart
      <3> QED
        BY <2>2, <3>1, FS_EmptySet
    <2> QED
      BY <2>1, <2>2
  <1>2. CacheInv => CacheSafe
    BY <1>1 DEF CacheInv, CacheSafe
  <1> QED
    BY CacheInitInv, CacheStepInv, <1>2, PTL DEF UserCacheSpec

\* ioDone: a counter is never set while it is known (the double initialisation the code warns
\* of), and a receipt is handed to push once.
THEOREM CountersAreSetOnce == UserCacheSpec => [](SetOnce /\ PushedOnce)
  <1>1. CacheInv => SetOnce /\ PushedOnce
    BY DEF CacheInv
  <1> QED
    BY CacheInitInv, CacheStepInv, <1>1, PTL DEF UserCacheSpec

=============================================================================
