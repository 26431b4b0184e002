----------------------------- MODULE ClusterLane -----------------------------
(***************************************************************************)
(* One ordered lane of the cluster transport: the calls a node makes to a  *)
(* peer, the lane's goroutine with its queues and its window of unanswered *)
(* frames, the gRPC streams it opens one after the other, the handlers of  *)
(* these streams at the peer, and the peer's table of executed requests.   *)
(*                                                                         *)
(* Requests are numbered in the order in which they enter the lane. gRPC   *)
(* is external: a stream delivers in order, breaks at any time, and the    *)
(* peer may learn late, or never, that its client has given it up.         *)
(* Payloads, lane choice, TLS and protocol versions are left out.          *)
(***************************************************************************)
EXTENDS Naturals, Sequences, FiniteSets

CONSTANTS
    N,          \* number of requests
    QueueCap,   \* capacity of either queue
    Window,     \* PipelineWindow
    MaxRetries, \* further attempts of a reliable request
    DedupeCap,  \* capacity of the table of executed requests
    MaxStream,  \* bound: streams opened
    MaxEpoch,   \* bound: view epochs
    MaxInst     \* bound: runs of the peer's process

Request == 1 .. N
Stream == 1 .. MaxStream

ASSUME LaneAssumption ==
    /\ N \in Nat
    /\ {QueueCap, Window, DedupeCap} \subseteq Nat \ {0}
    /\ {MaxRetries, MaxStream, MaxEpoch, MaxInst} \subseteq Nat

VARIABLES
    call,           \* what the caller has: waiting, ok or error
    reliable,       \* requests that are retried; the others may be dropped
    expired,        \* requests whose deadline has passed
    reliableQueue, ephemeralQueue,
    ready,          \* carry of run, ready of runPipeline: taken, not in the window
    pending,        \* the window: sent and unanswered, in sending order
    attempts,       \* frames made for a request
    started,        \* requests counted in inFlight
    stream,         \* the stream in use; 0: none
    opened,         \* number of streams opened so far
    sequence,       \* number of the last frame on the stream
    closed,         \* the peer object has been closed
    viewEpoch,      \* view epoch of both ends
    up, down,       \* frames under way on every stream
    cut,            \* streams the client has given up
    srv,            \* handler of every stream
    dedupe,         \* state of the entry of every request
    inst,           \* number of the peer's process
    log,            \* executions in the order of their start: request and process
    succeeded,      \* requests whose execution has returned without error
    turnedAway      \* requests that have met a full table of executed requests

callVars == <<call, reliable, expired>>
queueVars == <<reliableQueue, ephemeralQueue>>
laneVars == <<ready, pending, attempts, started, stream, opened, sequence, closed>>
netVars == <<up, down, cut>>
peerVars == <<srv, dedupe, inst, log, succeeded, turnedAway>>
laneAll == <<callVars, queueVars, laneVars, netVars, peerVars, viewEpoch>>

NoFrame == [req |-> 0, seq |-> 0, epoch |-> 0]
Handler(pc) == [pc |-> pc, expected |-> 1, frame |-> NoFrame, epoch |-> 0, result |-> "none"]
GoneHandler == Handler("done")

inFlight == Cardinality(started)
pendingReliableRequests == Len(reliableQueue) + inFlight

-----------------------------------------------------------------------------
(* Call. *)

\* The next request enters the queue of its kind (clusterRequestIsReliable) ...
Call(r, kind) ==
    /\ ~closed
    /\ call[r] = "new" /\ \A x \in 1 .. r - 1 : call[x] # "new"
    /\ call' = [call EXCEPT ![r] = "waiting"]
    /\ \/ /\ kind = "reliable" /\ Len(reliableQueue) < QueueCap
          /\ reliable' = reliable \cup {r}
          /\ reliableQueue' = Append(reliableQueue, r) /\ UNCHANGED ephemeralQueue
       \/ /\ kind = "ephemeral" /\ Len(ephemeralQueue) < QueueCap
          /\ ephemeralQueue' = Append(ephemeralQueue, r) /\ UNCHANGED <<reliable, reliableQueue>>
    /\ UNCHANGED <<expired, laneVars, netVars, peerVars, viewEpoch>>

\* ... or finds it full: a reliable request fails, another is dropped silently.
CallRejected(r, kind) ==
    /\ ~closed
    /\ call[r] = "new" /\ \A x \in 1 .. r - 1 : call[x] # "new"
    /\ \/ /\ kind = "reliable" /\ Len(reliableQueue) = QueueCap
          /\ call' = [call EXCEPT ![r] = "error"] /\ reliable' = reliable \cup {r}
       \/ /\ kind = "ephemeral" /\ Len(ephemeralQueue) = QueueCap
          /\ call' = [call EXCEPT ![r] = "ok"] /\ UNCHANGED reliable
    /\ UNCHANGED <<expired, queueVars, laneVars, netVars, peerVars, viewEpoch>>

\* The deadline passes, and a caller that still waits returns.
Deadline(r) ==
    /\ call[r] # "new" /\ r \notin expired
    /\ expired' = expired \cup {r}
    /\ call' = [call EXCEPT ![r] = IF @ = "waiting" THEN "error" ELSE @]
    /\ UNCHANGED <<reliable, queueVars, laneVars, netVars, peerVars, viewEpoch>>

-----------------------------------------------------------------------------
(* The lane's goroutine: run, runPipeline, retryRequests, finishRequest. *)

\* finishRequest for the requests F with result res[r]: only a waiting caller gets it.
finishRequests(F, res) ==
    /\ call' = [r \in Request |-> IF r \in F /\ call[r] = "waiting" THEN res[r] ELSE call[r]]
    /\ started' = started \ F

\* takeQueuedRequest and waitForQueuedRequest: reliable requests first.
Fetch ==
    /\ ~closed /\ ready = <<>> /\ Len(pending) < Window
    /\ \/ /\ reliableQueue # <<>>
          /\ ready' = <<Head(reliableQueue)>>
          /\ reliableQueue' = Tail(reliableQueue) /\ UNCHANGED ephemeralQueue
       \/ /\ reliableQueue = <<>> /\ ephemeralQueue # <<>>
          /\ ready' = <<Head(ephemeralQueue)>>
          /\ ephemeralQueue' = Tail(ephemeralQueue) /\ UNCHANGED reliableQueue
    /\ UNCHANGED <<callVars, pending, attempts, started, stream, opened, sequence, closed,
                   netVars, peerVars, viewEpoch>>

\* ensureStream: every stream numbers its frames from 1.
ensureStream ==
    /\ ~closed /\ stream = 0 /\ ready # <<>> /\ opened < MaxStream
    /\ opened' = opened + 1 /\ stream' = opened' /\ sequence' = 0
    /\ srv' = [srv EXCEPT ![stream'].pc = "recv"]
    /\ UNCHANGED <<callVars, queueVars, ready, pending, attempts, started, closed,
                   netVars, dedupe, inst, log, succeeded, turnedAway, viewEpoch>>

\* runPipeline sends the next request, unless its deadline has passed. A Send that fails
\* is one whose frame the peer does not read before it learns that the stream is cut.
SendFrame ==
    /\ ~closed /\ stream # 0 /\ ready # <<>> /\ Len(pending) < Window
    /\ Head(ready) \notin expired
    /\ LET r == Head(ready)
           frame == [req |-> r, seq |-> sequence + 1, epoch |-> viewEpoch.client]
       IN  /\ sequence' = sequence + 1
           /\ started' = started \cup {r}
           /\ attempts' = [attempts EXCEPT ![r] = @ + 1]
           /\ pending' = Append(pending, frame)
           /\ up' = [up EXCEPT ![stream] = Append(@, frame)]
    /\ ready' = Tail(ready)
    /\ UNCHANGED <<callVars, queueVars, stream, opened, closed, down, cut, peerVars, viewEpoch>>

SkipExpired ==
    /\ ~closed /\ stream # 0 /\ ready # <<>> /\ Len(pending) < Window
    /\ Head(ready) \in expired
    /\ finishRequests({Head(ready)}, [r \in Request |-> "error"])
    /\ ready' = Tail(ready)
    /\ UNCHANGED <<reliable, expired, queueVars, pending, attempts, stream, opened, sequence, closed,
                   netVars, peerVars, viewEpoch>>

pendingRequests == [i \in DOMAIN pending |-> pending[i].req]

\* Faulty variant: what was not sent goes first.
carriedReversed == ready \o pendingRequests

\* What runPipeline hands back to run: the window first.
carried == pendingRequests \o ready

\* The places K in increasing order; there is one such function.
Ascending(K) ==
    {f \in [1 .. Cardinality(K) -> K] : \A a, b \in DOMAIN f : a < b => f[a] < f[b]}

\* retryRequests: what goes on to the next stream.
keeps(r, retryable) ==
    /\ r \notin expired
    /\ r \notin started \/ (r \in reliable /\ attempts[r] <= MaxRetries /\ retryable)

\* Faulty variant: dropped requests stay counted.
retryRequestsUncounted(retryable, bad) ==
    LET K == {i \in DOMAIN carried : carried[i] \notin bad /\ keeps(carried[i], retryable)}
        F == {carried[i] : i \in DOMAIN carried \ K}
        res == [r \in Request |-> IF r \in reliable \cup expired \cup bad THEN "error" ELSE "ok"]
    IN  /\ finishRequests(F \cap reliable, res)
        /\ \E f \in Ascending(K) : ready' = [k \in DOMAIN f |-> carried[f[k]]]

\* The requests carried are kept for the next stream or finished; those that may be
\* dropped are finished without an error. bad: already finished with an error.
retryRequests(retryable, bad) ==
    LET K == {i \in DOMAIN carried : carried[i] \notin bad /\ keeps(carried[i], retryable)}
        F == {carried[i] : i \in DOMAIN carried \ K}
        res == [r \in Request |-> IF r \in reliable \cup expired \cup bad THEN "error" ELSE "ok"]
    IN  /\ finishRequests(F, res)
        /\ \E f \in Ascending(K) : ready' = [k \in DOMAIN f |-> carried[f[k]]]

\* The stream is given up: closeStream cancels it, the peer may learn of it later.
closeStream(retryable, bad) ==
    /\ retryRequests(retryable, bad)
    /\ pending' = <<>> /\ stream' = 0
    /\ cut' = cut \cup {stream}
    /\ down' = [down EXCEPT ![stream] = <<>>]
    /\ UNCHANGED <<reliable, expired, queueVars, attempts, opened, sequence, closed, up, peerVars, viewEpoch>>

\* runPipeline waits in its select only with a full window or nothing left to send.
Waits == ~closed /\ stream # 0 /\ pending # <<>> /\ (ready = <<>> \/ Len(pending) = Window)

\* Send or Recv fails: the connection is lost or the peer has ended the stream.
StreamFails == ~closed /\ stream # 0 /\ pending # <<>> /\ closeStream(TRUE, {})

\* No stream can be created.
ensureStreamFails ==
    /\ ~closed /\ stream = 0 /\ ready # <<>>
    /\ retryRequests(TRUE, {})
    /\ UNCHANGED <<reliable, expired, queueVars, pending, attempts, stream, opened, sequence, closed,
                   netVars, peerVars, viewEpoch>>

\* The ticker finds a request of the window past its deadline; that error is not retryable
\* and ends the other requests of the window, too.
Tick ==
    /\ Waits
    /\ \E i \in DOMAIN pending : pending[i].req \in expired
    /\ closeStream(FALSE, {})

\* validateResponse: the frame of the window that the answer belongs to.
validateResponse(m) ==
    {i \in DOMAIN pending :
        pending[i].req = m.req /\ pending[i].seq = m.seq /\ m.epoch = viewEpoch.client}

\* An answer arrives and its caller gets the result ...
Receive ==
    /\ Waits /\ down[stream] # <<>>
    /\ LET m == Head(down[stream])
       IN  \E i \in validateResponse(m) :
              /\ finishRequests({m.req}, [r \in Request |-> IF m.result = "ok" THEN "ok" ELSE "error"])
              /\ pending' = SubSeq(pending, 1, i - 1) \o SubSeq(pending, i + 1, Len(pending))
    /\ down' = [down EXCEPT ![stream] = Tail(@)]
    /\ UNCHANGED <<reliable, expired, queueVars, ready, attempts, stream, opened, sequence, closed,
                   up, cut, peerVars, viewEpoch>>

\* ... or it is of another view: a protocol error, which is not retryable either.
ReceiveInvalid ==
    /\ Waits /\ down[stream] # <<>>
    /\ validateResponse(Head(down[stream])) = {}
    /\ closeStream(FALSE, {Head(down[stream]).req})

\* peer.Close: the context of every call ends with the peer's, the lane finishes whatever
\* it carries and whatever is queued.
Close ==
    /\ ~closed /\ closed' = TRUE
    /\ expired' = {r \in Request : r \in expired \/ call[r] # "new"}
    /\ finishRequests(Request, [r \in Request |-> "error"])
    /\ ready' = <<>> /\ pending' = <<>> /\ stream' = 0
    /\ reliableQueue' = <<>> /\ ephemeralQueue' = <<>>
    /\ cut' = 1 .. opened /\ down' = [s \in Stream |-> <<>>]
    /\ UNCHANGED <<reliable, attempts, opened, sequence, up, peerVars, viewEpoch>>

-----------------------------------------------------------------------------
(* The peer: Lane, validateFrame, clusterDedupeCache.Execute. *)

\* Lane receives a frame and loads its epoch for the answer.
LaneRecv(s) ==
    /\ srv[s].pc = "recv" /\ up[s] # <<>>
    /\ srv' = [srv EXCEPT ![s] = [pc |-> "got", expected |-> @.expected, frame |-> Head(up[s]),
                                  epoch |-> viewEpoch.server, result |-> "none"]]
    /\ up' = [up EXCEPT ![s] = Tail(@)]
    /\ UNCHANGED <<callVars, queueVars, laneVars, down, cut, dedupe, inst, log, succeeded, turnedAway, viewEpoch>>

validateFrame(s) ==
    srv[s].frame.seq = srv[s].expected /\ srv[s].frame.epoch = viewEpoch.server

Answer(s, res) == [srv EXCEPT ![s].pc = "reply", ![s].result = res]

\* A frame out of sequence or of another view is refused, and the stream will end.
LaneRefuses(s) ==
    /\ srv[s].pc = "got" /\ ~validateFrame(s)
    /\ srv' = Answer(s, "refused")
    /\ UNCHANGED <<callVars, queueVars, laneVars, netVars, dedupe, inst, log, succeeded, turnedAway, viewEpoch>>

Entries == {r \in Request : dedupe[r] # "none"}
Live(r) == dedupe[r] \in {"running", "ok", "failed"}

\* Faulty variant: the limit is compared before the insertion.
RoomForOneMore(r) == Cardinality(Entries \ {r}) <= DedupeCap

\* The table may take an entry for r; an expired entry of r itself is deleted first.
Room(r) == Cardinality(Entries \ {r}) < DedupeCap

\* Faulty variant: any completed entry may go.
evictAnyCompleted(r) == {x \in Entries \ {r} : dedupe[x] \in {"ok", "failed", "old"}}

\* evictOneCompletedLocked: an entry past its TTL may go.
evictOneCompleted(r) == {x \in Entries \ {r} : dedupe[x] = "old"}

\* Execute of a request without a live entry: dispatch starts ...
ExecuteStarts(s) ==
    LET r == srv[s].frame.req
    IN  /\ srv[s].pc = "got" /\ validateFrame(s)
        /\ ~Live(r)
        /\ \/ /\ Room(r)
              /\ dedupe' = [dedupe EXCEPT ![r] = "running"]
           \/ /\ ~Room(r)
              /\ \E x \in evictOneCompleted(r) :
                    dedupe' = [dedupe EXCEPT ![x] = "none", ![r] = "running"]
        /\ log' = Append(log, <<r, inst>>)
        /\ srv' = [srv EXCEPT ![s].pc = "exec"]
        /\ UNCHANGED <<callVars, queueVars, laneVars, netVars, inst, succeeded, turnedAway, viewEpoch>>

\* ... unless the table is full of entries it has to keep.
ExecuteWindowFull(s) ==
    LET r == srv[s].frame.req
    IN  /\ srv[s].pc = "got" /\ validateFrame(s)
        /\ ~Live(r)
        /\ ~Room(r) /\ evictOneCompleted(r) = {}
        /\ dedupe' = [dedupe EXCEPT ![r] = "none"]
        /\ srv' = Answer(s, "failed")
        /\ turnedAway' = turnedAway \cup {r}
        /\ UNCHANGED <<callVars, queueVars, laneVars, netVars, inst, log, succeeded, viewEpoch>>

\* Faulty variant: a running entry, without an error so far, is repeated at once.
ExecuteHitsAtOnce(s) ==
    LET r == srv[s].frame.req
    IN  /\ srv[s].pc = "got" /\ validateFrame(s)
        /\ Live(r)
        /\ srv' = Answer(s, IF dedupe[r] = "running" THEN "ok" ELSE dedupe[r])
        /\ UNCHANGED <<callVars, queueVars, laneVars, netVars, dedupe, inst, log, succeeded, turnedAway, viewEpoch>>

\* A live entry: its result is repeated, or awaited while the first execution runs.
ExecuteHits(s) ==
    LET r == srv[s].frame.req
    IN  /\ srv[s].pc = "got" /\ validateFrame(s)
        /\ Live(r)
        /\ srv' = IF dedupe[r] = "running" THEN [srv EXCEPT ![s].pc = "wait"] ELSE Answer(s, dedupe[r])
        /\ UNCHANGED <<callVars, queueVars, laneVars, netVars, dedupe, inst, log, succeeded, turnedAway, viewEpoch>>

\* dispatch returns; the result is stored and all handlers that wait for it wake up.
ExecuteEnds(s) ==
    LET r == srv[s].frame.req
    IN  /\ srv[s].pc = "exec"
        /\ \E res \in {"ok", "failed"} :
              /\ dedupe' = [dedupe EXCEPT ![r] = res]
              /\ succeeded' = IF res = "ok" THEN succeeded \cup {r} ELSE succeeded
              /\ srv' = [q \in Stream |->
                    IF q = s \/ (srv[q].pc = "wait" /\ srv[q].frame.req = r)
                      THEN [pc |-> "reply", expected |-> srv[q].expected, frame |-> srv[q].frame,
                            epoch |-> srv[q].epoch, result |-> res]
                      ELSE srv[q]]
        /\ UNCHANGED <<callVars, queueVars, laneVars, netVars, inst, log, turnedAway, viewEpoch>>

\* The answer is sent; on a stream its client has left it may still seem to be.
LaneReplies(s) ==
    /\ srv[s].pc = "reply"
    /\ down' = IF s \in cut THEN down ELSE
          [down EXCEPT ![s] = Append(@, [req |-> srv[s].frame.req, seq |-> srv[s].frame.seq,
                                         epoch |-> srv[s].epoch, result |-> srv[s].result])]
    /\ srv' = [srv EXCEPT ![s] = [pc |-> IF @.result = "refused" THEN "done" ELSE "recv",
                  expected |-> @.expected + 1, frame |-> NoFrame, epoch |-> 0, result |-> "none"]]
    /\ UNCHANGED <<callVars, queueVars, laneVars, up, cut, dedupe, inst, log, succeeded, turnedAway, viewEpoch>>

\* Recv, the wait for a running execution, or Send notices that the client is gone.
LaneEnds(s) ==
    /\ s \in cut /\ srv[s].pc \in {"recv", "wait", "reply"}
    /\ srv' = [srv EXCEPT ![s] = GoneHandler]
    /\ up' = [up EXCEPT ![s] = <<>>]
    /\ UNCHANGED <<callVars, queueVars, laneVars, down, cut, dedupe, inst, log, succeeded, turnedAway, viewEpoch>>

\* The TTL of an entry passes. It runs from the end of the execution and is not shorter
\* than RequestTimeout (normalizeClusterTransportConfig), which runs from the call.
TTLPasses(r) ==
    /\ dedupe[r] \in {"ok", "failed"} /\ r \in expired
    /\ dedupe' = [dedupe EXCEPT ![r] = "old"]
    /\ UNCHANGED <<callVars, queueVars, laneVars, netVars, srv, inst, log, succeeded, turnedAway, viewEpoch>>

\* The peer's process ends and another takes its place, with an empty table.
PeerRestarts ==
    /\ inst < MaxInst /\ inst' = inst + 1
    /\ dedupe' = [r \in Request |-> "none"]
    /\ srv' = [s \in Stream |-> IF srv[s].pc = "off" THEN srv[s] ELSE GoneHandler]
    /\ up' = [s \in Stream |-> <<>>]
    /\ UNCHANGED <<callVars, queueVars, laneVars, down, cut, log, succeeded, turnedAway, viewEpoch>>

\* Either end applies the next view; both follow the same control plane.
ViewMoves(e) ==
    /\ viewEpoch[e] < MaxEpoch
    /\ viewEpoch' = [viewEpoch EXCEPT ![e] = @ + 1]
    /\ UNCHANGED <<callVars, queueVars, laneVars, netVars, peerVars>>

-----------------------------------------------------------------------------
LaneInit ==
    /\ call = [r \in Request |-> "new"] /\ reliable = {} /\ expired = {}
    /\ reliableQueue = <<>> /\ ephemeralQueue = <<>>
    /\ ready = <<>> /\ pending = <<>> /\ attempts = [r \in Request |-> 0] /\ started = {}
    /\ stream = 0 /\ opened = 0 /\ sequence = 0 /\ closed = FALSE
    /\ viewEpoch = [client |-> 1, server |-> 1]
    /\ up = [s \in Stream |-> <<>>] /\ down = [s \in Stream |-> <<>>] /\ cut = {}
    /\ srv = [s \in Stream |-> Handler("off")]
    /\ dedupe = [r \in Request |-> "none"] /\ inst = 1 /\ log = <<>> /\ succeeded = {} /\ turnedAway = {}

Caller(r) ==
    \/ \E kind \in {"reliable", "ephemeral"} : Call(r, kind) \/ CallRejected(r, kind)
    \/ Deadline(r)

LaneStep ==
    \/ Fetch \/ ensureStream \/ ensureStreamFails \/ SendFrame \/ SkipExpired
    \/ StreamFails \/ Tick \/ Receive \/ ReceiveInvalid

PeerStep(s) ==
    \/ LaneRecv(s) \/ LaneRefuses(s) \/ LaneReplies(s) \/ LaneEnds(s)
    \/ ExecuteStarts(s) \/ ExecuteWindowFull(s) \/ ExecuteHits(s) \/ ExecuteEnds(s)

LaneNext ==
    \/ \E r \in Request : Caller(r) \/ TTLPasses(r)
    \/ LaneStep
    \/ \E s \in Stream : PeerStep(s)
    \/ \E e \in {"client", "server"} : ViewMoves(e)
    \/ PeerRestarts
    \/ Close

LaneSpec == LaneInit /\ [][LaneNext]_laneAll

-----------------------------------------------------------------------------
Frame == [req : Request, seq : Nat, epoch : Nat]
Result == {"ok", "failed", "refused"}
SrvType == [pc : {"off", "recv", "got", "exec", "wait", "reply", "done"}, expected : Nat,
            frame : Frame \cup {NoFrame}, epoch : Nat, result : Result \cup {"none"}]

\* Type invariant of the lane, with the limits of queues, window, retries and table.
LaneTypeOK ==
    /\ call \in [Request -> {"new", "waiting", "ok", "error"}]
    /\ reliable \subseteq Request /\ expired \subseteq Request
    /\ reliableQueue \in Seq(Request) /\ ephemeralQueue \in Seq(Request)
    /\ Len(reliableQueue) <= QueueCap /\ Len(ephemeralQueue) <= QueueCap
    /\ ready \in Seq(Request) /\ pending \in Seq(Frame) /\ Len(pending) <= Window
    /\ attempts \in [Request -> 0 .. MaxRetries + 1] /\ started \subseteq Request
    /\ stream \in 0 .. opened /\ opened \in 0 .. MaxStream /\ sequence \in Nat /\ closed \in BOOLEAN
    /\ viewEpoch \in [{"client", "server"} -> Nat]
    /\ up \in [Stream -> Seq(Frame)] /\ cut \subseteq Stream
    /\ down \in [Stream -> Seq([req : Request, seq : Nat, epoch : Nat, result : Result])]
    /\ srv \in [Stream -> SrvType]
    /\ dedupe \in [Request -> {"none", "running", "ok", "failed", "old"}]
    /\ Cardinality(Entries) <= DedupeCap
    /\ inst \in Nat /\ log \in Seq(Request \X Nat) /\ succeeded \subseteq Request /\ turnedAway \subseteq Request

\* Broken streams, retries, a former handler that goes on beside its successor and the
\* eviction of entries do not make a process execute a request again before the deadline
\* of the request: Execute's "at most once within the window" is long enough for callers.
NoEarlyRepeat ==
    \A i, j \in DOMAIN log : i # j /\ log[i] = log[j] => log[i][1] \in expired

\* A reliable call that returns without an error was executed without an error, whatever
\* stream, retry or repeated answer the result came by.
OkMeansExecuted == \A r \in reliable : call[r] = "ok" => r \in succeeded

\* Same topic, same lane, same order: of two reliable calls that return without an error
\* the one that entered the lane first was executed first, unless it was once refused because
\* the table was full of live entries: the requests behind it on the stream are not.
ExecutedInOrder ==
    \A a, b \in reliable :
        a < b /\ call[a] = "ok" /\ call[b] = "ok" /\ a \notin turnedAway =>
            \A j \in DOMAIN log : log[j][1] = b => \E i \in 1 .. j - 1 : log[i][1] = a

\* The peer never meets a gap or an old number on a stream: newRequestFrame and
\* ensureStream number the frames the way Lane counts them.
FramesInSequence == \A s \in Stream : srv[s].pc = "got" => srv[s].frame.seq = srv[s].expected

\* Frames arrive in their order and calls are executed in theirs.
LaneInOrder == FramesInSequence /\ ExecutedInOrder

\* What pendingReliableRequests counts comes down to zero: a lane that holds no request
\* has none in flight, or waitForReliableDrain would wait in vain.
NothingLeaks == ready = <<>> /\ pending = <<>> => inFlight = 0

\* What waitForReliableDrain's comment says: with no reliable request pending they have
\* all been completed.
DrainedIsDone ==
    pendingReliableRequests = 0 => \A r \in reliable : call[r] # "waiting"

=============================================================================
