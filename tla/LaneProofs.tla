----------------------------- MODULE LaneProofs -----------------------------
(***************************************************************************)
(* Theorems about one lane of the cluster transport, for every number of   *)
(* requests, streams and processes and every limit of the queues, of the   *)
(* window, of the retries and of the table of executed requests.           *)
(*                                                                         *)
(* The invariant follows a request on its way: the queue, what the lane    *)
(* carries, the frames under way on a stream, the hands of the peer, the   *)
(* log, and back with the result. In each of these places whoever is       *)
(* behind a reliable request came after it, or the order of that request   *)
(* is settled.                                                             *)
(***************************************************************************)
EXTENDS ClusterLane, FiniteSetTheorems, TLAPS

\* Requests the lane carries, requests that wait in one of its queues.
IsCarried(r) == \E p \in 1 .. Len(carried) : carried[p] = r
InReliable(r) == \E k \in 1 .. Len(reliableQueue) : reliableQueue[k] = r
InEphemeral(r) == \E k \in 1 .. Len(ephemeralQueue) : ephemeralQueue[k] = r

\* Requests enter the lane in the order of their numbers.
CallsInOrder == \A x, y \in Request : x < y /\ call[y] # "new" => call[x] # "new"

\* A request is in one place of the lane at most; what is in a queue has been called and is
\* of the queue's kind; what is counted in flight is carried, and what has a frame is counted.
OnePlaceEach ==
    /\ \A p, q \in 1 .. Len(carried) : carried[p] = carried[q] => p = q
    /\ \A i, j \in 1 .. Len(reliableQueue) : reliableQueue[i] = reliableQueue[j] => i = j
    /\ \A i, j \in 1 .. Len(ephemeralQueue) : ephemeralQueue[i] = ephemeralQueue[j] => i = j
    /\ \A r \in Request : InReliable(r) => r \in reliable /\ ~IsCarried(r)
    /\ \A r \in Request : InEphemeral(r) => r \notin reliable /\ ~IsCarried(r)
    /\ \A r \in Request : InReliable(r) \/ InEphemeral(r) \/ IsCarried(r) \/ r \in reliable
                              => call[r] # "new"
    /\ \A r \in started : IsCarried(r)
    /\ \A i \in 1 .. Len(pending) : pending[i].req \in started
    /\ stream = 0 => pending = <<>>

\* What is not in flight has made no attempt yet, and what is ready may make one more.
AttemptsLeft ==
    /\ \A r \in Request : (InReliable(r) \/ InEphemeral(r) \/ IsCarried(r) \/ call[r] = "new")
                              /\ r \notin started => attempts[r] = 0
    /\ \A i \in 1 .. Len(ready) : attempts[ready[i]] <= MaxRetries

\* The requests that have been executed at least once.
Ran == {log[i][1] : i \in 1 .. Len(log)}

\* The table knows what the present process has executed, until the deadline at least; what
\* is being executed has a running entry, and one handler executes it.
TableKnows ==
    /\ \A i \in 1 .. Len(log) : log[i][2] <= inst
    /\ \A i \in 1 .. Len(log) : log[i][2] = inst => Live(log[i][1]) \/ log[i][1] \in expired
    /\ \A r \in Request : Live(r) => r \in Ran
    /\ \A s \in Stream : srv[s].pc = "exec" => dedupe[srv[s].frame.req] = "running"
    /\ \A s, t \in Stream :
           srv[s].pc = "exec" /\ srv[t].pc = "exec" /\ srv[s].frame.req = srv[t].frame.req => s = t

\* Wherever a result without error is on its way, the request has been executed.
ResultsAreTrue ==
    /\ succeeded \subseteq Ran
    /\ \A r \in Request : dedupe[r] = "ok" => r \in succeeded
    /\ \A s \in Stream : srv[s].result = "ok" => srv[s].frame.req \in succeeded
    /\ \A s \in Stream : \A k \in 1 .. Len(down[s]) :
           down[s][k].result = "ok" => down[s][k].req \in succeeded

\* The handler of a stream has begun and not ended.
Handles(s) == srv[s].pc \notin {"off", "done"}

\* A handler that has a frame; the number it will ask of the next frame but those before.
Holding(s) == srv[s].pc \in {"got", "exec", "wait", "reply"}
Before(s) == IF srv[s].pc = "recv" THEN srv[s].expected - 1 ELSE srv[s].expected

\* Streams are opened one after the other; the frames on a stream are numbered as its
\* handler counts them.
FramesNumbered ==
    /\ \A s \in Stream : srv[s].pc = "off" <=> s > opened
    /\ \A s \in Stream : Holding(s) => srv[s].frame \in Frame
    /\ \A s \in Stream : srv[s].pc = "reply" => srv[s].result \in Result
    /\ \A s \in Stream : srv[s].pc = "off" => up[s] = <<>> /\ srv[s] = Handler("off")
    /\ \A s \in Stream : srv[s].pc = "exec" => srv[s].frame.req \in Ran
    /\ \A s \in Stream : Handles(s) =>
           \A k \in 1 .. Len(up[s]) : up[s][k].seq = Before(s) + k
    /\ stream # 0 /\ Handles(stream) => sequence = Before(stream) + Len(up[stream])

\* The order of a request is settled when it has been executed, when its caller has an
\* error, or when it has met a full table.
Settled(a) == a \in Ran \/ call[a] = "error" \/ a \in turnedAway

\* A handler that may execute what comes next: it has not refused a frame.
Serving(s) == Handles(s) /\ (srv[s].pc = "reply" => srv[s].result # "refused")
InHand(s, a) == srv[s].pc = "got" /\ srv[s].frame.req = a
OnItsWay(s, a) == InHand(s, a) \/ \E k \in 1 .. Len(up[s]) : up[s][k].req = a

\* A reliable request is settled, carried or queued.
KeptOrSettled == \A a \in reliable : Settled(a) \/ IsCarried(a) \/ InReliable(a)

\* Whoever is behind it in the queue is so because it came first or is settled ...
QueuedInOrder ==
    \A k \in 1 .. Len(reliableQueue) : \A a \in reliable : a < reliableQueue[k] =>
        \/ Settled(a) \/ IsCarried(a)
        \/ \E j \in 1 .. k - 1 : reliableQueue[j] = a

\* ... and so is who is behind it in what the lane carries ...
CarriedInOrder ==
    \A q \in 1 .. Len(carried) : \A a \in reliable : carried[q] \in reliable /\ a < carried[q] =>
        Settled(a) \/ \E p \in 1 .. q - 1 : carried[p] = a

\* ... on a stream ...
UnderWayInOrder ==
    \A s \in Stream : Serving(s) => \A k \in 1 .. Len(up[s]) : \A a \in reliable :
        up[s][k].req \in reliable /\ a < up[s][k].req =>
            Settled(a) \/ InHand(s, a) \/ \E j \in 1 .. k - 1 : up[s][j].req = a

\* ... in the hands of the peer ...
TakenInOrder ==
    \A s \in Stream : srv[s].pc = "got" => \A a \in reliable :
        srv[s].frame.req \in reliable /\ a < srv[s].frame.req => Settled(a)

\* ... and in the log.
LoggedInOrder ==
    \A j \in 1 .. Len(log) : \A a \in reliable : log[j][1] \in reliable /\ a < log[j][1] =>
        \/ call[a] = "error" \/ a \in turnedAway
        \/ \E i \in 1 .. j - 1 : log[i][1] = a

\* While the stream is served, what the window holds is settled or on its way.
WindowOnItsWay ==
    stream # 0 /\ Serving(stream) =>
        \A i \in 1 .. Len(pending) : Settled(pending[i].req) \/ OnItsWay(stream, pending[i].req)

\* Only what has been called is sent, served and executed.
OnlyCalled ==
    /\ \A s \in Stream : \A k \in 1 .. Len(up[s]) : call[up[s][k].req] # "new"
    /\ \A s \in Stream : Holding(s) => call[srv[s].frame.req] # "new"
    /\ \A r \in Ran : call[r] # "new"

\* The inductive invariant of the lane.
LaneInv ==
    /\ LaneTypeOK /\ CallsInOrder /\ OnePlaceEach /\ AttemptsLeft
    /\ TableKnows /\ NoEarlyRepeat /\ ResultsAreTrue /\ OkMeansExecuted
    /\ FramesNumbered /\ FramesInSequence /\ OnlyCalled
    /\ KeptOrSettled /\ QueuedInOrder /\ CarriedInOrder /\ WindowOnItsWay
    /\ UnderWayInOrder /\ TakenInOrder /\ LoggedInOrder

-----------------------------------------------------------------------------
\* What a window w and the requests d after it carry, request by request.
LEMMA WindowThenReady ==
    ASSUME NEW w \in Seq(Frame), NEW d \in Seq(Request)
    PROVE  LET c == [i \in DOMAIN w |-> w[i].req] \o d
           IN  /\ c \in Seq(Request) /\ Len(c) = Len(w) + Len(d)
               /\ Len(w) \in Nat /\ Len(d) \in Nat
               /\ \A p \in 1 .. Len(w) : c[p] = w[p].req /\ w[p].req \in Request
               /\ \A p \in 1 .. Len(d) : c[Len(w) + p] = d[p] /\ d[p] \in Request
  <1>1. ASSUME NEW p \in 1 .. Len(w)
        PROVE  w[p].req \in Request
    <2>1. w[p] \in Frame
      OBVIOUS
    <2> QED BY <2>1 DEF Frame
  <1> DEFINE reqs == [i \in DOMAIN w |-> w[i].req]
  <1>2. DOMAIN w = 1 .. Len(w) /\ Len(w) \in Nat
    OBVIOUS
  <1>3. reqs \in [1 .. Len(w) -> Request]
    BY <1>1, <1>2
  <1>4. reqs \in Seq(Request) /\ Len(reqs) = Len(w)
    BY <1>2, <1>3
  <1>5. \A p \in 1 .. Len(w) : reqs[p] = w[p].req
    BY <1>2
  <1> HIDE DEF reqs
  <1>6. /\ reqs \o d \in Seq(Request) /\ Len(reqs \o d) = Len(reqs) + Len(d) /\ Len(d) \in Nat
        /\ \A p \in 1 .. Len(reqs) : (reqs \o d)[p] = reqs[p]
        /\ \A p \in 1 .. Len(d) : (reqs \o d)[Len(reqs) + p] = d[p] /\ d[p] \in Request
    BY <1>4
  <1> QED BY <1>1, <1>2, <1>4, <1>5, <1>6 DEF reqs

\* What the lane carries.
LEMMA CarriedIs ==
    ASSUME LaneTypeOK
    PROVE  /\ carried \in Seq(Request) /\ Len(carried) = Len(pending) + Len(ready)
           /\ Len(pending) \in Nat /\ Len(ready) \in Nat
           /\ \A p \in 1 .. Len(pending) : carried[p] = pending[p].req /\ pending[p].req \in Request
           /\ \A p \in 1 .. Len(ready) : carried[Len(pending) + p] = ready[p] /\ ready[p] \in Request
  <1>1. ready \in Seq(Request) /\ pending \in Seq(Frame)
    BY DEF LaneTypeOK
  <1> QED BY <1>1, WindowThenReady DEF carried, pendingRequests

\* ... and what it carries after a step.
LEMMA CarriedIsNext ==
    ASSUME LaneTypeOK'
    PROVE  /\ carried' \in Seq(Request) /\ Len(carried') = Len(pending') + Len(ready')
           /\ Len(pending') \in Nat /\ Len(ready') \in Nat
           /\ \A p \in 1 .. Len(pending') : carried'[p] = pending'[p].req /\ pending'[p].req \in Request
           /\ \A p \in 1 .. Len(ready') : carried'[Len(pending') + p] = ready'[p] /\ ready'[p] \in Request
  <1>1. ready' \in Seq(Request) /\ pending' \in Seq(Frame)
    BY DEF LaneTypeOK
  <1> QED BY <1>1, WindowThenReady DEF carried, pendingRequests

-----------------------------------------------------------------------------
\* Removing place i of a sequence.
LEMMA WithoutPlace ==
    ASSUME NEW T, NEW q \in Seq(T), NEW i \in 1 .. Len(q)
    PROVE  LET d == SubSeq(q, 1, i - 1) \o SubSeq(q, i + 1, Len(q))
           IN  /\ d \in Seq(T) /\ Len(d) = Len(q) - 1
               /\ \A k \in 1 .. Len(q) - 1 : d[k] = q[IF k < i THEN k ELSE k + 1]
  <1> DEFINE a == SubSeq(q, 1, i - 1)
             b == SubSeq(q, i + 1, Len(q))
  <1>1. Len(q) \in Nat /\ i \in Nat /\ 1 <= i /\ i <= Len(q)
    OBVIOUS
  <1>2. a \in Seq(T) /\ Len(a) = i - 1 /\ \A k \in 1 .. i - 1 : a[k] = q[k]
    BY <1>1
  <1>3. b \in Seq(T) /\ Len(b) = Len(q) - i /\ \A k \in 1 .. Len(q) - i : b[k] = q[i + k]
    BY <1>1
  <1> HIDE DEF a, b
  <1>4. /\ a \o b \in Seq(T) /\ Len(a \o b) = Len(q) - 1
        /\ \A k \in 1 .. Len(a) : (a \o b)[k] = a[k]
        /\ \A k \in 1 .. Len(b) : (a \o b)[Len(a) + k] = b[k]
    <2>1. a \in Seq(T) /\ b \in Seq(T)
      BY <1>2, <1>3
    <2>2. /\ a \o b \in Seq(T) /\ Len(a \o b) = Len(a) + Len(b)
          /\ \A k \in 1 .. Len(a) : (a \o b)[k] = a[k]
          /\ \A k \in 1 .. Len(b) : (a \o b)[Len(a) + k] = b[k]
      BY <2>1
    <2> QED BY <1>1, <1>2, <1>3, <2>2
  <1>5. ASSUME NEW k \in 1 .. Len(q) - 1
        PROVE  (a \o b)[k] = q[IF k < i THEN k ELSE k + 1]
    <2>1. CASE k < i
      BY <1>1, <1>2, <1>4, <2>1
    <2>2. CASE ~(k < i)
      <3> DEFINE m == k - (i - 1)
      <3>1. m \in 1 .. Len(q) - i /\ k = Len(a) + m /\ i + m = k + 1
        BY <1>1, <1>2, <2>2
      <3> HIDE DEF m
      <3>2. (a \o b)[k] = b[m] /\ b[m] = q[i + m]
        BY <1>3, <1>4, <3>1
      <3> QED BY <2>2, <3>1, <3>2
    <2> QED BY <2>1, <2>2
  <1> QED BY <1>4, <1>5 DEF a, b

\* The increasing enumeration of places K of a sequence takes all of them, and each once.
LEMMA AscendingIs ==
    ASSUME NEW n \in Nat, NEW K \in SUBSET (1 .. n), NEW f \in Ascending(K)
    PROVE  /\ Cardinality(K) \in Nat /\ DOMAIN f = 1 .. Cardinality(K)
           /\ f \in [1 .. Cardinality(K) -> 1 .. n]
           /\ \A a, b \in 1 .. Cardinality(K) : a < b => f[a] < f[b]
           /\ \A p \in K : \E k \in 1 .. Cardinality(K) : f[k] = p
           /\ \A k \in 1 .. Cardinality(K) : f[k] \in K
  <1>0. \A p \in K : p \in 1 .. n /\ p \in Int
    OBVIOUS
  <1>1. IsFiniteSet(1 .. n)
    BY FS_Interval
  <1>2. IsFiniteSet(K)
    BY <1>1, FS_Subset
  <1>3. Cardinality(K) \in Nat
    BY <1>2, FS_CardinalityType
  <1> DEFINE c == Cardinality(K)
  <1>4. f \in [1 .. c -> K] /\ \A a, b \in 1 .. c : a < b => f[a] < f[b]
    <2>1. f \in [1 .. c -> K] /\ \A a, b \in DOMAIN f : a < b => f[a] < f[b]
      BY DEF Ascending
    <2> HIDE DEF c
    <2> QED BY <2>1
  <1>6. c \in Nat
    BY <1>3
  <1> HIDE DEF c
  <1>5. f \in Injection(1 .. c, K)
    <2>1. ASSUME NEW a \in 1 .. c, NEW b \in 1 .. c, f[a] = f[b]
          PROVE  a = b
      <3>0. f[a] \in K /\ f[b] \in K
        BY <1>4
      <3>1. f[a] \in Int /\ f[b] \in Int
        BY <1>0, <3>0
      <3>4. a \in Int /\ b \in Int
        BY <1>6
      <3>2. CASE a < b
        BY <1>4, <2>1, <3>1, <3>2
      <3>3. CASE b < a
        BY <1>4, <2>1, <3>1, <3>3
      <3> QED BY <3>2, <3>3, <3>4
    <2> QED BY <1>4, <2>1 DEF Injection, IsInjective
  <1>7. Cardinality(1 .. c) = c
    BY <1>6, FS_Interval
  <1>8. f \in Surjection(1 .. c, K)
    BY <1>2, <1>5, <1>7, FS_Injection DEF c
  <1>9. \A p \in K : \E k \in 1 .. c : f[k] = p
    BY <1>8 DEF Surjection
  <1> QED BY <1>4, <1>6, <1>9 DEF c

\* retryRequests: the places kept and the requests dropped.
LEMMA RetryIs ==
    ASSUME LaneTypeOK, NEW retryable, NEW bad, retryRequests(retryable, bad)
    PROVE  \E K \in SUBSET (1 .. Len(carried)) : \E f \in Ascending(K) :
             /\ ready' = [k \in DOMAIN f |-> carried[f[k]]]
             /\ \A p \in 1 .. Len(carried) : p \in K <=> carried[p] \notin bad /\ keeps(carried[p], retryable)
             /\ started' = started \ {carried[p] : p \in (1 .. Len(carried)) \ K}
             /\ call' = [r \in Request |->
                    IF r \in {carried[p] : p \in (1 .. Len(carried)) \ K} /\ call[r] = "waiting"
                    THEN IF r \in reliable \cup expired \cup bad THEN "error" ELSE "ok" ELSE call[r]]
  <1> DEFINE K == {i \in DOMAIN carried : carried[i] \notin bad /\ keeps(carried[i], retryable)}
             F == {carried[i] : i \in DOMAIN carried \ K}
             res == [r \in Request |-> IF r \in reliable \cup expired \cup bad THEN "error" ELSE "ok"]
  <1>1. finishRequests(F, res) /\ \E f \in Ascending(K) : ready' = [k \in DOMAIN f |-> carried[f[k]]]
    BY DEF retryRequests
  <1>2. DOMAIN carried = 1 .. Len(carried)
    BY CarriedIs
  <1>3. call' = [r \in Request |-> IF r \in F /\ call[r] = "waiting" THEN res[r] ELSE call[r]]
    BY <1>1 DEF finishRequests
  <1>4. call' = [r \in Request |-> IF r \in F /\ call[r] = "waiting"
                    THEN IF r \in reliable \cup expired \cup bad THEN "error" ELSE "ok" ELSE call[r]]
    BY <1>3
  <1>5. started' = started \ F
    BY <1>1 DEF finishRequests
  <1>6. K \in SUBSET (1 .. Len(carried))
    BY <1>2
  <1> QED BY <1>1, <1>2, <1>4, <1>5, <1>6

-----------------------------------------------------------------------------
\* The type invariant in parts: callers, queues, what is carried, streams; the peer.
CallTypes ==
    /\ call \in [Request -> {"new", "waiting", "ok", "error"}]
    /\ reliable \subseteq Request /\ expired \subseteq Request
QueueTypes ==
    /\ reliableQueue \in Seq(Request) /\ ephemeralQueue \in Seq(Request)
    /\ Len(reliableQueue) <= QueueCap /\ Len(ephemeralQueue) <= QueueCap
CarryTypes ==
    /\ ready \in Seq(Request) /\ pending \in Seq(Frame) /\ Len(pending) <= Window
    /\ attempts \in [Request -> 0 .. MaxRetries + 1] /\ started \subseteq Request
StreamTypes ==
    /\ stream \in 0 .. opened /\ opened \in 0 .. MaxStream /\ sequence \in Nat /\ closed \in BOOLEAN
    /\ viewEpoch \in [{"client", "server"} -> Nat]
FrameTypes ==
    /\ up \in [Stream -> Seq(Frame)] /\ cut \subseteq Stream
    /\ down \in [Stream -> Seq([req : Request, seq : Nat, epoch : Nat, result : Result])]
TableTypes ==
    /\ srv \in [Stream -> SrvType]
    /\ dedupe \in [Request -> {"none", "running", "ok", "failed", "old"}]
    /\ inst \in Nat /\ log \in Seq(Request \X Nat) /\ succeeded \subseteq Request /\ turnedAway \subseteq Request
TableFits == Cardinality(Entries) <= DedupeCap
LaneParts == CallTypes /\ QueueTypes /\ CarryTypes /\ StreamTypes /\ FrameTypes /\ TableTypes /\ TableFits

\* The types are kept part by part.
LEMMA PartsOfTypes == LaneTypeOK <=> LaneParts
  BY DEF LaneTypeOK, LaneParts, CallTypes, QueueTypes, CarryTypes, StreamTypes, FrameTypes,
         TableTypes, TableFits

\* What the assumption says of each bound.
LEMMA LaneBounds ==
    /\ N \in Nat /\ QueueCap \in Nat \ {0} /\ Window \in Nat \ {0} /\ DedupeCap \in Nat \ {0}
    /\ MaxRetries \in Nat /\ MaxStream \in Nat /\ MaxEpoch \in Nat /\ MaxInst \in Nat
  BY LaneAssumption

\* finishRequests keeps the callers' types when the results are results of calls.
LEMMA FinishTypes ==
    ASSUME CallTypes, CarryTypes, NEW F, NEW res \in [Request -> {"ok", "error"}],
           finishRequests(F, res)
    PROVE  call' \in [Request -> {"new", "waiting", "ok", "error"}] /\ started' \subseteq Request
  BY DEF CallTypes, CarryTypes, finishRequests

\* What the retry of carried requests leaves of the types.
LEMMA RetryTypes ==
    ASSUME LaneTypeOK, NEW retryable, NEW bad, retryRequests(retryable, bad)
    PROVE  /\ ready' \in Seq(Request) /\ started' \subseteq Request
           /\ call' \in [Request -> {"new", "waiting", "ok", "error"}]
  <1>1. PICK K \in SUBSET (1 .. Len(carried)) : \E f \in Ascending(K) :
             /\ ready' = [k \in DOMAIN f |-> carried[f[k]]]
             /\ started' = started \ {carried[p] : p \in (1 .. Len(carried)) \ K}
             /\ call' = [r \in Request |->
                    IF r \in {carried[p] : p \in (1 .. Len(carried)) \ K} /\ call[r] = "waiting"
                    THEN IF r \in reliable \cup expired \cup bad THEN "error" ELSE "ok" ELSE call[r]]
    BY RetryIs
  <1>2. PICK f \in Ascending(K) : ready' = [k \in DOMAIN f |-> carried[f[k]]]
    BY <1>1
  <1>3. carried \in Seq(Request) /\ Len(carried) \in Nat
    BY CarriedIs
  <1>4. /\ Cardinality(K) \in Nat /\ DOMAIN f = 1 .. Cardinality(K)
        /\ f \in [1 .. Cardinality(K) -> 1 .. Len(carried)]
    BY <1>3, AscendingIs
  <1>5. ready' \in [1 .. Cardinality(K) -> Request]
    BY <1>2, <1>3, <1>4
  <1>6. ready' \in Seq(Request)
    BY <1>4, <1>5
  <1>7. call \in [Request -> {"new", "waiting", "ok", "error"}] /\ started \subseteq Request
    BY DEF LaneTypeOK
  <1>8. started' \subseteq Request
    BY <1>1, <1>7
  <1>9. call' \in [Request -> {"new", "waiting", "ok", "error"}]
    BY <1>1, <1>7
  <1> QED BY <1>6, <1>8, <1>9

\* A closed stream leaves an empty window and a retry.
LEMMA CloseStreamTypes ==
    ASSUME LaneTypeOK, NEW retryable, NEW bad, closeStream(retryable, bad)
    PROVE  (CallTypes /\ QueueTypes /\ CarryTypes /\ StreamTypes)'
  <1>1. CallTypes /\ QueueTypes /\ CarryTypes /\ StreamTypes
    BY PartsOfTypes DEF LaneParts
  <1>2. /\ ready' \in Seq(Request) /\ started' \subseteq Request
        /\ call' \in [Request -> {"new", "waiting", "ok", "error"}]
    BY RetryTypes DEF closeStream
  <1>3. CallTypes' /\ QueueTypes'
    BY <1>1, <1>2 DEF closeStream, CallTypes, QueueTypes, queueVars
  <1>4. CarryTypes'
    BY <1>1, <1>2, LaneBounds DEF closeStream, CarryTypes
  <1>5. StreamTypes'
    BY <1>1 DEF closeStream, StreamTypes
  <1> QED BY <1>3, <1>4, <1>5

\* The caller's deadline and its call.
LEMMA CallerTypes ==
    ASSUME LaneTypeOK, NEW r \in Request, Caller(r)
    PROVE  (CallTypes /\ QueueTypes /\ CarryTypes /\ StreamTypes)'
  <1>1. CallTypes /\ QueueTypes /\ CarryTypes /\ StreamTypes
    BY PartsOfTypes DEF LaneParts
  <1>2. CallTypes' /\ CarryTypes' /\ StreamTypes'
    BY <1>1 DEF Caller, Call, CallRejected, Deadline, CallTypes, CarryTypes, StreamTypes, laneVars
  <1>3. ASSUME NEW kind \in {"reliable", "ephemeral"}, Call(r, kind)
        PROVE  QueueTypes'
    <2>1. ASSUME NEW q \in Seq(Request), Len(q) < QueueCap
          PROVE  Append(q, r) \in Seq(Request) /\ Len(Append(q, r)) <= QueueCap
      BY <2>1, LaneBounds
    <2>2. CASE reliableQueue' = Append(reliableQueue, r) /\ Len(reliableQueue) < QueueCap /\ UNCHANGED ephemeralQueue
      BY <1>1, <2>1, <2>2 DEF QueueTypes
    <2>3. CASE ephemeralQueue' = Append(ephemeralQueue, r) /\ Len(ephemeralQueue) < QueueCap /\ UNCHANGED reliableQueue
      BY <1>1, <2>1, <2>3 DEF QueueTypes
    <2> QED BY <1>3, <2>2, <2>3 DEF Call
  <1>4. QueueTypes'
    BY <1>1, <1>3 DEF Caller, CallRejected, Deadline, QueueTypes, queueVars
  <1> QED BY <1>2, <1>4

\* The steps of the lane's goroutine.
LEMMA LaneStepTypes ==
    ASSUME LaneTypeOK, AttemptsLeft, LaneStep
    PROVE  (CallTypes /\ QueueTypes /\ CarryTypes /\ StreamTypes)'
  <1> DEFINE Goal == (CallTypes /\ QueueTypes /\ CarryTypes /\ StreamTypes)'
  <1>1. CallTypes /\ QueueTypes /\ CarryTypes /\ StreamTypes
    BY PartsOfTypes DEF LaneParts
  <1>2. ASSUME Fetch
        PROVE  Goal
    <2>1. ASSUME NEW q \in Seq(Request), q # <<>>
          PROVE  /\ <<Head(q)>> \in Seq(Request) /\ Tail(q) \in Seq(Request)
                 /\ Len(q) \in Nat /\ Len(Tail(q)) = Len(q) - 1
      BY <2>1
    <2>0. pending' = pending /\ attempts' = attempts /\ started' = started
      BY <1>2 DEF Fetch
    <2>2. ASSUME reliableQueue # <<>>, ready' = <<Head(reliableQueue)>>,
                 reliableQueue' = Tail(reliableQueue), UNCHANGED ephemeralQueue
          PROVE  QueueTypes' /\ CarryTypes'
      <3>1. ready' \in Seq(Request) /\ reliableQueue' \in Seq(Request)
        BY <1>1, <2>1, <2>2 DEF QueueTypes
      <3>2. Len(reliableQueue') <= QueueCap
        BY <1>1, <2>1, <2>2, LaneBounds DEF QueueTypes
      <3>3. QueueTypes'
        BY <1>1, <2>2, <3>1, <3>2 DEF QueueTypes
      <3>4. CarryTypes'
        BY <1>1, <2>0, <3>1 DEF CarryTypes
      <3> QED BY <3>3, <3>4
    <2>3. ASSUME ephemeralQueue # <<>>, ready' = <<Head(ephemeralQueue)>>,
                 ephemeralQueue' = Tail(ephemeralQueue), UNCHANGED reliableQueue
          PROVE  QueueTypes' /\ CarryTypes'
      <3>1. ready' \in Seq(Request) /\ ephemeralQueue' \in Seq(Request)
        BY <1>1, <2>1, <2>3 DEF QueueTypes
      <3>2. Len(ephemeralQueue') <= QueueCap
        BY <1>1, <2>1, <2>3, LaneBounds DEF QueueTypes
      <3>3. QueueTypes'
        BY <1>1, <2>3, <3>1, <3>2 DEF QueueTypes
      <3>4. CarryTypes'
        BY <1>1, <2>0, <3>1 DEF CarryTypes
      <3> QED BY <3>3, <3>4
    <2>4. QueueTypes' /\ CarryTypes'
      BY <1>2, <2>2, <2>3 DEF Fetch
    <2> QED BY <1>1, <1>2, <2>4 DEF Fetch, CallTypes, StreamTypes, callVars
  <1>3. ASSUME ensureStream
        PROVE  Goal
    <2>1. opened \in Nat /\ opened < MaxStream /\ opened' = opened + 1 /\ stream' = opened + 1
      BY <1>1, <1>3, LaneBounds DEF ensureStream, StreamTypes
    <2>2. StreamTypes'
      BY <1>1, <1>3, <2>1, LaneBounds DEF ensureStream, StreamTypes
    <2> QED BY <1>1, <1>3, <2>2 DEF ensureStream, CallTypes, CarryTypes, QueueTypes, callVars, queueVars
  <1>4. ASSUME SendFrame
        PROVE  Goal
    <2>1. PICK r : r = Head(ready)
      OBVIOUS
    <2>2. PICK frame : frame = [req |-> r, seq |-> sequence + 1, epoch |-> viewEpoch.client]
      OBVIOUS
    <2>3. r \in Request /\ r = ready[1] /\ 1 \in 1 .. Len(ready) /\ ready' \in Seq(Request)
      BY <1>1, <1>4, <2>1 DEF SendFrame, CarryTypes
    <2>4. frame \in Frame
      BY <1>1, <2>2, <2>3 DEF StreamTypes, Frame
    <2>5. pending' = Append(pending, frame) /\ Len(pending) < Window
      BY <1>4, <2>1, <2>2 DEF SendFrame
    <2>6. pending' \in Seq(Frame) /\ Len(pending') <= Window
      BY <1>1, <2>4, <2>5, LaneBounds DEF CarryTypes
    <2>7. attempts[r] \in 0 .. MaxRetries
      BY <1>1, <2>3, LaneBounds DEF AttemptsLeft, CarryTypes
    <2>8. attempts' = [attempts EXCEPT ![r] = attempts[r] + 1] /\ started' = started \cup {r}
      BY <1>4, <2>1 DEF SendFrame
    <2>9. attempts' \in [Request -> 0 .. MaxRetries + 1] /\ started' \subseteq Request
      BY <1>1, <2>3, <2>7, <2>8, LaneBounds DEF CarryTypes
    <2>10. CarryTypes'
      BY <2>3, <2>6, <2>9 DEF CarryTypes
    <2>11. StreamTypes'
      BY <1>1, <1>4 DEF SendFrame, StreamTypes
    <2> QED BY <1>1, <1>4, <2>10, <2>11 DEF SendFrame, CallTypes, QueueTypes, callVars, queueVars
  <1>5. ASSUME SkipExpired
        PROVE  Goal
    <2>1. call' \in [Request -> {"new", "waiting", "ok", "error"}] /\ started' \subseteq Request
      BY <1>1, <1>5, FinishTypes DEF SkipExpired
    <2> QED BY <1>1, <1>5, <2>1 DEF SkipExpired, CallTypes, QueueTypes, CarryTypes, StreamTypes, queueVars
  <1>6. ASSUME ensureStreamFails
        PROVE  Goal
    <2>1. /\ ready' \in Seq(Request) /\ started' \subseteq Request
          /\ call' \in [Request -> {"new", "waiting", "ok", "error"}]
      BY <1>6, RetryTypes DEF ensureStreamFails
    <2> QED BY <1>1, <1>6, <2>1 DEF ensureStreamFails, CallTypes, QueueTypes, CarryTypes, StreamTypes, queueVars
  <1>7. ASSUME Receive
        PROVE  Goal
    <2>1. PICK m : m = Head(down[stream])
      OBVIOUS
    <2>2. PICK i \in DOMAIN pending :
              /\ finishRequests({m.req}, [r \in Request |-> IF m.result = "ok" THEN "ok" ELSE "error"])
              /\ pending' = SubSeq(pending, 1, i - 1) \o SubSeq(pending, i + 1, Len(pending))
      BY <1>7, <2>1 DEF Receive, validateResponse
    <2>3. call' \in [Request -> {"new", "waiting", "ok", "error"}] /\ started' \subseteq Request
      BY <1>1, <2>2, FinishTypes
    <2>4. pending \in Seq(Frame) /\ i \in 1 .. Len(pending)
      BY <1>1 DEF CarryTypes
    <2>5. pending' \in Seq(Frame) /\ Len(pending') = Len(pending) - 1
      BY <2>2, <2>4, WithoutPlace
    <2>6. CarryTypes'
      <3>1. ready' = ready /\ attempts' = attempts
        BY <1>7 DEF Receive
      <3>2. Len(pending') <= Window
        <4>1. Len(pending) \in Nat /\ Len(pending) <= Window
          BY <1>1 DEF CarryTypes
        <4> QED BY <2>5, <4>1, LaneBounds
      <3> QED BY <1>1, <2>3, <2>5, <3>1, <3>2 DEF CarryTypes
    <2> QED BY <1>1, <1>7, <2>3, <2>6 DEF Receive, CallTypes, QueueTypes, StreamTypes, queueVars
  <1>8. ASSUME NEW retryable, NEW bad, closeStream(retryable, bad)
        PROVE  Goal
    BY <1>8, CloseStreamTypes
  <1> HIDE DEF Goal
  <1>9. Goal
    BY <1>2, <1>3, <1>4, <1>5, <1>6, <1>7, <1>8 DEF LaneStep, StreamFails, Tick, ReceiveInvalid
  <1> QED BY <1>9 DEF Goal

\* Every step keeps the types of the callers' side: calls, queues and what the lane holds.
LEMMA ClientTypesStep ==
    ASSUME LaneTypeOK, AttemptsLeft, LaneNext
    PROVE  (CallTypes /\ QueueTypes /\ CarryTypes /\ StreamTypes)'
  <1> DEFINE Goal == (CallTypes /\ QueueTypes /\ CarryTypes /\ StreamTypes)'
  <1>1. CallTypes /\ QueueTypes /\ CarryTypes /\ StreamTypes
    BY PartsOfTypes DEF LaneParts
  <1>2. ASSUME UNCHANGED <<callVars, queueVars, laneVars>>, viewEpoch' \in [{"client", "server"} -> Nat]
        PROVE  Goal
    BY <1>1, <1>2 DEF callVars, queueVars, laneVars, CallTypes, QueueTypes, CarryTypes, StreamTypes
  <1>3. ASSUME NEW e \in {"client", "server"}, ViewMoves(e)
        PROVE  Goal
    <2>1. viewEpoch' \in [{"client", "server"} -> Nat]
      BY <1>1, <1>3 DEF ViewMoves, StreamTypes
    <2> QED BY <1>2, <1>3, <2>1 DEF ViewMoves
  <1>4. ASSUME NEW s \in Stream, PeerStep(s)
        PROVE  UNCHANGED <<callVars, queueVars, laneVars, viewEpoch>>
    BY <1>4 DEF PeerStep, LaneRecv, LaneRefuses, LaneReplies, LaneEnds, ExecuteStarts,
                ExecuteWindowFull, ExecuteHits, ExecuteEnds
  <1>5. ASSUME NEW r \in Request, TTLPasses(r)
        PROVE  UNCHANGED <<callVars, queueVars, laneVars, viewEpoch>>
    BY <1>5 DEF TTLPasses
  <1>6. ASSUME UNCHANGED <<callVars, queueVars, laneVars, viewEpoch>>
        PROVE  Goal
    BY <1>1, <1>2, <1>6 DEF StreamTypes
  <1>7. ASSUME Close
        PROVE  Goal
    <2>1. call' \in [Request -> {"new", "waiting", "ok", "error"}] /\ started' \subseteq Request
      BY <1>1, <1>7, FinishTypes DEF Close
    <2>2. CallTypes' /\ QueueTypes'
      BY <1>1, <1>7, <2>1, LaneBounds DEF Close, CallTypes, QueueTypes
    <2>3. CarryTypes' /\ StreamTypes'
      BY <1>1, <1>7, <2>1, LaneBounds DEF Close, CarryTypes, StreamTypes
    <2> QED BY <2>2, <2>3
  <1>8. ASSUME PeerRestarts
        PROVE  UNCHANGED <<callVars, queueVars, laneVars, viewEpoch>>
    BY <1>8 DEF PeerRestarts
  <1>9. ASSUME NEW r \in Request, Caller(r)
        PROVE  Goal
    BY <1>9, CallerTypes
  <1>10. ASSUME LaneStep
         PROVE  Goal
    BY <1>10, LaneStepTypes
  <1> HIDE DEF Goal
  <1>11. Goal
    BY <1>3, <1>4, <1>5, <1>6, <1>7, <1>8, <1>9, <1>10 DEF LaneNext
  <1> QED BY <1>11 DEF Goal

-----------------------------------------------------------------------------
\* A handler in full; the handler srv[s] of a stream, and the two ways it changes in part.
HandlerOf(pc, x, f, e, res) == [pc |-> pc, expected |-> x, frame |-> f, epoch |-> e, result |-> res]
With(s, pc, res) == HandlerOf(pc, srv[s].expected, srv[s].frame, srv[s].epoch, res)

\* The parts of a handler, and the handler of a stream put together from its parts.
LEMMA HandlerFields ==
    ASSUME NEW pc, NEW x, NEW f, NEW e, NEW res
    PROVE  /\ HandlerOf(pc, x, f, e, res).pc = pc
           /\ HandlerOf(pc, x, f, e, res).expected = x
           /\ HandlerOf(pc, x, f, e, res).frame = f
           /\ HandlerOf(pc, x, f, e, res).epoch = e
           /\ HandlerOf(pc, x, f, e, res).result = res
  BY DEF HandlerOf

\* The fields of a handler.
LEMMA HandlerTypes ==
    ASSUME TableTypes, NEW s \in Stream
    PROVE  /\ srv[s] \in SrvType
           /\ srv[s].pc \in {"off", "recv", "got", "exec", "wait", "reply", "done"}
           /\ srv[s].expected \in Nat /\ srv[s].frame \in Frame \cup {NoFrame}
           /\ srv[s].epoch \in Nat /\ srv[s].result \in Result \cup {"none"}
           /\ srv[s] = With(s, srv[s].pc, srv[s].result)
  <1>1. srv[s] \in SrvType
    BY DEF TableTypes
  <1> QED BY <1>1 DEF SrvType, With, HandlerOf

\* A handler of typed parts is typed.
LEMMA HandlerIsTyped ==
    ASSUME NEW pc \in {"off", "recv", "got", "exec", "wait", "reply", "done"}, NEW x \in Nat,
           NEW f \in Frame \cup {NoFrame}, NEW e \in Nat, NEW res \in Result \cup {"none"}
    PROVE  HandlerOf(pc, x, f, e, res) \in SrvType
  BY DEF HandlerOf, SrvType

\* The handler of one stream is replaced.
LEMMA OneHandler ==
    ASSUME TableTypes, NEW s \in Stream, NEW h \in SrvType, srv' = [srv EXCEPT ![s] = h]
    PROVE  /\ srv' \in [Stream -> SrvType] /\ srv'[s] = h
           /\ \A q \in Stream : q # s => srv'[q] = srv[q]
  BY DEF TableTypes

\* Its place alone changes ...
LEMMA PlaceIs ==
    ASSUME TableTypes, NEW s \in Stream, NEW pc
    PROVE  [srv EXCEPT ![s].pc = pc] = [srv EXCEPT ![s] = With(s, pc, srv[s].result)]
  <1>1. srv[s] \in SrvType
    BY DEF TableTypes
  <1>2. [srv[s] EXCEPT !.pc = pc] = With(s, pc, srv[s].result)
    BY <1>1 DEF SrvType, With, HandlerOf
  <1> QED BY <1>2

\* ... or it answers.
LEMMA AnswerIs ==
    ASSUME TableTypes, NEW s \in Stream, NEW res
    PROVE  Answer(s, res) = [srv EXCEPT ![s] = With(s, "reply", res)]
  <1>1. srv \in [Stream -> SrvType]
    BY DEF TableTypes
  <1>2. srv[s] \in SrvType
    BY <1>1
  <1>3. [[srv[s] EXCEPT !.pc = "reply"] EXCEPT !.result = res] = With(s, "reply", res)
    <2>1. [srv[s] EXCEPT !.pc = "reply"] = With(s, "reply", srv[s].result)
      BY <1>2 DEF SrvType, With, HandlerOf
    <2>2. [With(s, "reply", srv[s].result) EXCEPT !.result = res] = With(s, "reply", res)
      BY DEF With, HandlerOf
    <2> QED BY <2>1, <2>2
  <1>4. Answer(s, res) = [srv EXCEPT ![s] = [[srv[s] EXCEPT !.pc = "reply"] EXCEPT !.result = res]]
    BY <1>1 DEF Answer
  <1> QED BY <1>3, <1>4

\* What each step of a handler does to the handlers, and what it needs.
LEMMA HandlerSteps ==
    ASSUME LaneTypeOK, FramesNumbered, NEW s \in Stream
    PROVE  /\ LaneRecv(s) => /\ srv[s].pc = "recv" /\ up[s] # <<>> /\ Head(up[s]) \in Frame
                             /\ srv' = [srv EXCEPT ![s] = HandlerOf("got", srv[s].expected,
                                            Head(up[s]), viewEpoch.server, "none")]
           /\ LaneRefuses(s) => srv[s].pc = "got" /\ srv' = [srv EXCEPT ![s] = With(s, "reply", "refused")]
           /\ ExecuteStarts(s) => /\ srv[s].pc = "got"
                                  /\ srv' = [srv EXCEPT ![s] = With(s, "exec", srv[s].result)]
           /\ ExecuteWindowFull(s) => /\ srv[s].pc = "got"
                                      /\ srv' = [srv EXCEPT ![s] = With(s, "reply", "failed")]
           /\ ExecuteHits(s) => /\ srv[s].pc = "got" /\ Live(srv[s].frame.req)
                                /\ \/ /\ dedupe[srv[s].frame.req] = "running"
                                      /\ srv' = [srv EXCEPT ![s] = With(s, "wait", srv[s].result)]
                                   \/ /\ dedupe[srv[s].frame.req] \in {"ok", "failed"}
                                      /\ srv' = [srv EXCEPT ![s] = With(s, "reply", dedupe[srv[s].frame.req])]
           /\ LaneReplies(s) => /\ srv[s].pc = "reply"
                                /\ srv' = [srv EXCEPT ![s] = HandlerOf(
                                       IF srv[s].result = "refused" THEN "done" ELSE "recv",
                                       srv[s].expected + 1, NoFrame, 0, "none")]
           /\ LaneEnds(s) => /\ srv[s].pc \in {"recv", "wait", "reply"} /\ s \in cut
                             /\ srv' = [srv EXCEPT ![s] = HandlerOf("done", 1, NoFrame, 0, "none")]
  <1>1. TableTypes
    BY PartsOfTypes DEF LaneParts
  <1>2. ASSUME LaneRecv(s)
        PROVE  /\ srv[s].pc = "recv" /\ up[s] # <<>> /\ Head(up[s]) \in Frame
               /\ srv' = [srv EXCEPT ![s] = HandlerOf("got", srv[s].expected,
                              Head(up[s]), viewEpoch.server, "none")]
    <2>1. up[s] \in Seq(Frame)
      BY PartsOfTypes DEF LaneParts, FrameTypes
    <2>2. srv[s].pc = "recv" /\ up[s] # <<>>
      BY <1>2 DEF LaneRecv
    <2> QED BY <1>2, <2>1, <2>2 DEF LaneRecv, HandlerOf
  <1>3. LaneRefuses(s) => srv[s].pc = "got" /\ srv' = [srv EXCEPT ![s] = With(s, "reply", "refused")]
    BY <1>1, AnswerIs DEF LaneRefuses
  <1>4. ExecuteStarts(s) => srv[s].pc = "got" /\ srv' = [srv EXCEPT ![s] = With(s, "exec", srv[s].result)]
    BY <1>1, PlaceIs DEF ExecuteStarts
  <1>5. ExecuteWindowFull(s) => srv[s].pc = "got" /\ srv' = [srv EXCEPT ![s] = With(s, "reply", "failed")]
    BY <1>1, AnswerIs DEF ExecuteWindowFull
  <1>6. ASSUME ExecuteHits(s)
        PROVE  /\ srv[s].pc = "got" /\ Live(srv[s].frame.req)
               /\ \/ /\ dedupe[srv[s].frame.req] = "running"
                     /\ srv' = [srv EXCEPT ![s] = With(s, "wait", srv[s].result)]
                  \/ /\ dedupe[srv[s].frame.req] \in {"ok", "failed"}
                     /\ srv' = [srv EXCEPT ![s] = With(s, "reply", dedupe[srv[s].frame.req])]
    <2>1. srv[s].pc = "got" /\ Live(srv[s].frame.req)
      BY <1>6 DEF ExecuteHits
    <2>2. CASE dedupe[srv[s].frame.req] = "running"
      BY <1>1, <1>6, <2>1, <2>2, PlaceIs DEF ExecuteHits
    <2>3. CASE dedupe[srv[s].frame.req] # "running"
      BY <1>1, <1>6, <2>1, <2>3, AnswerIs DEF ExecuteHits, Live
    <2> QED BY <2>2, <2>3
  <1>7. LaneReplies(s) => /\ srv[s].pc = "reply"
                          /\ srv' = [srv EXCEPT ![s] = HandlerOf(
                                 IF srv[s].result = "refused" THEN "done" ELSE "recv",
                                 srv[s].expected + 1, NoFrame, 0, "none")]
    BY DEF LaneReplies, HandlerOf
  <1>8. LaneEnds(s) => /\ srv[s].pc \in {"recv", "wait", "reply"} /\ s \in cut
                       /\ srv' = [srv EXCEPT ![s] = HandlerOf("done", 1, NoFrame, 0, "none")]
    BY DEF LaneEnds, GoneHandler, Handler, HandlerOf
  <1> QED BY <1>2, <1>3, <1>4, <1>5, <1>6, <1>7, <1>8

-----------------------------------------------------------------------------
\* A stream in use is one of the streams.
LEMMA StreamIs ==
    ASSUME LaneTypeOK, stream # 0
    PROVE  stream \in Stream /\ stream \in 1 .. opened /\ opened \in Nat
  BY LaneBounds, PartsOfTypes DEF LaneParts, StreamTypes, Stream

\* Every step keeps the frames under way.
LEMMA FrameTypesStep ==
    ASSUME LaneTypeOK, FramesNumbered, LaneNext
    PROVE  FrameTypes'
  <1> DEFINE Goal == FrameTypes'
             Reply == [req : Request, seq : Nat, epoch : Nat, result : Result]
  <1>1. /\ CallTypes /\ QueueTypes /\ CarryTypes /\ StreamTypes /\ TableTypes
        /\ up \in [Stream -> Seq(Frame)] /\ cut \subseteq Stream /\ down \in [Stream -> Seq(Reply)]
    BY PartsOfTypes DEF LaneParts, FrameTypes
  <1>2. FrameTypes' <=> up' \in [Stream -> Seq(Frame)] /\ cut' \subseteq Stream /\ down' \in [Stream -> Seq(Reply)]
    BY DEF FrameTypes
  <1>3. <<>> \in Seq(Frame) /\ <<>> \in Seq(Reply)
    OBVIOUS
  <1>4. ASSUME NEW r \in Request, NEW q \in Nat, NEW e \in Nat, NEW res \in Result
        PROVE  [req |-> r, seq |-> q, epoch |-> e, result |-> res] \in Reply
    OBVIOUS
  <1> HIDE DEF Reply
  <1>5. ASSUME UNCHANGED netVars
        PROVE  Goal
    BY <1>2, <1>1, <1>5 DEF netVars
  <1>6. ASSUME SendFrame
        PROVE  Goal
    <2>1. PICK frame : frame = [req |-> Head(ready), seq |-> sequence + 1, epoch |-> viewEpoch.client]
      OBVIOUS
    <2>2. stream # 0 /\ ready # <<>> /\ up' = [up EXCEPT ![stream] = Append(@, frame)] /\ down' = down /\ cut' = cut
      BY <1>6, <2>1 DEF SendFrame
    <2>3. Head(ready) \in Request
      BY <1>1, <2>2 DEF CarryTypes
    <2>4. frame \in Frame
      BY <1>1, <2>1, <2>3 DEF StreamTypes, Frame
    <2>5. up' \in [Stream -> Seq(Frame)]
      BY <1>1, <2>2, <2>4, StreamIs
    <2> QED BY <1>2, <1>1, <2>2, <2>5
  <1>7. ASSUME NEW retryable, NEW bad, closeStream(retryable, bad), stream # 0
        PROVE  Goal
    BY <1>2, <1>1, <1>3, <1>7, StreamIs DEF closeStream
  <1>8. ASSUME Receive
        PROVE  Goal
    <2>1. stream # 0 /\ down[stream] # <<>> /\ down' = [down EXCEPT ![stream] = Tail(@)] /\ UNCHANGED <<up, cut>>
      BY <1>8 DEF Receive, Waits
    <2>2. down[stream] \in Seq(Reply)
      BY <1>1, <2>1, StreamIs
    <2>3. Tail(down[stream]) \in Seq(Reply)
      BY <2>1, <2>2
    <2> QED BY <1>2, <1>1, <2>1, <2>3
  <1>9. ASSUME Close
        PROVE  Goal
    <2>1. 1 .. opened \subseteq Stream
      BY <1>1, LaneBounds DEF StreamTypes, Stream
    <2> QED BY <1>2, <1>1, <1>3, <1>9, <2>1 DEF Close
  <1>10. ASSUME NEW s \in Stream, LaneRecv(s)
        PROVE  Goal
    <2>1. up[s] \in Seq(Frame) /\ up[s] # <<>> /\ up' = [up EXCEPT ![s] = Tail(@)] /\ UNCHANGED <<down, cut>>
      BY <1>1, <1>10 DEF LaneRecv
    <2>2. Tail(up[s]) \in Seq(Frame)
      BY <2>1
    <2> QED BY <1>2, <1>1, <2>1, <2>2
  <1>11. ASSUME NEW s \in Stream, LaneReplies(s)
        PROVE  Goal
    <2>1. PICK reply : reply = [req |-> srv[s].frame.req, seq |-> srv[s].frame.seq,
                                epoch |-> srv[s].epoch, result |-> srv[s].result]
      OBVIOUS
    <2>2. srv[s].pc = "reply" /\ UNCHANGED <<up, cut>>
      BY <1>11 DEF LaneReplies
    <2>3. srv[s].frame \in Frame /\ srv[s].result \in Result
      BY <2>2 DEF FramesNumbered, Holding
    <2>4. srv[s].frame.req \in Request /\ srv[s].frame.seq \in Nat /\ srv[s].epoch \in Nat
      BY <1>1, <2>3, HandlerTypes DEF Frame
    <2>5. reply \in Reply
      BY <1>4, <2>1, <2>3, <2>4
    <2>6. \/ down' = down
          \/ down' = [down EXCEPT ![s] = Append(@, reply)]
      BY <1>11, <2>1 DEF LaneReplies
    <2>7. down[s] \in Seq(Reply)
      BY <1>1
    <2>8. Append(down[s], reply) \in Seq(Reply)
      BY <2>5, <2>7
    <2>9. down' \in [Stream -> Seq(Reply)]
      BY <1>1, <2>6, <2>8
    <2> QED BY <1>2, <1>1, <2>2, <2>9
  <1>12. ASSUME NEW s \in Stream, LaneEnds(s)
        PROVE  Goal
    BY <1>2, <1>1, <1>3, <1>12 DEF LaneEnds
  <1>13. ASSUME PeerRestarts
         PROVE  Goal
    BY <1>2, <1>1, <1>3, <1>13 DEF PeerRestarts
  <1>14. ASSUME NEW s \in Stream, PeerStep(s)
         PROVE  Goal
    BY <1>5, <1>10, <1>11, <1>12, <1>14 DEF PeerStep, LaneRefuses, ExecuteStarts, ExecuteWindowFull, ExecuteHits,
           ExecuteEnds
  <1>15. ASSUME LaneStep
         PROVE  Goal
    BY <1>5, <1>6, <1>7, <1>8, <1>15 DEF LaneStep, Fetch, ensureStream, ensureStreamFails, SkipExpired,
           StreamFails, Tick, ReceiveInvalid, Waits
  <1>16. ASSUME NEW r \in Request, Caller(r) \/ TTLPasses(r)
         PROVE  Goal
    BY <1>5, <1>16 DEF Caller, Call, CallRejected, Deadline, TTLPasses
  <1>17. ASSUME NEW e \in {"client", "server"}, ViewMoves(e)
         PROVE  Goal
    BY <1>5, <1>17 DEF ViewMoves
  <1> HIDE DEF Goal
  <1>18. Goal
    BY <1>9, <1>13, <1>14, <1>15, <1>16, <1>17 DEF LaneNext
  <1> QED BY <1>18 DEF Goal

-----------------------------------------------------------------------------
\* Every step keeps the handlers, the table and the log in their types.
LEMMA TableTypesStep ==
    ASSUME LaneTypeOK, FramesNumbered, LaneNext
    PROVE  TableTypes'
  <1> DEFINE Goal == TableTypes'
             States == {"none", "running", "ok", "failed", "old"}
  <1>1. TableTypes /\ StreamTypes /\ FrameTypes
    BY PartsOfTypes DEF LaneParts
  <1>2. ASSUME UNCHANGED peerVars
        PROVE  Goal
    BY <1>1, <1>2 DEF TableTypes, peerVars
  <1>3. ASSUME srv' \in [Stream -> SrvType], UNCHANGED <<dedupe, inst, log, succeeded, turnedAway>>
        PROVE  Goal
    BY <1>1, <1>3 DEF TableTypes
  <1>4. ASSUME ensureStream
        PROVE  Goal
    <2>1. opened + 1 \in Stream
      BY <1>1, <1>4, LaneBounds DEF ensureStream, StreamTypes, Stream
    <2>2. srv' = [srv EXCEPT ![opened + 1].pc = "recv"]
      BY <1>4 DEF ensureStream
    <2>3. srv' = [srv EXCEPT ![opened + 1] = With(opened + 1, "recv", srv[opened + 1].result)]
      BY <1>1, <2>1, <2>2, PlaceIs
    <2>4. With(opened + 1, "recv", srv[opened + 1].result) \in SrvType
      BY <1>1, <2>1, HandlerTypes, HandlerIsTyped DEF With
    <2>5. srv' \in [Stream -> SrvType]
      BY <1>1, <2>1, <2>3, <2>4, OneHandler
    <2> QED BY <1>3, <1>4, <2>5 DEF ensureStream
  <1>5. ASSUME NEW s \in Stream, PeerStep(s), ~ExecuteEnds(s)
        PROVE  srv' \in [Stream -> SrvType]
    <2>1. PICK h : srv' = [srv EXCEPT ![s] = h] /\ h \in SrvType
      <3> DEFINE old == srv[s]
      <3>1. /\ old.expected \in Nat /\ old.expected + 1 \in Nat /\ old.frame \in Frame \cup {NoFrame}
            /\ old.epoch \in Nat /\ old.result \in Result \cup {"none"} /\ NoFrame \in Frame \cup {NoFrame}
            /\ viewEpoch.server \in Nat /\ 0 \in Nat /\ 1 \in Nat
        BY <1>1, HandlerTypes DEF StreamTypes
      <3>2. "refused" \in Result \cup {"none"} /\ {"ok", "failed", "none"} \subseteq Result \cup {"none"}
        BY DEF Result
      <3>3. CASE LaneRecv(s)
        BY <3>1, <3>2, <3>3, HandlerSteps, HandlerIsTyped
      <3>4. CASE LaneRefuses(s) \/ ExecuteStarts(s) \/ ExecuteWindowFull(s) \/ ExecuteHits(s)
        <4>1. ASSUME NEW pc \in {"exec", "wait", "reply"}, NEW res \in Result \cup {"none"}
              PROVE  With(s, pc, res) \in SrvType
          BY <3>1, HandlerIsTyped DEF With
        <4>2. \E pc \in {"exec", "wait", "reply"}, res \in Result \cup {"none"} :
                  srv' = [srv EXCEPT ![s] = With(s, pc, res)]
          <5> DEFINE Some == \E pc \in {"exec", "wait", "reply"}, res \in Result \cup {"none"} :
                                 srv' = [srv EXCEPT ![s] = With(s, pc, res)]
          <5>1. ASSUME NEW pc \in {"exec", "wait", "reply"}, NEW res \in Result \cup {"none"},
                       srv' = [srv EXCEPT ![s] = With(s, pc, res)]
                PROVE  Some
            BY <5>1
          <5>2. {"refused", "failed", "ok", srv[s].result} \subseteq Result \cup {"none"}
            BY <3>1, <3>2
          <5> HIDE DEF Some
          <5>3. ASSUME LaneRefuses(s)
                PROVE  Some
            BY <5>1, <5>2, <5>3, HandlerSteps
          <5>4. ASSUME ExecuteStarts(s)
                PROVE  Some
            BY <5>1, <5>2, <5>4, HandlerSteps
          <5>5. ASSUME ExecuteWindowFull(s)
                PROVE  Some
            BY <5>1, <5>2, <5>5, HandlerSteps
          <5>6. ASSUME ExecuteHits(s)
                PROVE  Some
            <6>1. CASE srv' = [srv EXCEPT ![s] = With(s, "wait", srv[s].result)]
              BY <5>1, <5>2, <6>1
            <6>2. CASE /\ dedupe[srv[s].frame.req] \in {"ok", "failed"}
                       /\ srv' = [srv EXCEPT ![s] = With(s, "reply", dedupe[srv[s].frame.req])]
              <7>1. dedupe[srv[s].frame.req] \in Result \cup {"none"}
                BY <5>2, <6>2
              <7> QED BY <5>1, <6>2, <7>1
            <6>3. \/ srv' = [srv EXCEPT ![s] = With(s, "wait", srv[s].result)]
                  \/ /\ dedupe[srv[s].frame.req] \in {"ok", "failed"}
                     /\ srv' = [srv EXCEPT ![s] = With(s, "reply", dedupe[srv[s].frame.req])]
              BY <5>6, HandlerSteps
            <6> QED BY <6>1, <6>2, <6>3
          <5>7. Some
            BY <3>4, <5>3, <5>4, <5>5, <5>6
          <5> QED BY <5>7 DEF Some
        <4>3. PICK pc \in {"exec", "wait", "reply"}, res \in Result \cup {"none"} :
                  srv' = [srv EXCEPT ![s] = With(s, pc, res)]
          BY <4>2
        <4>4. srv' = [srv EXCEPT ![s] = With(s, pc, res)] /\ With(s, pc, res) \in SrvType
          BY <4>1, <4>3
        <4> QED BY <4>4
      <3>5. CASE LaneReplies(s)
        <4>1. PICK pc \in {"done", "recv"} :
                  srv' = [srv EXCEPT ![s] = HandlerOf(pc, srv[s].expected + 1, NoFrame, 0, "none")]
          BY <3>5, HandlerSteps
        <4> QED BY <3>1, <3>2, <4>1, HandlerIsTyped
      <3>6. CASE LaneEnds(s)
        <4>1. srv' = [srv EXCEPT ![s] = HandlerOf("done", 1, NoFrame, 0, "none")]
          BY <3>6, HandlerSteps
        <4>2. HandlerOf("done", 1, NoFrame, 0, "none") \in SrvType
          BY <3>1, <3>2, HandlerIsTyped
        <4> QED BY <4>1, <4>2
      <3> QED BY <1>5, <3>3, <3>4, <3>5, <3>6 DEF PeerStep
    <2> QED BY <1>1, <2>1, OneHandler
  <1>6. ASSUME NEW s \in Stream, ExecuteStarts(s)
        PROVE  Goal
    <2>1. srv' \in [Stream -> SrvType]
      <3>1. srv[s].pc = "got" /\ ~ExecuteEnds(s)
        BY <1>6 DEF ExecuteStarts, ExecuteEnds
      <3> QED BY <1>5, <1>6, <3>1 DEF PeerStep
    <2>2. srv[s].pc = "got" /\ srv[s].frame \in Frame
      BY <1>6 DEF ExecuteStarts, FramesNumbered, Holding
    <2>3. srv[s].frame.req \in Request
      BY <2>2 DEF Frame
    <2>4. log' \in Seq(Request \X Nat)
      BY <1>1, <1>6, <2>3 DEF ExecuteStarts, TableTypes
    <2>5. dedupe' \in [Request -> States]
      BY <1>1, <1>6, <2>3 DEF ExecuteStarts, TableTypes
    <2> QED BY <1>1, <1>6, <2>1, <2>4, <2>5 DEF ExecuteStarts, TableTypes
  <1>7. ASSUME NEW s \in Stream, ExecuteWindowFull(s)
        PROVE  Goal
    <2>1. srv' \in [Stream -> SrvType]
      <3>1. srv[s].pc = "got" /\ ~ExecuteEnds(s)
        BY <1>7 DEF ExecuteWindowFull, ExecuteEnds
      <3> QED BY <1>5, <1>7, <3>1 DEF PeerStep
    <2>2. srv[s].pc = "got" /\ srv[s].frame \in Frame
      BY <1>7 DEF ExecuteWindowFull, FramesNumbered, Holding
    <2>3. srv[s].frame.req \in Request
      BY <2>2 DEF Frame
    <2> QED BY <1>1, <1>7, <2>1, <2>3 DEF ExecuteWindowFull, TableTypes
  <1>8. ASSUME NEW s \in Stream, ExecuteEnds(s)
        PROVE  Goal
    <2>1. srv[s].pc = "exec" /\ srv[s].frame \in Frame
      BY <1>8 DEF ExecuteEnds, FramesNumbered, Holding
    <2>2. srv[s].frame.req \in Request
      BY <2>1 DEF Frame
    <2>3. PICK res \in {"ok", "failed"} :
              /\ dedupe' = [dedupe EXCEPT ![srv[s].frame.req] = res]
              /\ succeeded' = IF res = "ok" THEN succeeded \cup {srv[s].frame.req} ELSE succeeded
              /\ srv' = [q \in Stream |->
                    IF q = s \/ (srv[q].pc = "wait" /\ srv[q].frame.req = srv[s].frame.req)
                      THEN HandlerOf("reply", srv[q].expected, srv[q].frame, srv[q].epoch, res)
                      ELSE srv[q]]
      BY <1>8 DEF ExecuteEnds, HandlerOf
    <2>4. res \in Result
      BY DEF Result
    <2>5. ASSUME NEW q \in Stream
          PROVE  HandlerOf("reply", srv[q].expected, srv[q].frame, srv[q].epoch, res) \in SrvType /\ srv[q] \in SrvType
      BY <1>1, <2>4, HandlerTypes, HandlerIsTyped
    <2>6. srv' \in [Stream -> SrvType]
      BY <2>3, <2>5
    <2>7. dedupe' \in [Request -> States] /\ succeeded' \subseteq Request
      BY <1>1, <2>2, <2>3 DEF TableTypes
    <2> QED BY <1>1, <1>8, <2>6, <2>7 DEF ExecuteEnds, TableTypes
  <1>9. ASSUME NEW s \in Stream, PeerStep(s)
        PROVE  Goal
    <2>1. CASE LaneRecv(s) \/ LaneRefuses(s) \/ LaneReplies(s) \/ LaneEnds(s) \/ ExecuteHits(s)
      <3>1. srv[s].pc # "exec" /\ UNCHANGED <<dedupe, inst, log, succeeded, turnedAway>>
        BY <2>1 DEF LaneRecv, LaneRefuses, LaneReplies, LaneEnds, ExecuteHits
      <3>2. ~ExecuteEnds(s)
        BY <3>1 DEF ExecuteEnds
      <3> QED BY <1>3, <1>5, <1>9, <3>1, <3>2
    <2> QED BY <1>6, <1>7, <1>8, <1>9, <2>1 DEF PeerStep
  <1>10. ASSUME NEW r \in Request, Caller(r) \/ TTLPasses(r)
         PROVE  Goal
    <2>1. CASE TTLPasses(r)
      BY <1>1, <2>1 DEF TTLPasses, TableTypes
    <2> QED BY <1>2, <1>10, <2>1 DEF Caller, Call, CallRejected, Deadline
  <1>11. ASSUME PeerRestarts
         PROVE  Goal
    <2>1. GoneHandler \in SrvType
      BY HandlerIsTyped DEF GoneHandler, Handler, HandlerOf
    <2>2. srv' \in [Stream -> SrvType]
      BY <1>1, <1>11, <2>1 DEF PeerRestarts, TableTypes
    <2> QED BY <1>1, <1>11, <2>2 DEF PeerRestarts, TableTypes
  <1>12. ASSUME LaneStep \/ Close
         PROVE  Goal
    BY <1>2, <1>4, <1>12 DEF LaneStep, Fetch, ensureStreamFails, SendFrame, SkipExpired, StreamFails,
           Tick, Receive, ReceiveInvalid, closeStream, Close
  <1>13. ASSUME NEW e \in {"client", "server"}, ViewMoves(e)
         PROVE  Goal
    BY <1>2, <1>13 DEF ViewMoves
  <1> HIDE DEF Goal
  <1>14. Goal
    BY <1>9, <1>10, <1>11, <1>12, <1>13 DEF LaneNext
  <1> QED BY <1>14 DEF Goal

-----------------------------------------------------------------------------
\* Steps that have nothing to do with the table of executed requests.
Elsewhere == UNCHANGED <<dedupe, log, inst, succeeded, turnedAway>>

\* A step is one of those of the table or leaves it alone.
LEMMA TableSteps ==
    ASSUME LaneNext
    PROVE  \/ Elsewhere
           \/ \E s \in Stream : ExecuteStarts(s) \/ ExecuteWindowFull(s) \/ ExecuteEnds(s)
           \/ \E r \in Request : TTLPasses(r)
           \/ PeerRestarts
  <1>1. ASSUME NEW s \in Stream, LaneRecv(s) \/ LaneRefuses(s) \/ LaneReplies(s) \/ LaneEnds(s) \/ ExecuteHits(s)
        PROVE  Elsewhere
    BY <1>1 DEF LaneRecv, LaneRefuses, LaneReplies, LaneEnds, ExecuteHits, Elsewhere
  <1>2. ASSUME LaneStep \/ Close
        PROVE  Elsewhere
    BY <1>2 DEF LaneStep, Fetch, ensureStream, ensureStreamFails, SendFrame, SkipExpired, StreamFails,
                Tick, Receive, ReceiveInvalid, closeStream, Close, Elsewhere, peerVars
  <1>3. ASSUME NEW r \in Request, Caller(r)
        PROVE  Elsewhere
    BY <1>3 DEF Caller, Call, CallRejected, Deadline, Elsewhere, peerVars
  <1>4. ASSUME NEW e \in {"client", "server"}, ViewMoves(e)
        PROVE  Elsewhere
    BY <1>4 DEF ViewMoves, Elsewhere, peerVars
  <1> QED BY <1>1, <1>2, <1>3, <1>4 DEF LaneNext, PeerStep

\* Deadlines do not come back.
LEMMA ExpiredGrows ==
    ASSUME LaneTypeOK, LaneNext
    PROVE  expired \subseteq expired'
  <1>1. expired \subseteq Request
    BY PartsOfTypes DEF LaneParts, CallTypes
  <1>2. ASSUME NEW s \in Stream, PeerStep(s)
        PROVE  expired' = expired
    BY <1>2 DEF PeerStep, LaneRecv, LaneRefuses, LaneReplies, LaneEnds, ExecuteStarts,
                ExecuteWindowFull, ExecuteHits, ExecuteEnds, callVars
  <1>3. ASSUME LaneStep
        PROVE  expired' = expired
    BY <1>3 DEF LaneStep, Fetch, ensureStream, ensureStreamFails, SendFrame, SkipExpired, StreamFails,
                Tick, Receive, ReceiveInvalid, closeStream, callVars
  <1>4. ASSUME NEW r \in Request, Caller(r) \/ TTLPasses(r)
        PROVE  expired \subseteq expired'
    BY <1>4 DEF Caller, Call, CallRejected, Deadline, TTLPasses, callVars
  <1>5. ASSUME NEW e \in {"client", "server"}, ViewMoves(e)
        PROVE  expired' = expired
    BY <1>5 DEF ViewMoves, callVars
  <1>6. ASSUME PeerRestarts
        PROVE  expired' = expired
    BY <1>6 DEF PeerRestarts, callVars
  <1>7. ASSUME Close
        PROVE  expired \subseteq expired'
    BY <1>1, <1>7 DEF Close
  <1> QED BY <1>2, <1>3, <1>4, <1>5, <1>6, <1>7 DEF LaneNext

\* The request of a handler that executes, or is about to, is a request.
LEMMA HeldIs ==
    ASSUME LaneTypeOK, FramesNumbered, NEW s \in Stream, Holding(s)
    PROVE  srv[s].frame.req \in Request /\ srv[s].frame.seq \in Nat
  BY DEF FramesNumbered, Frame

\* The table never outgrows its capacity: Execute makes room before it inserts.
LEMMA TableFitsStep ==
    ASSUME LaneTypeOK, FramesNumbered, TableKnows, LaneNext
    PROVE  TableFits'
  <1>1. /\ dedupe \in [Request -> {"none", "running", "ok", "failed", "old"}]
        /\ Cardinality(Entries) <= DedupeCap
    BY PartsOfTypes DEF LaneParts, TableTypes, TableFits
  <1>2. IsFiniteSet(Request)
    BY FS_Interval, LaneBounds DEF Request
  <1>3. IsFiniteSet(Entries) /\ Cardinality(Entries) \in Nat
    BY <1>2, FS_Subset, FS_CardinalityType DEF Entries
  <1>4. ASSUME NEW E \in SUBSET Entries
        PROVE  IsFiniteSet(E) /\ Cardinality(E) \in Nat /\ Cardinality(E) <= Cardinality(Entries)
    BY <1>3, FS_Subset, FS_CardinalityType
  <1>5. ASSUME Entries' \subseteq Entries
        PROVE  TableFits'
    BY <1>1, <1>3, <1>4, <1>5, LaneBounds DEF TableFits
  <1>6. ASSUME NEW s \in Stream, ExecuteStarts(s)
        PROVE  TableFits'
    <2> DEFINE r == srv[s].frame.req
    <2>1. r \in Request
      BY <1>6, HeldIs DEF ExecuteStarts, Holding
    <2>2. IsFiniteSet(Entries \ {r}) /\ Cardinality(Entries \ {r}) \in Nat /\ Cardinality(Entries \ {r}) <= DedupeCap
      BY <1>1, <1>3, <1>4, LaneBounds
    <2>3. CASE /\ Room(r) /\ dedupe' = [dedupe EXCEPT ![r] = "running"]
      <3>1. Entries' = (Entries \ {r}) \cup {r}
        BY <1>1, <2>1, <2>3 DEF Entries
      <3>2. Cardinality((Entries \ {r}) \cup {r}) = Cardinality(Entries \ {r}) + 1
        BY <2>2, FS_AddElement
      <3> QED BY <2>2, <2>3, <3>1, <3>2, LaneBounds DEF TableFits, Room
    <2>4. ASSUME NEW x \in evictOneCompleted(r), dedupe' = [dedupe EXCEPT ![x] = "none", ![r] = "running"]
          PROVE  TableFits'
      <3>1. x \in Entries \ {r} /\ x \in Request
        BY DEF evictOneCompleted, Entries
      <3>2. Entries' = ((Entries \ {r}) \ {x}) \cup {r}
        BY <1>1, <2>1, <2>4, <3>1 DEF Entries
      <3>3. /\ Cardinality((Entries \ {r}) \ {x}) = Cardinality(Entries \ {r}) - 1
            /\ IsFiniteSet((Entries \ {r}) \ {x})
        BY <2>2, <3>1, FS_RemoveElement
      <3>4. Cardinality(((Entries \ {r}) \ {x}) \cup {r}) = Cardinality((Entries \ {r}) \ {x}) + 1
        BY <3>3, FS_AddElement
      <3> QED BY <2>2, <3>2, <3>3, <3>4, LaneBounds DEF TableFits
    <2> QED BY <1>6, <2>3, <2>4 DEF ExecuteStarts
  <1>7. ASSUME NEW s \in Stream, ExecuteWindowFull(s)
        PROVE  TableFits'
    <2>1. srv[s].frame.req \in Request
      BY <1>7, HeldIs DEF ExecuteWindowFull, Holding
    <2> QED BY <1>1, <1>5, <1>7, <2>1 DEF ExecuteWindowFull, Entries
  <1>8. ASSUME NEW s \in Stream, ExecuteEnds(s)
        PROVE  TableFits'
    <2>1. srv[s].frame.req \in Request /\ dedupe[srv[s].frame.req] = "running"
      BY <1>8, HeldIs DEF ExecuteEnds, Holding, TableKnows
    <2> QED BY <1>1, <1>5, <1>8, <2>1 DEF ExecuteEnds, Entries
  <1>9. ASSUME NEW r \in Request, TTLPasses(r)
        PROVE  TableFits'
    BY <1>1, <1>5, <1>9 DEF TTLPasses, Entries
  <1>10. ASSUME PeerRestarts
         PROVE  TableFits'
    BY <1>5, <1>10 DEF PeerRestarts, Entries
  <1>11. ASSUME Elsewhere
         PROVE  TableFits'
    BY <1>5, <1>11 DEF Elsewhere, Entries
  <1> QED BY <1>6, <1>7, <1>8, <1>9, <1>10, <1>11, TableSteps

-----------------------------------------------------------------------------
\* How the handler of stream t comes out of a step: as it was, moved by itself, opened with
\* the stream, woken by the execution it waited for, or ended with its process.
LEMMA HandlerMoves ==
    ASSUME LaneTypeOK, FramesNumbered, LaneNext, NEW t \in Stream
    PROVE  \/ srv'[t] = srv[t]
           \/ PeerStep(t) /\ ~ExecuteEnds(t)
           \/ /\ ensureStream /\ t = opened + 1 /\ t = stream'
              /\ srv'[t] = With(t, "recv", srv[t].result)
           \/ \E s \in Stream, res \in {"ok", "failed"} :
                 /\ ExecuteEnds(s) /\ dedupe' = [dedupe EXCEPT ![srv[s].frame.req] = res]
                 /\ t = s \/ (srv[t].pc = "wait" /\ srv[t].frame.req = srv[s].frame.req)
                 /\ srv'[t] = With(t, "reply", res)
           \/ PeerRestarts /\ srv[t].pc # "off" /\ srv'[t] = HandlerOf("done", 1, NoFrame, 0, "none")
  <1> DEFINE Goal == \/ srv'[t] = srv[t]
                     \/ PeerStep(t) /\ ~ExecuteEnds(t)
                     \/ /\ ensureStream /\ t = opened + 1 /\ t = stream'
                        /\ srv'[t] = With(t, "recv", srv[t].result)
                     \/ \E s \in Stream, res \in {"ok", "failed"} :
                           /\ ExecuteEnds(s) /\ dedupe' = [dedupe EXCEPT ![srv[s].frame.req] = res]
                           /\ t = s \/ (srv[t].pc = "wait" /\ srv[t].frame.req = srv[s].frame.req)
                           /\ srv'[t] = With(t, "reply", res)
                     \/ /\ PeerRestarts /\ srv[t].pc # "off"
                        /\ srv'[t] = HandlerOf("done", 1, NoFrame, 0, "none")
  <1>1. TableTypes /\ StreamTypes
    BY PartsOfTypes DEF LaneParts
  <1>2. ASSUME UNCHANGED srv
        PROVE  Goal
    BY <1>2
  <1>3. ASSUME NEW s \in Stream, PeerStep(s), ~ExecuteEnds(s)
        PROVE  Goal
    <2>1. CASE s = t
      BY <1>3, <2>1
    <2>2. ASSUME s # t
          PROVE  srv'[t] = srv[t]
      <3>1. srv \in [Stream -> SrvType]
        BY <1>1 DEF TableTypes
      <3>2. \E h : srv' = [srv EXCEPT ![s] = h]
        <4>1. ASSUME NEW h, srv' = [srv EXCEPT ![s] = h]
              PROVE  \E k : srv' = [srv EXCEPT ![s] = k]
          BY <4>1
        <4>2. ASSUME LaneRecv(s)
              PROVE  \E k : srv' = [srv EXCEPT ![s] = k]
          BY <4>1, <4>2, HandlerSteps
        <4>3. ASSUME LaneRefuses(s) \/ ExecuteStarts(s) \/ ExecuteWindowFull(s)
              PROVE  \E k : srv' = [srv EXCEPT ![s] = k]
          BY <4>1, <4>3, HandlerSteps
        <4>4. ASSUME ExecuteHits(s)
              PROVE  \E k : srv' = [srv EXCEPT ![s] = k]
          BY <4>1, <4>4, HandlerSteps
        <4>5. ASSUME LaneReplies(s)
              PROVE  \E k : srv' = [srv EXCEPT ![s] = k]
          BY <4>1, <4>5, HandlerSteps
        <4>6. ASSUME LaneEnds(s)
              PROVE  \E k : srv' = [srv EXCEPT ![s] = k]
          BY <4>1, <4>6, HandlerSteps
        <4> QED BY <1>3, <4>2, <4>3, <4>4, <4>5, <4>6 DEF PeerStep
      <3>3. PICK h : srv' = [srv EXCEPT ![s] = h]
        BY <3>2
      <3> QED BY <2>2, <3>1, <3>3
    <2> QED BY <2>1, <2>2
  <1>4. ASSUME ensureStream
        PROVE  Goal
    <2>1. opened + 1 \in Stream /\ stream' = opened + 1
      BY <1>1, <1>4, LaneBounds DEF ensureStream, StreamTypes, Stream
    <2>2. srv' = [srv EXCEPT ![opened + 1].pc = "recv"]
      BY <1>4 DEF ensureStream
    <2>3. srv' = [srv EXCEPT ![opened + 1] = With(opened + 1, "recv", srv[opened + 1].result)]
      BY <1>1, <2>1, <2>2, PlaceIs
    <2> QED BY <1>1, <1>4, <2>1, <2>3 DEF TableTypes
  <1>5. ASSUME NEW s \in Stream, ExecuteEnds(s)
        PROVE  Goal
    <2>1. PICK res \in {"ok", "failed"} :
              /\ dedupe' = [dedupe EXCEPT ![srv[s].frame.req] = res]
              /\ srv' = [q \in Stream |->
                    IF q = s \/ (srv[q].pc = "wait" /\ srv[q].frame.req = srv[s].frame.req)
                      THEN With(q, "reply", res) ELSE srv[q]]
      BY <1>5 DEF ExecuteEnds, With, HandlerOf
    <2> QED BY <1>5, <2>1
  <1>6. ASSUME PeerRestarts
        PROVE  Goal
    BY <1>6 DEF PeerRestarts, GoneHandler, Handler, HandlerOf
  <1>7. ASSUME NEW r \in Request, Caller(r) \/ TTLPasses(r)
        PROVE  UNCHANGED srv
    BY <1>7 DEF Caller, Call, CallRejected, Deadline, TTLPasses, peerVars
  <1>8. ASSUME LaneStep, ~ensureStream
        PROVE  UNCHANGED srv
    BY <1>8 DEF LaneStep, Fetch, ensureStreamFails, SendFrame, SkipExpired, StreamFails,
                Tick, Receive, ReceiveInvalid, closeStream, peerVars
  <1>9. ASSUME Close
        PROVE  UNCHANGED srv
    BY <1>9 DEF Close, peerVars
  <1>10. ASSUME NEW e \in {"client", "server"}, ViewMoves(e)
         PROVE  UNCHANGED srv
    BY <1>10 DEF ViewMoves, peerVars
  <1> HIDE DEF Goal
  <1>11. Goal
    BY <1>2, <1>3, <1>4, <1>5, <1>6, <1>7, <1>8, <1>9, <1>10 DEF LaneNext
  <1> QED BY <1>11 DEF Goal

\* Who executes after a step did so before, with the same frame, or has just started.
LEMMA ExecSteps ==
    ASSUME LaneTypeOK, FramesNumbered, LaneNext, NEW t \in Stream, srv'[t].pc = "exec"
    PROVE  /\ srv'[t].frame = srv[t].frame
           /\ srv[t].pc = "exec" \/ ExecuteStarts(t)
           /\ ~ExecuteEnds(t) /\ ~PeerRestarts
  <1>1. TableTypes
    BY PartsOfTypes DEF LaneParts
  <1>2. ~PeerRestarts
    <2>1. ASSUME PeerRestarts
          PROVE  srv'[t].pc # "exec"
      <3>1. srv'[t] = IF srv[t].pc = "off" THEN srv[t] ELSE GoneHandler
        BY <2>1 DEF PeerRestarts
      <3> QED BY <3>1 DEF GoneHandler, Handler
    <2> QED BY <2>1
  <1>3. ~ExecuteEnds(t)
    <2>1. ASSUME ExecuteEnds(t)
          PROVE  srv'[t].pc # "exec"
      BY <2>1 DEF ExecuteEnds
    <2> QED BY <2>1
  <1>4. ASSUME PeerStep(t)
        PROVE  srv'[t].frame = srv[t].frame /\ ExecuteStarts(t)
    <2>1. ASSUME NEW h \in SrvType, srv' = [srv EXCEPT ![t] = h]
          PROVE  srv'[t] = h
      BY <1>1, <2>1 DEF TableTypes
    <2>2. srv \in [Stream -> SrvType]
      BY <1>1 DEF TableTypes
    <2>3. ~LaneRecv(t)
      BY <2>2, HandlerSteps, HandlerFields
    <2>4. ~LaneRefuses(t) /\ ~ExecuteWindowFull(t)
      BY <2>2, HandlerSteps, HandlerFields DEF With
    <2>5. ~ExecuteHits(t)
      BY <2>2, HandlerSteps, HandlerFields DEF With
    <2>6. ~LaneReplies(t)
      BY <2>2, HandlerSteps, HandlerFields
    <2>7. ~LaneEnds(t)
      BY <2>2, HandlerSteps, HandlerFields
    <2>8. ExecuteStarts(t)
      BY <1>3, <1>4, <2>3, <2>4, <2>5, <2>6, <2>7 DEF PeerStep
    <2>9. srv' = [srv EXCEPT ![t] = With(t, "exec", srv[t].result)]
      BY <2>8, HandlerSteps
    <2> QED BY <2>2, <2>8, <2>9, HandlerFields DEF With
  <1>5. ASSUME NEW res
        PROVE  With(t, "recv", res).pc # "exec" /\ With(t, "reply", res).pc # "exec"
    BY HandlerFields DEF With
  <1>6. srv'[t] = srv[t] \/ PeerStep(t)
    BY <1>2, <1>5, HandlerMoves
  <1> QED BY <1>2, <1>3, <1>4, <1>6

-----------------------------------------------------------------------------
\* The log after a step: one execution more when dispatch starts, else as it was.
LEMMA LogAppends ==
    ASSUME LaneTypeOK, FramesNumbered, NEW s \in Stream, ExecuteStarts(s)
    PROVE  /\ log \in Seq(Request \X Nat) /\ Len(log) \in Nat /\ Len(log') = Len(log) + 1
           /\ \A i \in 1 .. Len(log) : log'[i] = log[i]
           /\ log'[Len(log) + 1] = <<srv[s].frame.req, inst>>
           /\ srv[s].frame.req \in Request /\ inst \in Nat
           /\ Ran' = Ran \cup {srv[s].frame.req}
  <1>1. log \in Seq(Request \X Nat) /\ inst \in Nat
    BY PartsOfTypes DEF LaneParts, TableTypes
  <1>2. srv[s].frame.req \in Request
    BY HeldIs DEF ExecuteStarts, Holding
  <1>3. log' = Append(log, <<srv[s].frame.req, inst>>)
    BY DEF ExecuteStarts
  <1>4. <<srv[s].frame.req, inst>> \in Request \X Nat
    BY <1>1, <1>2
  <1> HIDE DEF Ran
  <1>5. /\ Len(log) \in Nat /\ Len(log') = Len(log) + 1
        /\ \A i \in 1 .. Len(log) : log'[i] = log[i]
        /\ log'[Len(log) + 1] = <<srv[s].frame.req, inst>>
    BY <1>1, <1>3, <1>4
  <1>6. Ran' = Ran \cup {srv[s].frame.req}
    <2>1. ASSUME NEW i \in 1 .. Len(log'), i \notin 1 .. Len(log)
          PROVE  i = Len(log) + 1
      BY <1>5, <2>1
    <2>2. Len(log) + 1 \in 1 .. Len(log') /\ 1 .. Len(log) \subseteq 1 .. Len(log')
      BY <1>5
    <2>3. <<srv[s].frame.req, inst>>[1] = srv[s].frame.req
      OBVIOUS
    <2> QED BY <1>5, <2>1, <2>2, <2>3 DEF Ran
  <1> QED BY <1>1, <1>2, <1>5, <1>6

\* Every step keeps what the table knows of the executions of the present process.
LEMMA TableKnowsStep ==
    ASSUME LaneTypeOK, FramesNumbered, TableKnows, LaneNext
    PROVE  TableKnows'
  <1>1. /\ dedupe \in [Request -> {"none", "running", "ok", "failed", "old"}]
        /\ inst \in Nat /\ log \in Seq(Request \X Nat)
    BY PartsOfTypes DEF LaneParts, TableTypes
  <1>2. ASSUME NEW i \in 1 .. Len(log)
        PROVE  log[i][1] \in Request /\ log[i][2] \in Nat
    BY <1>1
  <1>3. expired \subseteq expired'
    BY ExpiredGrows
  <1> DEFINE LiveNext(q) == dedupe'[q] \in {"running", "ok", "failed"}
  <1>4. ASSUME log' = log, inst' = inst, Ran' = Ran,
               \A r \in Request : LiveNext(r) <=> Live(r)
        PROVE  /\ \A i \in 1 .. Len(log') : log'[i][2] <= inst'
               /\ \A i \in 1 .. Len(log') : log'[i][2] = inst' => LiveNext(log'[i][1]) \/ log'[i][1] \in expired'
               /\ \A r \in Request : LiveNext(r) => r \in Ran'
    BY <1>2, <1>3, <1>4 DEF TableKnows
  <1> DEFINE Executions == /\ \A i \in 1 .. Len(log') : log'[i][2] <= inst'
                           /\ \A i \in 1 .. Len(log') :
                                  log'[i][2] = inst' => LiveNext(log'[i][1]) \/ log'[i][1] \in expired'
                           /\ \A r \in Request : LiveNext(r) => r \in Ran'
             Running == \A s \in Stream : srv'[s].pc = "exec" => dedupe'[srv'[s].frame.req] = "running"
             Once == \A s, t \in Stream : srv'[s].pc = "exec" /\ srv'[t].pc = "exec"
                                            /\ srv'[s].frame.req = srv'[t].frame.req => s = t
  <1>5. ASSUME NEW s \in Stream, ExecuteStarts(s)
        PROVE  Executions /\ Running /\ Once
    <2> DEFINE r == srv[s].frame.req
    <2>1. /\ Len(log) \in Nat /\ Len(log') = Len(log) + 1
          /\ \A i \in 1 .. Len(log) : log'[i] = log[i]
          /\ log'[Len(log) + 1] = <<r, inst>> /\ r \in Request /\ Ran' = Ran \cup {r}
      BY <1>5, LogAppends
    <2>2. /\ inst' = inst /\ ~Live(r) /\ dedupe'[r] = "running"
          /\ \A q \in Request \ {r} : dedupe'[q] = dedupe[q] \/ (dedupe[q] = "old" /\ dedupe'[q] = "none")
      BY <1>1, <1>5, <2>1 DEF ExecuteStarts, evictOneCompleted
    <2> HIDE DEF r
    <2>3. LiveNext(r) /\ \A q \in Request \ {r} : LiveNext(q) <=> Live(q)
      BY <2>2 DEF Live
    <2>4. Executions
      <3>1. ASSUME NEW i \in 1 .. Len(log')
            PROVE  \/ i \in 1 .. Len(log) /\ log'[i] = log[i]
                   \/ log'[i][1] = r /\ log'[i][2] = inst
        BY <2>1
      <3>2. ASSUME NEW i \in 1 .. Len(log'), log'[i][2] = inst'
            PROVE  LiveNext(log'[i][1]) \/ log'[i][1] \in expired'
        <4>1. CASE log'[i][1] = r
          BY <2>3, <4>1
        <4>2. CASE i \in 1 .. Len(log) /\ log'[i] = log[i] /\ log[i][1] # r
          BY <1>2, <1>3, <2>2, <2>3, <3>2, <4>2 DEF TableKnows
        <4> QED BY <3>1, <4>1, <4>2
      <3>3. ASSUME NEW i \in 1 .. Len(log')
            PROVE  log'[i][2] <= inst'
        BY <1>1, <2>2, <3>1 DEF TableKnows
      <3> QED BY <2>1, <2>3, <3>2, <3>3 DEF TableKnows
    <2>5. ASSUME NEW t \in Stream, srv'[t].pc = "exec", t # s
          PROVE  /\ srv[t].pc = "exec" /\ srv'[t].frame = srv[t].frame
                 /\ srv[t].frame.req \in Request \ {r} /\ dedupe'[srv[t].frame.req] = "running"
      <3>1. srv'[t].frame = srv[t].frame /\ (srv[t].pc = "exec" \/ ExecuteStarts(t))
        BY <2>5, ExecSteps
      <3>2. ~ExecuteStarts(t)
        <4>1. ASSUME ExecuteStarts(t)
              PROVE  FALSE
          <5>1. srv[t].pc = "got" /\ srv' = [srv EXCEPT ![s] = With(s, "exec", srv[s].result)]
            BY <1>5, <4>1, HandlerSteps
          <5>2. srv'[t] = srv[t]
            BY <2>5, <5>1, PartsOfTypes DEF LaneParts, TableTypes
          <5> QED BY <2>5, <5>1, <5>2
        <4> QED BY <4>1
      <3>3. srv[t].frame.req \in Request
        BY <3>1, <3>2, HeldIs DEF Holding
      <3>4. dedupe[srv[t].frame.req] = "running"
        BY <3>1, <3>2 DEF TableKnows
      <3>5. srv[t].frame.req # r
        BY <2>2, <3>4 DEF Live
      <3> QED BY <2>2, <3>1, <3>2, <3>3, <3>4, <3>5
    <2>6. srv'[s].frame.req = r
      <3>1. srv' = [srv EXCEPT ![s] = With(s, "exec", srv[s].result)]
        BY <1>5, HandlerSteps
      <3>2. srv'[s] = With(s, "exec", srv[s].result)
        BY <3>1, PartsOfTypes DEF LaneParts, TableTypes
      <3> QED BY <3>2, HandlerFields DEF With, r
    <2>7. ASSUME NEW t \in Stream, srv'[t].pc = "exec"
          PROVE  dedupe'[srv'[t].frame.req] = "running"
      BY <2>2, <2>5, <2>6, <2>7
    <2>8. ASSUME NEW t \in Stream, NEW u \in Stream, srv'[t].pc = "exec", srv'[u].pc = "exec",
                 srv'[t].frame.req = srv'[u].frame.req
          PROVE  t = u
      <3>1. ASSUME NEW v \in Stream, srv'[v].pc = "exec", srv'[v].frame.req = r
            PROVE  v = s
        BY <2>5, <3>1
      <3>2. CASE t # s /\ u # s
        BY <2>5, <2>8, <3>2 DEF TableKnows
      <3> QED BY <2>6, <2>8, <3>1, <3>2
    <2> QED BY <2>4, <2>7, <2>8
  <1>6. ASSUME ~\E s \in Stream : ExecuteStarts(s),
               \A q \in Request : dedupe[q] = "running" /\ dedupe'[q] # "running" =>
                   \E s \in Stream : ExecuteEnds(s) /\ srv[s].frame.req = q
        PROVE  Running /\ Once
    <2>1. ASSUME NEW t \in Stream, srv'[t].pc = "exec"
          PROVE  srv'[t].frame = srv[t].frame /\ srv[t].pc = "exec" /\ ~ExecuteEnds(t)
      BY <1>6, <2>1, ExecSteps
    <2>2. Once
      BY <2>1 DEF TableKnows
    <2>3. ASSUME NEW t \in Stream, srv'[t].pc = "exec"
          PROVE  dedupe'[srv'[t].frame.req] = "running"
      <3>1. dedupe[srv[t].frame.req] = "running" /\ srv[t].frame.req \in Request
        BY <2>1, <2>3, HeldIs DEF TableKnows, Holding
      <3>2. ASSUME NEW s \in Stream, ExecuteEnds(s), srv[s].frame.req = srv[t].frame.req
            PROVE  FALSE
        BY <2>1, <2>3, <3>2 DEF TableKnows, ExecuteEnds
      <3> QED BY <1>6, <2>1, <2>3, <3>1, <3>2
    <2> QED BY <2>2, <2>3
  <1>7. ASSUME NEW s \in Stream, ExecuteWindowFull(s)
        PROVE  Executions /\ Running /\ Once
    <2>1. srv[s].frame.req \in Request /\ ~Live(srv[s].frame.req)
      BY <1>7, HeldIs DEF ExecuteWindowFull, Holding
    <2>2. \A q \in Request : (LiveNext(q) <=> Live(q)) /\ (dedupe[q] = "running" => dedupe'[q] = "running")
      BY <1>1, <1>7, <2>1 DEF ExecuteWindowFull, Live
    <2>3. ~\E t \in Stream : ExecuteStarts(t)
      BY <1>1, <1>7, LogAppends DEF ExecuteWindowFull
    <2> QED BY <1>4, <1>6, <1>7, <2>2, <2>3 DEF ExecuteWindowFull, Ran
  <1>8. ASSUME NEW s \in Stream, ExecuteEnds(s)
        PROVE  Executions /\ Running /\ Once
    <2>1. srv[s].frame.req \in Request /\ dedupe[srv[s].frame.req] = "running"
      BY <1>8, HeldIs DEF ExecuteEnds, Holding, TableKnows
    <2>2. \A q \in Request : /\ LiveNext(q) <=> Live(q)
                             /\ dedupe[q] = "running" /\ q # srv[s].frame.req => dedupe'[q] = "running"
      BY <1>1, <1>8, <2>1 DEF ExecuteEnds, Live
    <2>3. ~\E t \in Stream : ExecuteStarts(t)
      BY <1>1, <1>8, LogAppends DEF ExecuteEnds
    <2>4. Executions
      BY <1>4, <1>8, <2>2 DEF ExecuteEnds, Ran
    <2> HIDE DEF Executions, Running, Once, LiveNext
    <2>5. Running /\ Once
      BY <1>6, <1>8, <2>2, <2>3
    <2> QED BY <2>4, <2>5
  <1>9. ASSUME NEW r \in Request, TTLPasses(r)
        PROVE  Executions /\ Running /\ Once
    <2>1. /\ log' = log /\ inst' = inst /\ Ran' = Ran /\ r \in expired
          /\ \A q \in Request : (q # r => dedupe'[q] = dedupe[q]) /\ (dedupe[q] = "running" => dedupe'[q] = "running")
      BY <1>1, <1>9 DEF TTLPasses, Ran
    <2>2. \A q \in Request : (LiveNext(q) => Live(q)) /\ (Live(q) => LiveNext(q) \/ q = r)
      BY <1>1, <1>9 DEF TTLPasses, Live
    <2>3. ~\E t \in Stream : ExecuteStarts(t)
      BY <1>1, <2>1, LogAppends
    <2>4. Executions
      BY <1>2, <1>3, <2>1, <2>2 DEF TableKnows
    <2> QED BY <1>6, <2>1, <2>3, <2>4
  <1>10. ASSUME PeerRestarts
         PROVE  Executions /\ Running /\ Once
    <2>1. log' = log /\ inst' = inst + 1 /\ \A q \in Request : ~LiveNext(q)
      BY <1>10 DEF PeerRestarts, Live
    <2>2. \A t \in Stream : srv'[t].pc # "exec"
      BY <1>10, ExecSteps
    <2>3. ASSUME NEW i \in 1 .. Len(log)
          PROVE  log'[i][2] <= inst' /\ log'[i][2] # inst'
      BY <1>1, <1>2, <2>1 DEF TableKnows
    <2> QED BY <2>1, <2>2, <2>3
  <1>11. ASSUME Elsewhere
         PROVE  Executions /\ Running /\ Once
    <2>1. ~\E t \in Stream : ExecuteStarts(t)
      BY <1>1, <1>11, LogAppends DEF Elsewhere
    <2> QED BY <1>4, <1>6, <1>11, <2>1 DEF Elsewhere, Ran, Live
  <1>12. Executions /\ Running /\ Once
    <2> HIDE DEF Executions, Running, Once
    <2> QED BY <1>5, <1>7, <1>8, <1>9, <1>10, <1>11, TableSteps
  <1> QED BY <1>12 DEF TableKnows, Live

\* Every step keeps NoEarlyRepeat: what the present process has executed is either live in the
\* table or past its deadline, and only what is not live is executed.
LEMMA NoEarlyRepeatStep ==
    ASSUME LaneTypeOK, FramesNumbered, TableKnows, NoEarlyRepeat, LaneNext
    PROVE  NoEarlyRepeat'
  <1>1. log \in Seq(Request \X Nat) /\ expired \subseteq expired'
    BY ExpiredGrows, PartsOfTypes DEF LaneParts, TableTypes
  <1>2. ASSUME log' = log
        PROVE  NoEarlyRepeat'
    BY <1>1, <1>2 DEF NoEarlyRepeat
  <1>3. ASSUME NEW s \in Stream, ExecuteStarts(s)
        PROVE  NoEarlyRepeat'
    <2> DEFINE r == srv[s].frame.req
    <2>1. /\ Len(log) \in Nat /\ Len(log') = Len(log) + 1
          /\ \A i \in 1 .. Len(log) : log'[i] = log[i]
          /\ log'[Len(log) + 1] = <<r, inst>> /\ r \in Request
      BY <1>3, LogAppends
    <2>2. ~Live(r)
      BY <1>3 DEF ExecuteStarts
    <2> HIDE DEF r
    <2>3. DOMAIN log' = 1 .. Len(log) + 1 /\ DOMAIN log = 1 .. Len(log)
      BY <1>1, <1>3, <2>1 DEF ExecuteStarts
    <2>4. ASSUME NEW i \in 1 .. Len(log), log[i] = <<r, inst>>
          PROVE  r \in expired'
      BY <1>1, <2>2, <2>4 DEF TableKnows
    <2>5. ASSUME NEW i \in DOMAIN log', NEW j \in DOMAIN log', i # j, log'[i] = log'[j]
          PROVE  log'[i][1] \in expired'
      <3>1. CASE i \in DOMAIN log /\ j \in DOMAIN log
        BY <1>1, <2>1, <2>3, <2>5, <3>1 DEF NoEarlyRepeat
      <3>2. CASE i = Len(log) + 1 \/ j = Len(log) + 1
        <4>1. log'[i] = <<r, inst>>
          BY <2>1, <2>5, <3>2
        <4>2. \E k \in 1 .. Len(log) : log[k] = <<r, inst>>
          BY <2>1, <2>3, <2>5, <3>2
        <4> QED BY <2>4, <4>1, <4>2
      <3> QED BY <2>1, <2>3, <2>5, <3>1, <3>2
    <2> QED BY <2>5 DEF NoEarlyRepeat
  <1>4. ASSUME NEW s \in Stream, ExecuteWindowFull(s) \/ ExecuteEnds(s)
        PROVE  log' = log
    BY <1>4 DEF ExecuteWindowFull, ExecuteEnds
  <1>5. ASSUME NEW r \in Request, TTLPasses(r)
        PROVE  log' = log
    BY <1>5 DEF TTLPasses
  <1>6. ASSUME PeerRestarts \/ Elsewhere
        PROVE  log' = log
    BY <1>6 DEF PeerRestarts, Elsewhere
  <1> QED BY <1>2, <1>3, <1>4, <1>5, <1>6, TableSteps

-----------------------------------------------------------------------------
\* An answer under way after a step was so before, or its handler has just sent it.
LEMMA AnswersUnderWay ==
    ASSUME LaneTypeOK, LaneNext, NEW t \in Stream, NEW k \in 1 .. Len(down'[t])
    PROVE  \/ \E j \in 1 .. Len(down[t]) : down'[t][k] = down[t][j]
           \/ /\ LaneReplies(t)
              /\ down'[t][k].req = srv[t].frame.req /\ down'[t][k].result = srv[t].result
  <1> DEFINE Reply == [req : Request, seq : Nat, epoch : Nat, result : Result]
             Goal == \/ \E j \in 1 .. Len(down[t]) : down'[t][k] = down[t][j]
                     \/ /\ LaneReplies(t)
                        /\ down'[t][k].req = srv[t].frame.req /\ down'[t][k].result = srv[t].result
  <1>1. down \in [Stream -> Seq(Reply)]
    BY PartsOfTypes DEF LaneParts, FrameTypes
  <1> HIDE DEF Reply
  <1>2. down[t] \in Seq(Reply) /\ Len(down[t]) \in Nat
    BY <1>1
  <1>3. ASSUME down'[t] = down[t]
        PROVE  Goal
    BY <1>3
  <1>4. ASSUME down'[t] = <<>>
        PROVE  Goal
    <2>1. Len(down'[t]) = 0
      BY <1>4
    <2> QED BY <2>1
  <1>5. ASSUME down'[t] = Tail(down[t]), down[t] # <<>>
        PROVE  Goal
    <2>1. /\ Len(down'[t]) = Len(down[t]) - 1
          /\ \A i \in 1 .. Len(down[t]) - 1 : down'[t][i] = down[t][i + 1]
      BY <1>2, <1>5
    <2> QED BY <1>2, <2>1
  <1>6. ASSUME NEW s \in Stream, LaneReplies(s)
        PROVE  Goal
    <2>1. PICK reply : reply = [req |-> srv[s].frame.req, seq |-> srv[s].frame.seq,
                                epoch |-> srv[s].epoch, result |-> srv[s].result]
      OBVIOUS
    <2>2. down' = down \/ down' = [down EXCEPT ![s] = Append(@, reply)]
      BY <1>6, <2>1 DEF LaneReplies
    <2>3. reply.req = srv[s].frame.req /\ reply.result = srv[s].result
      BY <2>1
    <2>4. CASE down'[t] = Append(down[t], reply) /\ s = t
      <3>1. \A i \in 1 .. Len(down'[t]) :
                (i \in 1 .. Len(down[t]) /\ down'[t][i] = down[t][i]) \/ down'[t][i] = reply
        BY <1>2, <2>4
      <3> QED BY <1>6, <2>3, <2>4, <3>1
    <2> QED BY <1>1, <1>3, <2>2, <2>4
  <1>7. ASSUME NEW retryable, NEW bad, closeStream(retryable, bad)
        PROVE  Goal
    BY <1>1, <1>3, <1>4, <1>7 DEF closeStream
  <1>8. ASSUME Receive
        PROVE  Goal
    <2>1. down[stream] # <<>> /\ down' = [down EXCEPT ![stream] = Tail(@)]
      BY <1>8 DEF Receive
    <2>2. CASE t = stream
      BY <1>1, <1>5, <2>1, <2>2
    <2> QED BY <1>1, <1>3, <2>1, <2>2
  <1>9. ASSUME Close
        PROVE  Goal
    BY <1>4, <1>9 DEF Close
  <1>10. ASSUME down' = down
         PROVE  Goal
    BY <1>3, <1>10
  <1>11. ASSUME NEW s \in Stream, PeerStep(s), ~LaneReplies(s)
         PROVE  down' = down
    BY <1>11 DEF PeerStep, LaneRecv, LaneRefuses, LaneEnds, ExecuteStarts, ExecuteWindowFull, ExecuteHits,
                 ExecuteEnds, netVars
  <1>12. ASSUME Fetch \/ ensureStream \/ ensureStreamFails \/ SendFrame \/ SkipExpired
         PROVE  down' = down
    BY <1>12 DEF Fetch, ensureStream, ensureStreamFails, SendFrame, SkipExpired, netVars
  <1>13. ASSUME NEW r \in Request, Caller(r) \/ TTLPasses(r)
         PROVE  down' = down
    BY <1>13 DEF Caller, Call, CallRejected, Deadline, TTLPasses, netVars
  <1>14. ASSUME NEW e \in {"client", "server"}, ViewMoves(e)
         PROVE  down' = down
    BY <1>14 DEF ViewMoves, netVars
  <1>15. ASSUME PeerRestarts
         PROVE  down' = down
    BY <1>15 DEF PeerRestarts
  <1> HIDE DEF Goal
  <1>16. Goal
    BY <1>6, <1>7, <1>8, <1>9, <1>10, <1>11, <1>12, <1>13, <1>14, <1>15
       DEF LaneNext, LaneStep, StreamFails, Tick, ReceiveInvalid
  <1> QED BY <1>16 DEF Goal

\* What has run keeps having run.
LEMMA RanGrows ==
    ASSUME LaneTypeOK, FramesNumbered, LaneNext
    PROVE  Ran \subseteq Ran'
  <1>1. ASSUME log' = log
        PROVE  Ran' = Ran
    BY <1>1 DEF Ran
  <1>2. ASSUME ~\E s \in Stream : ExecuteStarts(s)
        PROVE  log' = log
    BY <1>2, TableSteps DEF ExecuteWindowFull, ExecuteEnds, TTLPasses, PeerRestarts, Elsewhere
  <1> QED BY <1>1, <1>2, LogAppends

\* What has succeeded keeps having succeeded.
LEMMA SucceededGrows ==
    ASSUME LaneNext
    PROVE  succeeded \subseteq succeeded'
  <1>1. ASSUME NEW s \in Stream, ExecuteEnds(s)
        PROVE  succeeded \subseteq succeeded'
    BY <1>1 DEF ExecuteEnds
  <1>2. ASSUME ~\E s \in Stream : ExecuteEnds(s)
        PROVE  succeeded' = succeeded
    BY <1>2, TableSteps DEF ExecuteWindowFull, ExecuteStarts, TTLPasses, PeerRestarts, Elsewhere
  <1> QED BY <1>1, <1>2

\* Every step keeps results true to what was executed.
LEMMA ResultsAreTrueStep ==
    ASSUME LaneTypeOK, FramesNumbered, ResultsAreTrue, LaneNext
    PROVE  ResultsAreTrue'
  <1>1. /\ dedupe \in [Request -> {"none", "running", "ok", "failed", "old"}]
        /\ srv \in [Stream -> SrvType] /\ succeeded \subseteq succeeded' /\ Ran \subseteq Ran'
    BY PartsOfTypes, RanGrows, SucceededGrows DEF LaneParts, TableTypes
  <1>2. ASSUME NEW s \in Stream, ExecuteEnds(s)
        PROVE  /\ srv[s].frame.req \in Request /\ srv[s].frame.req \in Ran
               /\ \A res \in {"ok", "failed"} : dedupe' = [dedupe EXCEPT ![srv[s].frame.req] = res] =>
                      succeeded' = IF res = "ok" THEN succeeded \cup {srv[s].frame.req} ELSE succeeded
    <2>1. srv[s].frame.req \in Request /\ srv[s].frame.req \in Ran
      BY <1>2, HeldIs DEF ExecuteEnds, Holding, FramesNumbered
    <2>2. PICK q \in {"ok", "failed"} :
              /\ dedupe' = [dedupe EXCEPT ![srv[s].frame.req] = q]
              /\ succeeded' = IF q = "ok" THEN succeeded \cup {srv[s].frame.req} ELSE succeeded
      BY <1>2 DEF ExecuteEnds
    <2>3. \A res \in {"ok", "failed"} : dedupe' = [dedupe EXCEPT ![srv[s].frame.req] = res] => res = q
      BY <1>1, <2>1, <2>2
    <2> QED BY <2>1, <2>2, <2>3
  <1>3. succeeded' \subseteq Ran'
    <2>1. ASSUME NEW s \in Stream, ExecuteEnds(s)
          PROVE  succeeded' \subseteq succeeded \cup {srv[s].frame.req}
      BY <2>1 DEF ExecuteEnds
    <2>2. ASSUME ~\E s \in Stream : ExecuteEnds(s)
          PROVE  succeeded' = succeeded
      BY <2>2, TableSteps DEF ExecuteWindowFull, ExecuteStarts, TTLPasses, PeerRestarts, Elsewhere
    <2> QED BY <1>1, <1>2, <2>1, <2>2 DEF ResultsAreTrue
  <1>4. ASSUME NEW r \in Request, dedupe'[r] = "ok"
        PROVE  r \in succeeded'
    <2>1. ASSUME dedupe[r] = "ok"
          PROVE  r \in succeeded'
      BY <1>1, <2>1 DEF ResultsAreTrue
    <2>2. ASSUME NEW s \in Stream, ExecuteStarts(s)
          PROVE  dedupe[r] = "ok"
      <3>1. srv[s].frame.req \in Request
        BY <2>2, LogAppends
      <3> QED BY <1>1, <1>4, <2>2, <3>1 DEF ExecuteStarts
    <2>3. ASSUME NEW s \in Stream, ExecuteWindowFull(s)
          PROVE  dedupe[r] = "ok"
      BY <1>1, <1>4, <2>3 DEF ExecuteWindowFull
    <2>4. ASSUME NEW s \in Stream, ExecuteEnds(s)
          PROVE  r \in succeeded'
      <3>1. PICK res \in {"ok", "failed"} :
                /\ dedupe' = [dedupe EXCEPT ![srv[s].frame.req] = res]
                /\ succeeded' = IF res = "ok" THEN succeeded \cup {srv[s].frame.req} ELSE succeeded
        BY <2>4 DEF ExecuteEnds
      <3>2. CASE r = srv[s].frame.req
        BY <1>1, <1>4, <3>1, <3>2
      <3>3. CASE r # srv[s].frame.req
        BY <1>1, <1>4, <2>1, <3>1, <3>3
      <3> QED BY <3>2, <3>3
    <2>5. ASSUME NEW x \in Request, TTLPasses(x)
          PROVE  dedupe[r] = "ok"
      BY <1>1, <1>4, <2>5 DEF TTLPasses
    <2>6. ~PeerRestarts
      BY <1>4 DEF PeerRestarts
    <2> QED BY <1>4, <2>1, <2>2, <2>3, <2>4, <2>5, <2>6, TableSteps DEF Elsewhere
  <1>5. ASSUME NEW t \in Stream, srv'[t].result = "ok"
        PROVE  srv'[t].frame.req \in succeeded'
    <2>1. ASSUME srv[t].result = "ok", srv'[t].frame = srv[t].frame
          PROVE  srv'[t].frame.req \in succeeded'
      BY <1>1, <2>1 DEF ResultsAreTrue
    <2>2. ASSUME PeerStep(t), ~ExecuteEnds(t)
          PROVE  srv'[t].frame.req \in succeeded'
      <3>1. ~LaneRecv(t)
        BY <1>1, <1>5, HandlerSteps, HandlerFields
      <3>2. ~LaneRefuses(t) /\ ~ExecuteWindowFull(t)
        BY <1>1, <1>5, HandlerSteps, HandlerFields DEF With
      <3>3. ~LaneReplies(t) /\ ~LaneEnds(t)
        BY <1>1, <1>5, HandlerSteps, HandlerFields
      <3>4. ASSUME NEW pc, NEW res, srv' = [srv EXCEPT ![t] = With(t, pc, res)]
            PROVE  res = "ok" /\ srv'[t].frame = srv[t].frame
        BY <1>1, <1>5, <3>4, HandlerFields DEF With
      <3>5. CASE ExecuteStarts(t)
        <4>1. srv' = [srv EXCEPT ![t] = With(t, "exec", srv[t].result)]
          BY <3>5, HandlerSteps
        <4> QED BY <2>1, <3>4, <4>1
      <3>6. CASE ExecuteHits(t)
        <4>1. CASE srv' = [srv EXCEPT ![t] = With(t, "wait", srv[t].result)]
          BY <2>1, <3>4, <4>1
        <4>2. CASE srv' = [srv EXCEPT ![t] = With(t, "reply", dedupe[srv[t].frame.req])]
          <5>1. srv[t].frame.req \in Request
            BY <3>6, HeldIs DEF ExecuteHits, Holding
          <5> QED BY <1>1, <3>4, <4>2, <5>1 DEF ResultsAreTrue
        <4> QED BY <3>6, <4>1, <4>2, HandlerSteps
      <3> QED BY <2>2, <3>1, <3>2, <3>3, <3>5, <3>6 DEF PeerStep
    <2>3. ASSUME NEW res, srv'[t] = With(t, "recv", res), res = srv[t].result
          PROVE  srv'[t].frame.req \in succeeded'
      BY <1>5, <2>1, <2>3, HandlerFields DEF With
    <2>4. ASSUME NEW s \in Stream, NEW res \in {"ok", "failed"}, ExecuteEnds(s),
                 dedupe' = [dedupe EXCEPT ![srv[s].frame.req] = res],
                 t = s \/ (srv[t].pc = "wait" /\ srv[t].frame.req = srv[s].frame.req),
                 srv'[t] = With(t, "reply", res)
          PROVE  srv'[t].frame.req \in succeeded'
      <3>1. res = "ok" /\ srv'[t].frame = srv[t].frame
        BY <1>5, <2>4, HandlerFields DEF With
      <3>2. srv[s].frame.req \in succeeded'
        BY <1>2, <2>4, <3>1
      <3> QED BY <2>4, <3>1, <3>2
    <2>5. srv'[t] # HandlerOf("done", 1, NoFrame, 0, "none")
      BY <1>5, HandlerFields
    <2> QED BY <1>5, <2>1, <2>2, <2>3, <2>4, <2>5, HandlerMoves
  <1>6. ASSUME NEW t \in Stream, NEW k \in 1 .. Len(down'[t]), down'[t][k].result = "ok"
        PROVE  down'[t][k].req \in succeeded'
    BY <1>1, <1>6, AnswersUnderWay DEF ResultsAreTrue
  <1> QED BY <1>3, <1>4, <1>5, <1>6 DEF ResultsAreTrue

-----------------------------------------------------------------------------
\* A retry finishes reliable requests with an error only.
LEMMA RetryIsNoOk ==
    ASSUME LaneTypeOK, NEW retryable, NEW bad, retryRequests(retryable, bad),
           NEW r \in Request, call'[r] = "ok", r \in reliable
    PROVE  call[r] = "ok"
  <1>1. PICK K \in SUBSET (1 .. Len(carried)) :
            call' = [x \in Request |->
                    IF x \in {carried[p] : p \in (1 .. Len(carried)) \ K} /\ call[x] = "waiting"
                    THEN IF x \in reliable \cup expired \cup bad THEN "error" ELSE "ok" ELSE call[x]]
    BY RetryIs
  <1> QED BY <1>1

\* A reliable call returns without an error when the answer to it says so.
LEMMA OkSteps ==
    ASSUME LaneTypeOK, OnePlaceEach, LaneNext,
           NEW r \in Request, r \in reliable', call'[r] = "ok"
    PROVE  \/ call[r] = "ok" /\ r \in reliable
           \/ /\ stream \in Stream /\ 1 \in 1 .. Len(down[stream])
              /\ down[stream][1].req = r /\ down[stream][1].result = "ok"
  <1> DEFINE Goal == \/ call[r] = "ok" /\ r \in reliable
                     \/ /\ stream \in Stream /\ 1 \in 1 .. Len(down[stream])
                        /\ down[stream][1].req = r /\ down[stream][1].result = "ok"
             Reply == [req : Request, seq : Nat, epoch : Nat, result : Result]
  <1>1. call \in [Request -> {"new", "waiting", "ok", "error"}] /\ down \in [Stream -> Seq(Reply)]
    BY PartsOfTypes DEF LaneParts, CallTypes, FrameTypes
  <1> HIDE DEF Reply
  <1>2. ASSUME call' = call, reliable' = reliable
        PROVE  Goal
    BY <1>2
  <1>3. ASSUME NEW x \in Request, Caller(x)
        PROVE  Goal
    <2>1. CASE Deadline(x)
      BY <1>1, <2>1 DEF Deadline
    <2>2. ASSUME NEW kind \in {"reliable", "ephemeral"}, Call(x, kind)
          PROVE  Goal
      BY <1>1, <2>2 DEF Call
    <2>3. ASSUME NEW kind \in {"reliable", "ephemeral"}, CallRejected(x, kind)
          PROVE  Goal
      <3>1. call[x] = "new" /\ x \notin reliable
        BY <2>3 DEF CallRejected, OnePlaceEach
      <3> QED BY <1>1, <2>3, <3>1 DEF CallRejected
    <2> QED BY <1>3, <2>1, <2>2, <2>3 DEF Caller
  <1>4. ASSUME SkipExpired
        PROVE  Goal
    BY <1>4 DEF SkipExpired, finishRequests
  <1>5. ASSUME Receive
        PROVE  Goal
    <2>1. PICK m : m = Head(down[stream])
      OBVIOUS
    <2>2. /\ call' = [x \in Request |-> IF x \in {m.req} /\ call[x] = "waiting"
                                         THEN [y \in Request |-> IF m.result = "ok" THEN "ok" ELSE "error"][x]
                                         ELSE call[x]]
          /\ reliable' = reliable /\ stream # 0 /\ down[stream] # <<>>
      BY <1>5, <2>1 DEF Receive, Waits, finishRequests
    <2>3. stream \in Stream
      BY <2>2, StreamIs
    <2>4. down[stream] \in Seq(Reply)
      BY <1>1, <2>3
    <2>5. m = down[stream][1] /\ 1 \in 1 .. Len(down[stream])
      BY <2>1, <2>2, <2>4
    <2>6. CASE call[r] = "ok"
      BY <2>2, <2>6
    <2>7. CASE call[r] # "ok"
      <3>1. r = m.req /\ m.result = "ok"
        BY <2>2, <2>7
      <3> QED BY <2>3, <2>5, <3>1
    <2> QED BY <2>6, <2>7
  <1>6. ASSUME NEW retryable, NEW bad, closeStream(retryable, bad)
        PROVE  Goal
    BY <1>6, RetryIsNoOk DEF closeStream
  <1>7. ASSUME ensureStreamFails
        PROVE  Goal
    BY <1>7, RetryIsNoOk DEF ensureStreamFails
  <1>8. ASSUME Close
        PROVE  Goal
    BY <1>8 DEF Close, finishRequests
  <1>9. ASSUME NEW s \in Stream, PeerStep(s)
        PROVE  call' = call /\ reliable' = reliable
    BY <1>9 DEF PeerStep, LaneRecv, LaneRefuses, LaneReplies, LaneEnds, ExecuteStarts,
                ExecuteWindowFull, ExecuteHits, ExecuteEnds, callVars
  <1>10. ASSUME Fetch \/ ensureStream \/ SendFrame
         PROVE  call' = call /\ reliable' = reliable
    BY <1>10 DEF Fetch, ensureStream, SendFrame, callVars
  <1>11. ASSUME NEW x \in Request, TTLPasses(x)
         PROVE  call' = call /\ reliable' = reliable
    BY <1>11 DEF TTLPasses, callVars
  <1>12. ASSUME NEW e \in {"client", "server"}, ViewMoves(e)
         PROVE  call' = call /\ reliable' = reliable
    BY <1>12 DEF ViewMoves, callVars
  <1>13. ASSUME PeerRestarts
         PROVE  call' = call /\ reliable' = reliable
    BY <1>13 DEF PeerRestarts, callVars
  <1> HIDE DEF Goal
  <1>14. Goal
    BY <1>2, <1>3, <1>4, <1>5, <1>6, <1>7, <1>8, <1>9, <1>10, <1>11, <1>12, <1>13
       DEF LaneNext, LaneStep, StreamFails, Tick, ReceiveInvalid
  <1> QED BY <1>14 DEF Goal

\* Every step keeps OkMeansExecuted.
LEMMA OkMeansExecutedStep ==
    ASSUME LaneTypeOK, OnePlaceEach, ResultsAreTrue, OkMeansExecuted, LaneNext, LaneTypeOK'
    PROVE  OkMeansExecuted'
  <1>1. reliable' \subseteq Request
    BY DEF LaneTypeOK
  <1>2. ASSUME NEW r \in reliable', call'[r] = "ok"
        PROVE  r \in succeeded
    BY <1>1, <1>2, OkSteps DEF OkMeansExecuted, ResultsAreTrue
  <1> QED BY <1>2, SucceededGrows DEF OkMeansExecuted

-----------------------------------------------------------------------------
(* What a step does to stream t: to its handler and to the frames under way to it. *)

\* The handler stays as it was; the lane may have sent another frame.
Stays(t) ==
    /\ srv'[t] = srv[t]
    /\ \/ up'[t] = up[t]
       \/ SendFrame /\ t = stream /\ up'[t] = Append(up[t],
              [req |-> Head(ready), seq |-> sequence + 1, epoch |-> viewEpoch.client])

\* It takes the next frame ...
Takes(t) ==
    /\ srv[t].pc = "recv" /\ srv'[t].pc = "got" /\ up[t] # <<>>
    /\ srv'[t].expected = srv[t].expected /\ srv'[t].frame = Head(up[t]) /\ up'[t] = Tail(up[t])

\* ... refuses it, or executes it, repeats or awaits the result, or finds the table full ...
Works(t) ==
    /\ srv[t].pc \in {"got", "exec", "wait"} /\ srv'[t].pc \in {"exec", "wait", "reply"} \ {srv[t].pc}
    /\ srv'[t].expected = srv[t].expected /\ srv'[t].frame = srv[t].frame /\ up'[t] = up[t]
    /\ srv'[t].pc = "exec" => srv[t].frame.req \in Ran'
    /\ srv'[t].pc = "reply" => srv'[t].result \in Result
    /\ \/ srv'[t].pc = "reply" /\ srv'[t].result = "refused"
       \/ srv[t].pc = "got" => srv[t].frame.req \in Ran' \/ srv[t].frame.req \in turnedAway'

\* ... and answers.
Replies(t) ==
    /\ srv[t].pc = "reply" /\ srv'[t].pc = IF srv[t].result = "refused" THEN "done" ELSE "recv"
    /\ srv'[t].expected = srv[t].expected + 1 /\ up'[t] = up[t]

\* The stream is opened or its handler ends.
Opens(t) ==
    /\ ensureStream /\ t = opened + 1 /\ up'[t] = up[t]
    /\ srv'[t].pc = "recv" /\ srv'[t].expected = srv[t].expected /\ srv'[t].frame = srv[t].frame
Ends(t) == srv[t].pc # "off" /\ srv'[t].pc = "done" /\ up'[t] = <<>>

\* The frames under way to stream t after a step.
LEMMA FramesUnderWay ==
    ASSUME LaneTypeOK, LaneNext, NEW t \in Stream
    PROVE  \/ up'[t] = up[t] /\ ~LaneRecv(t) /\ ~LaneEnds(t) /\ ~PeerRestarts
           \/ SendFrame /\ t = stream /\ up'[t] = Append(up[t],
                  [req |-> Head(ready), seq |-> sequence + 1, epoch |-> viewEpoch.client])
           \/ LaneRecv(t) /\ up'[t] = Tail(up[t])
           \/ (LaneEnds(t) \/ PeerRestarts) /\ up'[t] = <<>>
  <1> DEFINE Sent == SendFrame /\ t = stream /\ up'[t] = Append(up[t],
                         [req |-> Head(ready), seq |-> sequence + 1, epoch |-> viewEpoch.client])
             Goal == \/ up'[t] = up[t]
                     \/ Sent
                     \/ LaneRecv(t) /\ up'[t] = Tail(up[t])
                     \/ (LaneEnds(t) \/ PeerRestarts) /\ up'[t] = <<>>
  <1>1. up \in [Stream -> Seq(Frame)]
    BY PartsOfTypes DEF LaneParts, FrameTypes
  <1>2. ASSUME up' = up
        PROVE  Goal
    BY <1>2
  <1>3. ASSUME SendFrame
        PROVE  Goal
    BY <1>1, <1>3 DEF SendFrame
  <1>4. ASSUME NEW s \in Stream, PeerStep(s)
        PROVE  Goal
    <2>1. CASE LaneRecv(s)
      BY <1>1, <2>1 DEF LaneRecv
    <2>2. CASE LaneEnds(s)
      BY <1>1, <2>2 DEF LaneEnds
    <2>3. ASSUME ~LaneRecv(s), ~LaneEnds(s)
          PROVE  up' = up
      BY <1>4, <2>3 DEF PeerStep, LaneRefuses, LaneReplies, ExecuteStarts, ExecuteWindowFull, ExecuteHits,
                        ExecuteEnds, netVars
    <2> QED BY <1>2, <2>1, <2>2, <2>3
  <1>5. ASSUME PeerRestarts
        PROVE  Goal
    BY <1>5 DEF PeerRestarts
  <1>6. ASSUME LaneStep, ~SendFrame
        PROVE  up' = up
    BY <1>6 DEF LaneStep, Fetch, ensureStream, ensureStreamFails, SkipExpired, StreamFails, Tick,
                Receive, ReceiveInvalid, closeStream, netVars
  <1>7. ASSUME NEW r \in Request, Caller(r) \/ TTLPasses(r)
        PROVE  up' = up
    BY <1>7 DEF Caller, Call, CallRejected, Deadline, TTLPasses, netVars
  <1>8. ASSUME NEW e \in {"client", "server"}, ViewMoves(e)
        PROVE  up' = up
    BY <1>8 DEF ViewMoves, netVars
  <1>9. ASSUME Close
        PROVE  up' = up
    BY <1>9 DEF Close
  <1>10. Goal
    <2> HIDE DEF Goal
    <2> QED BY <1>2, <1>3, <1>4, <1>5, <1>6, <1>7, <1>8, <1>9 DEF LaneNext
  <1>11. LaneRecv(t) => up'[t] = Tail(up[t])
    BY <1>1 DEF LaneRecv
  <1>12. LaneEnds(t) \/ PeerRestarts => up'[t] = <<>>
    BY <1>1 DEF LaneEnds, PeerRestarts
  <1> QED BY <1>10, <1>11, <1>12

\* A handler that executes or is being woken works on the stream.
LEMMA StreamMoves ==
    ASSUME LaneTypeOK, FramesNumbered, TableKnows, LaneNext, NEW t \in Stream
    PROVE  Stays(t) \/ Takes(t) \/ Works(t) \/ Replies(t) \/ Opens(t) \/ Ends(t)
  <1> DEFINE Goal == Stays(t) \/ Takes(t) \/ Works(t) \/ Replies(t) \/ Opens(t) \/ Ends(t)
             sent == [req |-> Head(ready), seq |-> sequence + 1, epoch |-> viewEpoch.client]
  <1>1. /\ srv \in [Stream -> SrvType] /\ up \in [Stream -> Seq(Frame)]
        /\ dedupe \in [Request -> {"none", "running", "ok", "failed", "old"}]
    BY PartsOfTypes DEF LaneParts, TableTypes, FrameTypes
  <1>2. ASSUME NEW h, srv' = [srv EXCEPT ![t] = h]
        PROVE  srv'[t] = h
    BY <1>1, <1>2
  <1>3. ASSUME ~PeerRestarts, ~SendFrame, ~LaneRecv(t), ~LaneEnds(t)
        PROVE  up'[t] = up[t]
    BY <1>3, FramesUnderWay
  <1>4. ASSUME NEW r \in Request, Live(r)
        PROVE  r \in Ran'
    BY <1>4, RanGrows DEF TableKnows
  <1>5. ASSUME NEW pc \in {"exec", "wait", "reply"}, NEW res, srv'[t] = With(t, pc, res),
               srv[t].pc \in {"got", "exec", "wait"}, pc # srv[t].pc, up'[t] = up[t],
               pc = "exec" => srv[t].frame.req \in Ran', pc = "reply" => res \in Result,
               \/ pc = "reply" /\ res = "refused"
               \/ srv[t].pc = "got" => srv[t].frame.req \in Ran' \/ srv[t].frame.req \in turnedAway'
        PROVE  Goal
    <2>1. /\ srv'[t].pc = pc /\ srv'[t].expected = srv[t].expected
          /\ srv'[t].frame = srv[t].frame /\ srv'[t].result = res
      BY <1>5, HandlerFields DEF With
    <2> QED BY <1>5, <2>1 DEF Works
  <1> HIDE DEF Goal
  <1>6. ASSUME LaneRecv(t)
        PROVE  Goal
    <2>1. /\ srv[t].pc = "recv" /\ up[t] # <<>>
          /\ srv' = [srv EXCEPT ![t] = HandlerOf("got", srv[t].expected, Head(up[t]), viewEpoch.server, "none")]
      BY <1>6, HandlerSteps
    <2>2. srv'[t] = HandlerOf("got", srv[t].expected, Head(up[t]), viewEpoch.server, "none")
      BY <1>2, <2>1
    <2>3. up'[t] = Tail(up[t])
      BY <1>1, <1>6 DEF LaneRecv
    <2> QED BY <2>1, <2>2, <2>3, HandlerFields DEF Takes, Goal
  <1>7. ASSUME LaneRefuses(t)
        PROVE  Goal
    <2>1. srv[t].pc = "got" /\ srv' = [srv EXCEPT ![t] = With(t, "reply", "refused")] /\ up' = up
      BY <1>7, HandlerSteps DEF LaneRefuses, netVars
    <2>2. srv'[t] = With(t, "reply", "refused") /\ "refused" \in Result
      BY <1>2, <2>1 DEF Result
    <2> QED BY <1>5, <2>1, <2>2
  <1>8. ASSUME ExecuteStarts(t)
        PROVE  Goal
    <2>1. srv[t].pc = "got" /\ srv' = [srv EXCEPT ![t] = With(t, "exec", srv[t].result)]
      BY <1>8, HandlerSteps
    <2>2. up' = up
      BY <1>8 DEF ExecuteStarts, netVars
    <2>3. srv'[t] = With(t, "exec", srv[t].result)
      BY <1>2, <2>1
    <2>4. srv[t].frame.req \in Ran'
      BY <1>8, LogAppends
    <2> QED BY <1>5, <2>1, <2>2, <2>3, <2>4
  <1>9. ASSUME ExecuteWindowFull(t)
        PROVE  Goal
    <2>1. srv[t].pc = "got" /\ srv' = [srv EXCEPT ![t] = With(t, "reply", "failed")]
      BY <1>9, HandlerSteps
    <2>2. up' = up /\ srv[t].frame.req \in turnedAway' /\ "failed" \in Result
      BY <1>9 DEF ExecuteWindowFull, netVars, Result
    <2>3. srv'[t] = With(t, "reply", "failed")
      BY <1>2, <2>1
    <2> QED BY <1>5, <2>1, <2>2, <2>3
  <1>10. ASSUME ExecuteHits(t)
         PROVE  Goal
    <2>1. srv[t].pc = "got" /\ Live(srv[t].frame.req) /\ up' = up
      BY <1>10 DEF ExecuteHits, netVars
    <2>2. srv[t].frame.req \in Ran'
      BY <1>4, <2>1, HeldIs DEF Holding
    <2>3. CASE srv' = [srv EXCEPT ![t] = With(t, "wait", srv[t].result)]
      <3>1. srv'[t] = With(t, "wait", srv[t].result)
        BY <1>2, <2>3
      <3> QED BY <1>5, <2>1, <2>2, <3>1
    <2>4. CASE /\ dedupe[srv[t].frame.req] \in {"ok", "failed"}
               /\ srv' = [srv EXCEPT ![t] = With(t, "reply", dedupe[srv[t].frame.req])]
      <3>1. srv'[t] = With(t, "reply", dedupe[srv[t].frame.req]) /\ dedupe[srv[t].frame.req] \in Result
        BY <1>2, <2>4 DEF Result
      <3> QED BY <1>5, <2>1, <2>2, <3>1
    <2> QED BY <1>10, <2>3, <2>4, HandlerSteps
  <1>11. ASSUME LaneReplies(t)
         PROVE  Goal
    <2>1. PICK pc : pc = IF srv[t].result = "refused" THEN "done" ELSE "recv"
      OBVIOUS
    <2>2. /\ srv[t].pc = "reply"
          /\ srv' = [srv EXCEPT ![t] = HandlerOf(pc, srv[t].expected + 1, NoFrame, 0, "none")]
      BY <1>11, <2>1, HandlerSteps
    <2>3. up' = up
      BY <1>11 DEF LaneReplies
    <2>4. srv'[t] = HandlerOf(pc, srv[t].expected + 1, NoFrame, 0, "none")
      BY <1>2, <2>2
    <2> QED BY <2>1, <2>2, <2>3, <2>4, HandlerFields DEF Replies, Goal
  <1>12. ASSUME LaneEnds(t)
         PROVE  Goal
    <2>1. srv[t].pc # "off" /\ srv' = [srv EXCEPT ![t] = HandlerOf("done", 1, NoFrame, 0, "none")]
      BY <1>12, HandlerSteps
    <2>2. srv'[t] = HandlerOf("done", 1, NoFrame, 0, "none") /\ up'[t] = <<>>
      BY <1>1, <1>2, <1>12, <2>1 DEF LaneEnds
    <2> QED BY <2>1, <2>2, HandlerFields DEF Ends, Goal
  <1>13. ASSUME ensureStream, t = opened + 1, srv'[t] = With(t, "recv", srv[t].result)
         PROVE  Goal
    <2>1. up' = up
      BY <1>13 DEF ensureStream, netVars
    <2>2. srv'[t].pc = "recv" /\ srv'[t].expected = srv[t].expected /\ srv'[t].frame = srv[t].frame
      BY <1>13, HandlerFields DEF With
    <2> QED BY <1>13, <2>1, <2>2 DEF Opens, Goal
  <1>14. ASSUME NEW s \in Stream, NEW res \in {"ok", "failed"}, ExecuteEnds(s),
                dedupe' = [dedupe EXCEPT ![srv[s].frame.req] = res],
                t = s \/ (srv[t].pc = "wait" /\ srv[t].frame.req = srv[s].frame.req),
                srv'[t] = With(t, "reply", res)
         PROVE  Goal
    <2>1. srv[s].pc = "exec" /\ up' = up
      BY <1>14 DEF ExecuteEnds, netVars
    <2>2. srv[t].pc \in {"exec", "wait"} /\ res \in Result
      BY <1>14, <2>1 DEF Result
    <2> QED BY <1>5, <1>14, <2>1, <2>2
  <1>15. ASSUME PeerRestarts
         PROVE  Goal
    <2>1. srv'[t] = (IF srv[t].pc = "off" THEN srv[t] ELSE GoneHandler) /\ up'[t] = <<>>
      BY <1>15 DEF PeerRestarts
    <2>2. CASE srv[t].pc = "off"
      BY <2>1, <2>2 DEF FramesNumbered, Stays, Goal
    <2>3. CASE srv[t].pc # "off"
      BY <2>1, <2>3 DEF Ends, GoneHandler, Handler, Goal
    <2> QED BY <2>2, <2>3
  <1>16. ASSUME srv'[t] = srv[t], ~PeerStep(t), ~PeerRestarts
         PROVE  Goal
    <2>1. \/ up'[t] = up[t]
          \/ SendFrame /\ t = stream /\ up'[t] = Append(up[t], sent)
      BY <1>16, FramesUnderWay DEF PeerStep
    <2> QED BY <1>16, <2>1 DEF Stays, Goal
  <1>17. ASSUME PeerStep(t), ~ExecuteEnds(t)
         PROVE  Goal
    BY <1>6, <1>7, <1>8, <1>9, <1>10, <1>11, <1>12, <1>17 DEF PeerStep
  <1>18. ASSUME ExecuteEnds(t)
         PROVE  Goal
    <2>1. srv[t].pc = "exec" /\ up' = up
      BY <1>18 DEF ExecuteEnds, netVars
    <2>2. PICK res \in {"ok", "failed"} : srv'[t] = With(t, "reply", res)
      BY <1>18 DEF ExecuteEnds, With, HandlerOf
    <2>3. res \in Result
      BY DEF Result
    <2> QED BY <1>5, <2>1, <2>2, <2>3
  <1>19. Goal
    BY <1>13, <1>14, <1>15, <1>16, <1>17, <1>18, HandlerMoves
  <1> QED BY <1>19 DEF Goal

\* A stream in use has been opened; sequence and stream change with a frame, with the next
\* stream and when the stream is given up.
LEMMA SequenceMoves ==
    ASSUME LaneTypeOK, LaneNext
    PROVE  \/ stream' = stream /\ sequence' = sequence /\ opened' = opened /\ ~SendFrame /\ ~ensureStream
           \/ SendFrame /\ stream' = stream /\ sequence' = sequence + 1 /\ opened' = opened /\ stream # 0
           \/ ensureStream /\ opened' = opened + 1 /\ stream' = opened' /\ sequence' = 0
           \/ stream' = 0 /\ opened' = opened /\ ~SendFrame /\ ~ensureStream
  <1> DEFINE Goal == \/ stream' = stream /\ sequence' = sequence /\ opened' = opened
                     \/ SendFrame /\ stream' = stream /\ sequence' = sequence + 1 /\ opened' = opened /\ stream # 0
                     \/ ensureStream /\ opened' = opened + 1 /\ stream' = opened' /\ sequence' = 0
                     \/ stream' = 0 /\ opened' = opened
             Same == stream' = stream /\ sequence' = sequence /\ opened' = opened
  <1>1. sequence \in Nat /\ opened \in Nat
    BY PartsOfTypes, LaneBounds DEF LaneParts, StreamTypes
  <1>2. ASSUME NEW s \in Stream, PeerStep(s)
        PROVE  Same
    BY <1>2 DEF PeerStep, LaneRecv, LaneRefuses, LaneReplies, LaneEnds, ExecuteStarts,
                ExecuteWindowFull, ExecuteHits, ExecuteEnds, laneVars
  <1>3. ASSUME Fetch \/ ensureStreamFails \/ SkipExpired \/ Receive
        PROVE  Same
    BY <1>3 DEF Fetch, ensureStreamFails, SkipExpired, Receive
  <1>4. ASSUME NEW r \in Request, Caller(r) \/ TTLPasses(r)
        PROVE  Same
    BY <1>4 DEF Caller, Call, CallRejected, Deadline, TTLPasses, laneVars
  <1>5. ASSUME NEW e \in {"client", "server"}, ViewMoves(e)
        PROVE  Same
    BY <1>5 DEF ViewMoves, laneVars
  <1>6. ASSUME PeerRestarts
        PROVE  Same
    BY <1>6 DEF PeerRestarts, laneVars
  <1>7. ASSUME Close \/ StreamFails \/ Tick \/ ReceiveInvalid
        PROVE  stream' = 0 /\ opened' = opened
    BY <1>7 DEF Close, StreamFails, Tick, ReceiveInvalid, closeStream
  <1>8. ASSUME SendFrame
        PROVE  stream' = stream /\ sequence' = sequence + 1 /\ opened' = opened /\ stream # 0
    BY <1>8 DEF SendFrame
  <1>9. ASSUME ensureStream
        PROVE  opened' = opened + 1 /\ stream' = opened' /\ sequence' = 0
    BY <1>9 DEF ensureStream
  <1>10. Goal
    BY <1>2, <1>3, <1>4, <1>5, <1>6, <1>7, <1>8, <1>9 DEF LaneNext, LaneStep
  <1> QED BY <1>1, <1>8, <1>9, <1>10

\* Every step keeps the numbers of frames and the streams in their order.
LEMMA FramesNumberedStep ==
    ASSUME LaneTypeOK, FramesNumbered, TableKnows, LaneNext, LaneTypeOK'
    PROVE  FramesNumbered'
  <1> USE DEF Stream
  <1>1. /\ stream \in 0 .. opened /\ opened \in Nat /\ sequence \in Nat
        /\ up \in [Stream -> Seq(Frame)]
    BY PartsOfTypes, LaneBounds DEF LaneParts, StreamTypes, FrameTypes
  <1>2. ASSUME NEW t \in Stream
        PROVE  /\ srv[t].expected \in Nat /\ up[t] \in Seq(Frame) /\ Len(up[t]) \in Nat
               /\ srv[t].pc \in {"off", "recv", "got", "exec", "wait", "reply", "done"}
               /\ Stays(t) \/ Takes(t) \/ Works(t) \/ Replies(t) \/ Opens(t) \/ Ends(t)
    <2>1. up[t] \in Seq(Frame)
      BY <1>1
    <2> QED BY <2>1, HandlerTypes, StreamMoves, PartsOfTypes DEF LaneParts
  <1>3. ASSUME NEW t \in Stream
        PROVE  srv'[t].pc = "off" <=> t > opened'
    <2>1. srv[t].pc = "off" <=> t > opened
      BY DEF FramesNumbered
    <2>2. CASE Opens(t)
      BY <1>1, <2>2, SequenceMoves DEF Opens, ensureStream
    <2>3. ASSUME ~Opens(t)
          PROVE  srv'[t].pc = "off" <=> srv[t].pc = "off"
      BY <1>2, <2>3 DEF Stays, Takes, Works, Replies, Ends
    <2>4. ASSUME ensureStream, t = opened + 1
          PROVE  Opens(t)
      <3>1. srv'[t].pc = "recv"
        <4>1. srv' = [srv EXCEPT ![t].pc = "recv"]
          BY <2>4 DEF ensureStream
        <4> QED BY <4>1, PlaceIs, HandlerFields, PartsOfTypes DEF LaneParts, TableTypes, With
      <3>2. srv[t].pc = "off"
        BY <1>1, <2>1, <2>4
      <3> QED BY <1>2, <3>1, <3>2 DEF Stays, Takes, Works, Replies, Ends
    <2> QED BY <1>1, <2>1, <2>2, <2>3, <2>4, SequenceMoves
  <1>4. ASSUME NEW t \in Stream, Holding(t)'
        PROVE  srv'[t].frame \in Frame
    <2>1. CASE Takes(t)
      <3>1. up[t] # <<>> /\ srv'[t].frame = Head(up[t])
        BY <2>1 DEF Takes
      <3> QED BY <1>2, <3>1
    <2>2. CASE Works(t)
      BY <2>2 DEF Works, FramesNumbered, Holding
    <2>3. CASE Stays(t)
      BY <1>4, <2>3 DEF Stays, FramesNumbered, Holding
    <2> QED BY <1>2, <1>4, <2>1, <2>2, <2>3 DEF Replies, Opens, Ends, Holding
  <1>5. ASSUME NEW t \in Stream, srv'[t].pc = "reply"
        PROVE  srv'[t].result \in Result
    BY <1>2, <1>5 DEF Stays, Takes, Works, Replies, Opens, Ends, FramesNumbered
  <1>6. ASSUME NEW t \in Stream, srv'[t].pc = "off"
        PROVE  up'[t] = <<>> /\ srv'[t] = Handler("off")
    <2>1. Stays(t)
      BY <1>2, <1>6 DEF Takes, Works, Replies, Opens, Ends
    <2>2. srv[t].pc = "off" /\ t > opened
      BY <1>6, <2>1 DEF Stays, FramesNumbered
    <2>3. up'[t] = up[t]
      BY <1>1, <2>1, <2>2 DEF Stays
    <2> QED BY <2>1, <2>2, <2>3 DEF Stays, FramesNumbered
  <1>7. ASSUME NEW t \in Stream, srv'[t].pc = "exec"
        PROVE  srv'[t].frame.req \in Ran'
    <2>1. Stays(t) \/ Works(t)
      BY <1>2, <1>7 DEF Takes, Replies, Opens, Ends
    <2> QED BY <1>7, <2>1, RanGrows DEF Stays, Works, FramesNumbered
  <1>8. ASSUME NEW t \in Stream, Handles(t)'
        PROVE  /\ \A k \in 1 .. Len(up'[t]) : up'[t][k].seq = Before(t)' + k
               /\ t = stream' => sequence' = Before(t)' + Len(up'[t])
    <2> DEFINE Goal == /\ \A k \in 1 .. Len(up'[t]) : up'[t][k].seq = Before(t)' + k
                       /\ t = stream' => sequence' = Before(t)' + Len(up'[t])
    <2>0. srv[t].expected \in Nat /\ Len(up[t]) \in Nat
      BY <1>2
    <2>1. ASSUME Handles(t), Before(t)' = Before(t), up'[t] = up[t], ~(SendFrame /\ t = stream), ~ensureStream
          PROVE  Goal
      <3>1. t # 0 /\ (t = stream' => t = stream /\ sequence' = sequence)
        BY <1>1, <2>1, SequenceMoves
      <3> QED BY <2>1, <3>1 DEF FramesNumbered
    <2>2. CASE Stays(t)
      <3>1. Handles(t) /\ Before(t)' = Before(t) /\ t <= opened
        BY <1>1, <1>8, <2>2 DEF Stays, Handles, Before, FramesNumbered
      <3>2. CASE SendFrame /\ t = stream
        <4>1. PICK frame : frame = [req |-> Head(ready), seq |-> sequence + 1, epoch |-> viewEpoch.client]
          OBVIOUS
        <4>2. up'[t] = Append(up[t], frame)
          BY <1>1, <3>2, <4>1 DEF SendFrame
        <4>3. frame.seq = sequence + 1 /\ sequence' = sequence + 1
          BY <3>2, <4>1 DEF SendFrame
        <4>4. Before(t) \in Int /\ sequence = Before(t) + Len(up[t])
          BY <1>1, <1>2, <3>1, <3>2 DEF Before, FramesNumbered
        <4>5. Len(up'[t]) = Len(up[t]) + 1 /\ up'[t][Len(up[t]) + 1] = frame
          BY <1>2, <4>2
        <4>6. \A k \in 1 .. Len(up[t]) : up'[t][k] = up[t][k] /\ up[t][k].seq = Before(t) + k
          BY <1>2, <3>1, <4>2 DEF FramesNumbered
        <4>7. ASSUME NEW k \in 1 .. Len(up'[t])
              PROVE  up'[t][k].seq = Before(t) + k
          <5>1. Len(up[t]) \in Nat
            BY <1>2
          <5>2. k \in 1 .. Len(up[t]) \/ k = Len(up[t]) + 1
            BY <4>5, <5>1
          <5>3. CASE k = Len(up[t]) + 1
            <6>1. up'[t][k] = frame
              BY <4>5, <5>3
            <6>2. up'[t][k].seq = sequence + 1 /\ sequence = Before(t) + Len(up[t])
              BY <4>3, <4>4, <6>1
            <6> QED BY <4>4, <5>1, <5>3, <6>2
          <5> QED BY <4>6, <5>2, <5>3
        <4>8. sequence' = Before(t) + Len(up'[t])
          BY <1>1, <1>2, <4>3, <4>4, <4>5
        <4> QED BY <3>1, <4>7, <4>8
      <3>3. CASE ~(SendFrame /\ t = stream)
        <4>1. up'[t] = up[t]
          BY <2>2, <3>3 DEF Stays
        <4>2. CASE ~ensureStream
          BY <2>1, <3>1, <3>3, <4>1, <4>2
        <4>3. CASE ensureStream
          <5>1. t # stream'
            BY <1>1, <3>1, <4>3, SequenceMoves DEF ensureStream
          <5> QED BY <3>1, <4>1, <5>1 DEF FramesNumbered
        <4> QED BY <4>2, <4>3
      <3> QED BY <3>2, <3>3
    <2>3. ASSUME NEW s \in Stream, srv'[s] # srv[s], ~Opens(s)
          PROVE  ~SendFrame /\ ~ensureStream
      <3>1. ASSUME ensureStream
            PROVE  FALSE
        <4>1. opened + 1 \in Stream /\ srv' = [srv EXCEPT ![opened + 1].pc = "recv"]
          BY <1>1, <3>1, LaneBounds DEF ensureStream
        <4>2. s = opened + 1
          BY <2>3, <4>1, PartsOfTypes DEF LaneParts, TableTypes
        <4>3. srv[s].pc = "off" /\ srv'[s].pc # "off"
          <5>1. srv' = [srv EXCEPT ![s] = With(s, "recv", srv[s].result)]
            BY <4>1, <4>2, PlaceIs, PartsOfTypes DEF LaneParts
          <5>2. srv'[s].pc = "recv"
            BY <5>1, HandlerFields, PartsOfTypes DEF LaneParts, TableTypes, With
          <5> QED BY <1>1, <4>2, <5>2 DEF FramesNumbered
        <4> QED BY <1>2, <2>3, <4>3 DEF Stays, Takes, Works, Replies, Ends
      <3>2. ~SendFrame
        BY <2>3 DEF SendFrame, peerVars
      <3> QED BY <3>1, <3>2
    <2>4. CASE Takes(t)
      <3>1. /\ srv[t].pc = "recv" /\ srv'[t].pc = "got" /\ up[t] # <<>>
            /\ srv'[t].expected = srv[t].expected /\ up'[t] = Tail(up[t])
        BY <2>4 DEF Takes
      <3>2. Handles(t) /\ Before(t) = srv[t].expected - 1 /\ Before(t)' = srv[t].expected
        BY <3>1 DEF Handles, Before
      <3>3. ~SendFrame /\ ~ensureStream
        BY <2>3, <3>1 DEF Opens
      <3>4. Len(up'[t]) = Len(up[t]) - 1 /\ \A k \in 1 .. Len(up[t]) - 1 : up'[t][k] = up[t][k + 1]
        BY <1>2, <3>1
      <3>5. \A k \in 1 .. Len(up[t]) : up[t][k].seq = Before(t) + k
        BY <3>2 DEF FramesNumbered
      <3>6. t # 0 /\ (t = stream' => t = stream /\ sequence' = sequence)
        BY <1>1, <3>3, SequenceMoves
      <3>7. t = stream => sequence = Before(t) + Len(up[t])
        BY <3>2, <3>6 DEF FramesNumbered
      <3>8. ASSUME NEW k \in 1 .. Len(up'[t])
            PROVE  up'[t][k].seq = srv[t].expected + k
        <4>1. k + 1 \in 1 .. Len(up[t]) /\ up'[t][k] = up[t][k + 1]
          BY SMTT(30), <1>2, <3>4
        <4>2. up'[t][k].seq = srv[t].expected - 1 + (k + 1)
          BY <3>2, <3>5, <4>1
        <4>3. k \in Int
          BY <2>0, <3>4
        <4>4. \A x \in Nat : x - 1 + (k + 1) = x + k
          BY <4>3
        <4> QED BY <2>0, <4>2, <4>4
      <3>9. t = stream' => sequence' = srv[t].expected + Len(up'[t])
        BY <2>0, <3>2, <3>4, <3>6, <3>7
      <3> QED BY <3>2, <3>8, <3>9
    <2>5. CASE Works(t)
      <3>1. Handles(t) /\ Before(t)' = Before(t) /\ up'[t] = up[t]
        BY <2>5 DEF Works, Handles, Before
      <3>2. ~SendFrame /\ ~ensureStream
        BY <2>3, <2>5 DEF Works, Opens
      <3> QED BY <2>1, <3>1, <3>2
    <2>6. CASE Replies(t)
      <3>1. /\ srv[t].pc = "reply" /\ srv'[t].pc = "recv" /\ up'[t] = up[t]
            /\ srv'[t].expected = srv[t].expected + 1
        BY <1>8, <2>6 DEF Replies, Handles
      <3>2. Handles(t) /\ Before(t)' = Before(t)
        BY <2>0, <3>1 DEF Handles, Before
      <3>3. ~SendFrame /\ ~ensureStream
        BY <2>0, <2>3, <3>1 DEF Opens
      <3> QED BY <2>1, <3>1, <3>2, <3>3
    <2>7. CASE Opens(t)
      <3>1. t > opened /\ t = opened + 1 /\ srv'[t].expected = srv[t].expected /\ up'[t] = up[t] /\ srv'[t].pc = "recv"
        BY <1>1, <2>7 DEF Opens
      <3>2. up[t] = <<>> /\ srv[t].expected = 1
        BY <3>1 DEF FramesNumbered, Handler
      <3>3. Len(up'[t]) = 0 /\ Before(t)' = 0
        BY <3>1, <3>2 DEF Before
      <3>4. sequence' = 0
        BY <2>7 DEF Opens, ensureStream
      <3> QED BY <3>3, <3>4
    <2>8. ~Ends(t)
      BY <1>8 DEF Ends, Handles
    <2> QED BY <1>2, <2>2, <2>4, <2>5, <2>6, <2>7, <2>8
  <1>9. ASSUME stream' # 0, Handles(stream)'
        PROVE  sequence' = Before(stream)' + Len(up'[stream'])
    <2>1. stream' \in Stream
      BY <1>9, PartsOfTypes, LaneBounds DEF LaneTypeOK
    <2>2. PICK t \in Stream : t = stream'
      BY <2>1
    <2> QED BY <1>8, <1>9, <2>2 DEF Handles, Before
  <1>10. FramesNumbered'
    BY <1>3, <1>4, <1>5, <1>6, <1>7, <1>8, <1>9 DEF FramesNumbered
  <1> QED BY <1>10

\* Every step keeps FramesInSequence: the head of the frames under way is the one expected.
LEMMA FramesInSequenceStep ==
    ASSUME LaneTypeOK, FramesNumbered, TableKnows, FramesInSequence, LaneNext
    PROVE  FramesInSequence'
  <1>1. ASSUME NEW t \in Stream, srv'[t].pc = "got"
        PROVE  srv'[t].frame.seq = srv'[t].expected
    <2>1. Stays(t) \/ Takes(t) \/ Works(t) \/ Replies(t) \/ Opens(t) \/ Ends(t)
      BY StreamMoves
    <2>2. CASE Stays(t)
      BY <1>1, <2>2 DEF Stays, FramesInSequence
    <2>3. CASE Takes(t)
      <3>1. /\ srv[t].pc = "recv" /\ up[t] # <<>> /\ srv'[t].frame = Head(up[t])
            /\ srv'[t].expected = srv[t].expected /\ srv[t].expected \in Nat
        BY <2>3, HandlerTypes, PartsOfTypes DEF Takes, LaneParts
      <3>2. up[t] \in Seq(Frame)
        BY PartsOfTypes DEF LaneParts, FrameTypes
      <3>3. Head(up[t]) = up[t][1] /\ 1 \in 1 .. Len(up[t])
        BY <3>1, <3>2
      <3>4. up[t][1].seq = srv[t].expected - 1 + 1
        BY <3>1, <3>3 DEF FramesNumbered, Handles, Before
      <3> QED BY <3>1, <3>3, <3>4
    <2> QED BY <1>1, <2>1, <2>2, <2>3 DEF Works, Replies, Opens, Ends
  <1> QED BY <1>1 DEF FramesInSequence

\* Every step keeps the types and the limits of the lane.
LEMMA LaneTypesStep ==
    ASSUME LaneTypeOK, AttemptsLeft, FramesNumbered, TableKnows, LaneNext
    PROVE  LaneTypeOK'
  <1>1. (CallTypes /\ QueueTypes /\ CarryTypes /\ StreamTypes)'
    BY ClientTypesStep
  <1>2. FrameTypes' /\ TableTypes' /\ TableFits'
    BY FrameTypesStep, TableTypesStep, TableFitsStep
  <1>3. LaneTypeOK' <=> LaneParts'
    BY DEF LaneTypeOK, LaneParts, CallTypes, QueueTypes, CarryTypes, StreamTypes, FrameTypes,
           TableTypes, TableFits
  <1> QED BY <1>1, <1>2, <1>3 DEF LaneParts

-----------------------------------------------------------------------------
(* What a step does to the requests that are carried: it takes one more from a queue, or it *)
(* sifts them, keeping their order.                                                         *)

\* Place p is not among the places f that are kept.
Dropped(f, p) == \A k \in 1 .. Len(carried') : f[k] # p

\* The requests carried after the step are those at the places f, in their order; the others
\* are finished: nobody waits for them any more and they do not count as in flight.
Sifts(f) ==
    /\ f \in [1 .. Len(carried') -> 1 .. Len(carried)]
    /\ \A a, b \in 1 .. Len(carried') : a < b => f[a] < f[b]
    /\ \A k \in 1 .. Len(carried') : carried'[k] = carried[f[k]]
    /\ \A p \in 1 .. Len(carried) : Dropped(f, p) =>
           call'[carried[p]] # "waiting" /\ carried[p] \notin started'
    /\ \A r \in started \ started' : \E p \in 1 .. Len(carried) : Dropped(f, p) /\ carried[p] = r
    /\ \A r \in started' : r \in started \/ (SendFrame /\ r = Head(ready))

\* Nothing is dropped.
LEMMA SiftSame ==
    ASSUME Len(carried) \in Nat, Len(carried') = Len(carried),
           \A k \in 1 .. Len(carried) : carried'[k] = carried[k],
           started \subseteq started',
           \A r \in started' : r \in started \/ (SendFrame /\ r = Head(ready))
    PROVE  \E f : Sifts(f)
  <1> DEFINE f == [k \in 1 .. Len(carried') |-> k]
  <1>1. /\ f \in [1 .. Len(carried') -> 1 .. Len(carried)]
        /\ \A k \in 1 .. Len(carried') : f[k] = k
    OBVIOUS
  <1> HIDE DEF f
  <1>2. \A p \in 1 .. Len(carried) : ~Dropped(f, p)
    BY <1>1 DEF Dropped
  <1>3. Sifts(f)
    BY <1>1, <1>2 DEF Sifts
  <1> QED BY <1>3

\* One place is dropped.
LEMMA SiftOut ==
    ASSUME Len(carried) \in Nat, NEW i \in 1 .. Len(carried), Len(carried') = Len(carried) - 1,
           \A k \in 1 .. Len(carried) - 1 : carried'[k] = carried[IF k < i THEN k ELSE k + 1],
           started' = started \ {carried[i]}, call'[carried[i]] # "waiting"
    PROVE  \E f : Sifts(f)
  <1> DEFINE f == [k \in 1 .. Len(carried') |-> IF k < i THEN k ELSE k + 1]
  <1>1. /\ f \in [1 .. Len(carried') -> 1 .. Len(carried)]
        /\ \A k \in 1 .. Len(carried') : f[k] = (IF k < i THEN k ELSE k + 1)
    OBVIOUS
  <1> HIDE DEF f
  <1>2. \A k \in 1 .. Len(carried') : f[k] # i
    BY <1>1
  <1>3. \A a, b \in 1 .. Len(carried') : a < b => f[a] < f[b]
    BY <1>1
  <1>4. ASSUME NEW p \in 1 .. Len(carried), p # i
        PROVE  ~Dropped(f, p)
    <2>1. CASE p < i
      <3>1. p \in 1 .. Len(carried') /\ f[p] = p
        BY <1>1, <2>1
      <3> QED BY <3>1 DEF Dropped
    <2>2. CASE ~(p < i)
      <3>1. p - 1 \in 1 .. Len(carried') /\ ~(p - 1 < i)
        BY <1>4, <2>2
      <3>2. f[p - 1] = p
        BY <1>1, <3>1
      <3> QED BY <3>1, <3>2 DEF Dropped
    <2> QED BY <2>1, <2>2
  <1>5. Dropped(f, i)
    BY <1>2 DEF Dropped
  <1>6. Sifts(f)
    BY <1>1, <1>3, <1>4, <1>5 DEF Sifts
  <1> QED BY <1>6

\* The places K are kept.
LEMMA SiftRetry ==
    ASSUME LaneTypeOK, LaneTypeOK', NEW retryable, NEW bad, retryRequests(retryable, bad),
           pending' = <<>>
    PROVE  \E f : Sifts(f)
  <1>1. carried \in Seq(Request) /\ Len(carried) \in Nat /\ \A p \in 1 .. Len(carried) : carried[p] \in Request
    <2>1. carried \in Seq(Request)
      BY CarriedIs
    <2> QED BY <2>1
  <1>2. PICK K \in SUBSET (1 .. Len(carried)) : \E f \in Ascending(K) :
             /\ ready' = [k \in DOMAIN f |-> carried[f[k]]]
             /\ \A p \in 1 .. Len(carried) : p \in K <=> carried[p] \notin bad /\ keeps(carried[p], retryable)
             /\ started' = started \ {carried[p] : p \in (1 .. Len(carried)) \ K}
             /\ call' = [r \in Request |->
                    IF r \in {carried[p] : p \in (1 .. Len(carried)) \ K} /\ call[r] = "waiting"
                    THEN IF r \in reliable \cup expired \cup bad THEN "error" ELSE "ok" ELSE call[r]]
    BY RetryIs
  <1>3. PICK f \in Ascending(K) : ready' = [k \in DOMAIN f |-> carried[f[k]]]
    BY <1>2
  <1>4. PICK n \in Nat : n = Cardinality(K)
    BY <1>1, <1>3, AscendingIs
  <1>5. /\ DOMAIN f = 1 .. n /\ f \in [1 .. n -> 1 .. Len(carried)]
        /\ \A a, b \in 1 .. n : a < b => f[a] < f[b]
        /\ \A p \in K : \E k \in 1 .. n : f[k] = p
        /\ \A k \in 1 .. n : f[k] \in K
    BY SMTT(30), <1>1, <1>3, <1>4, AscendingIs
  <1>6. Len(ready') = n /\ \A k \in 1 .. n : ready'[k] = carried[f[k]]
    <2>1. ready' \in [1 .. n -> Request]
      BY <1>1, <1>3, <1>5
    <2> QED BY <1>3, <1>4, <1>5, <2>1
  <1>7. Len(carried') = n /\ \A k \in 1 .. n : carried'[k] = carried[f[k]]
    <2>1. /\ Len(carried') = Len(pending') + Len(ready') /\ Len(pending') = 0
          /\ \A p \in 1 .. Len(ready') : carried'[Len(pending') + p] = ready'[p]
      BY CarriedIsNext
    <2>2. \A k \in 1 .. n : 0 + k = k
      BY <1>4
    <2> QED BY <1>4, <1>6, <2>1, <2>2
  <1>8. ASSUME NEW p \in 1 .. Len(carried)
        PROVE  Dropped(f, p) <=> p \notin K
    BY <1>5, <1>7 DEF Dropped
  <1>9. \A p \in 1 .. Len(carried) : p \notin K =>
            call'[carried[p]] # "waiting" /\ carried[p] \notin started'
    BY <1>1, <1>2
  <1>10. Sifts(f)
    <2>1. \A r \in started \ started' : \E p \in 1 .. Len(carried) : p \notin K /\ carried[p] = r
      BY <1>2
    <2>2. started' \subseteq started
      BY <1>2
    <2> QED BY <1>5, <1>7, <1>8, <1>9, <2>1, <2>2 DEF Sifts
  <1> QED BY <1>10

\* Every step but Fetch sifts what is carried.
LEMMA SiftSteps ==
    ASSUME LaneTypeOK, LaneTypeOK', OnePlaceEach, LaneNext, ~Fetch
    PROVE  \E f : Sifts(f)
  <1> DEFINE Goal == \E f : Sifts(f)
             Lp == Len(pending)
             Lr == Len(ready)
  <1>1. /\ Len(carried) = Lp + Lr /\ Lp \in Nat /\ Lr \in Nat /\ Len(carried) \in Nat
        /\ \A p \in 1 .. Lp : carried[p] = pending[p].req /\ pending[p].req \in Request
        /\ \A p \in 1 .. Lr : carried[Lp + p] = ready[p] /\ ready[p] \in Request
    BY CarriedIs
  <1>2. /\ Len(carried') = Len(pending') + Len(ready') /\ Len(pending') \in Nat /\ Len(ready') \in Nat
        /\ \A p \in 1 .. Len(pending') : carried'[p] = pending'[p].req
        /\ \A p \in 1 .. Len(ready') : carried'[Len(pending') + p] = ready'[p]
    BY CarriedIsNext
  <1>3. /\ ready \in Seq(Request) /\ pending \in Seq(Frame) /\ started \subseteq Request
        /\ call \in [Request -> {"new", "waiting", "ok", "error"}]
    BY PartsOfTypes DEF LaneParts, CarryTypes, CallTypes
  <1> HIDE DEF Lp, Lr
  <1>4. ASSUME pending' = pending, ready' = ready, started' = started
        PROVE  Goal
    <2>1. carried' = carried
      BY <1>4 DEF carried, pendingRequests
    <2> QED BY <1>1, <1>4, <2>1, SiftSame
  <1>5. ASSUME SendFrame
        PROVE  Goal
    <2>1. PICK frame : frame = [req |-> Head(ready), seq |-> sequence + 1, epoch |-> viewEpoch.client]
      OBVIOUS
    <2>2. ready # <<>> /\ ready' = Tail(ready) /\ pending' = Append(pending, frame) /\ started' = started \cup {Head(ready)}
      BY <1>5, <2>1 DEF SendFrame
    <2>3. Head(ready) = ready[1] /\ Lr >= 1 /\ Len(ready') = Lr - 1 /\ \A k \in 1 .. Lr - 1 : ready'[k] = ready[k + 1]
      BY <1>3, <2>2 DEF Lr
    <2>4. frame.req = ready[1]
      BY <2>1, <2>3
    <2>5. /\ Len(pending') = Lp + 1 /\ pending'[Lp + 1] = frame
          /\ \A k \in 1 .. Lp : pending'[k] = pending[k]
      BY <1>3, <2>2 DEF Lp
    <2>6. Len(carried') = Len(carried)
      BY <1>1, <1>2, <2>3, <2>5
    <2>7. ASSUME NEW k \in 1 .. Len(carried)
          PROVE  carried'[k] = carried[k]
      <3>1. CASE k <= Lp
        <4>1. k \in 1 .. Lp /\ k \in 1 .. Lp + 1
          BY <1>1, <3>1
        <4>2. carried'[k] = pending'[k].req
          BY <1>2, <2>5, <4>1
        <4> QED BY <1>1, <2>5, <4>1, <4>2
      <3>2. CASE k = Lp + 1
        <4>1. carried'[k] = frame.req
          BY <1>1, <1>2, <2>5, <3>2
        <4>2. carried[Lp + 1] = ready[1]
          BY <1>1, <2>3
        <4> QED BY <2>4, <3>2, <4>1, <4>2
      <3>3. CASE k > Lp + 1
        <4>1. PICK j \in 1 .. Lr - 1 : k = Lp + 1 + j
          <5>1. k - Lp - 1 \in 1 .. Lr - 1 /\ k = Lp + 1 + (k - Lp - 1)
            BY <1>1, <3>3
          <5> QED BY <5>1
        <4>2. carried'[Lp + 1 + j] = ready'[j]
          BY <1>2, <2>3, <2>5
        <4>3. carried[Lp + (j + 1)] = ready[j + 1] /\ Lp + (j + 1) = Lp + 1 + j
          BY <1>1
        <4> QED BY <2>3, <4>1, <4>2, <4>3
      <3> QED BY <1>1, <3>1, <3>2, <3>3
    <2>8. started \subseteq started' /\ \A r \in started' : r \in started \/ (SendFrame /\ r = Head(ready))
      BY <1>5, <2>2
    <2> QED BY <1>1, <2>6, <2>7, <2>8, SiftSame
  <1>6. ASSUME SkipExpired
        PROVE  Goal
    <2>1. /\ ready # <<>> /\ ready' = Tail(ready) /\ pending' = pending /\ started' = started \ {Head(ready)}
          /\ call' = [x \in Request |-> IF x \in {Head(ready)} /\ call[x] = "waiting"
                                        THEN [y \in Request |-> "error"][x] ELSE call[x]]
      BY <1>6 DEF SkipExpired, finishRequests
    <2>2. Head(ready) = ready[1] /\ Lr >= 1 /\ Len(ready') = Lr - 1 /\ \A k \in 1 .. Lr - 1 : ready'[k] = ready[k + 1]
      BY <1>3, <2>1 DEF Lr
    <2>3. PICK i : i = Lp + 1
      OBVIOUS
    <2>4. i \in 1 .. Len(carried) /\ carried[i] = Head(ready) /\ Head(ready) \in Request
      BY <1>1, <2>2, <2>3
    <2>5. Len(carried') = Len(carried) - 1
      BY <1>1, <1>2, <2>1, <2>2 DEF Lp
    <2>6. ASSUME NEW k \in 1 .. Len(carried) - 1
          PROVE  carried'[k] = carried[IF k < i THEN k ELSE k + 1]
      <3>1. CASE k <= Lp
        BY <1>1, <1>2, <2>1, <2>3, <3>1 DEF Lp
      <3>2. CASE k > Lp
        <4>1. PICK j \in 1 .. Lr - 1 : k = Lp + j
          <5>1. k - Lp \in 1 .. Lr - 1 /\ k = Lp + (k - Lp)
            BY <1>1, <3>2
          <5> QED BY <5>1
        <4>2. carried'[Lp + j] = ready'[j]
          BY <1>2, <2>1, <2>2 DEF Lp
        <4>3. carried[Lp + (j + 1)] = ready[j + 1]
          <5>1. j + 1 \in 1 .. Lr
            BY <1>1
          <5> QED BY <1>1, <5>1
        <4>4. Lp + (j + 1) = k + 1 /\ ~(k < i)
          BY <1>1, <2>3, <4>1
        <4> QED BY <2>2, <4>1, <4>2, <4>3, <4>4
      <3> QED BY <1>1, <3>1, <3>2
    <2>7. call'[carried[i]] # "waiting"
      BY <2>1, <2>4
    <2> QED BY <1>1, <2>1, <2>4, <2>5, <2>6, <2>7, SiftOut
  <1>7. ASSUME Receive
        PROVE  Goal
    <2>1. PICK m : m = Head(down[stream])
      OBVIOUS
    <2>2. PICK i \in DOMAIN pending :
              /\ pending[i].req = m.req
              /\ finishRequests({m.req}, [r \in Request |-> IF m.result = "ok" THEN "ok" ELSE "error"])
              /\ pending' = SubSeq(pending, 1, i - 1) \o SubSeq(pending, i + 1, Len(pending))
      BY <1>7, <2>1 DEF Receive, validateResponse
    <2>3. i \in 1 .. Lp /\ ready' = ready
      BY <1>3, <1>7 DEF Receive, Lp
    <2>4. Len(pending') = Lp - 1 /\ \A k \in 1 .. Lp - 1 : pending'[k] = pending[IF k < i THEN k ELSE k + 1]
      BY <1>3, <2>2, <2>3, WithoutPlace DEF Lp
    <2>5. i \in 1 .. Len(carried) /\ carried[i] = m.req /\ m.req \in Request
      BY <1>1, <2>2, <2>3
    <2>6. Len(carried') = Len(carried) - 1
      BY <1>1, <1>2, <2>3, <2>4 DEF Lr
    <2>7. ASSUME NEW k \in 1 .. Len(carried) - 1
          PROVE  carried'[k] = carried[IF k < i THEN k ELSE k + 1]
      <3>1. CASE k <= Lp - 1
        <4>1. carried'[k] = pending'[k].req
          BY <1>1, <1>2, <2>4, <3>1
        <4>2. \A q \in 1 .. Lp : carried[q] = pending[q].req
          BY <1>1
        <4>3. (IF k < i THEN k ELSE k + 1) \in 1 .. Lp
          BY <1>1, <2>3, <3>1
        <4>4. pending'[k] = pending[IF k < i THEN k ELSE k + 1]
          BY <1>1, <2>4, <3>1
        <4> QED BY <4>1, <4>2, <4>3, <4>4
      <3>2. CASE k > Lp - 1
        <4>1. PICK j \in 1 .. Lr : k = Lp - 1 + j
          <5>1. k - (Lp - 1) \in 1 .. Lr /\ k = Lp - 1 + (k - (Lp - 1))
            BY <1>1, <3>2
          <5> QED BY <5>1
        <4>2. carried'[Lp - 1 + j] = ready[j]
          BY <1>2, <2>3, <2>4 DEF Lr
        <4>3. carried[Lp + j] = ready[j] /\ Lp + j = k + 1 /\ ~(k < i)
          BY <1>1, <2>3, <4>1
        <4> QED BY <4>1, <4>2, <4>3
      <3> QED BY <1>1, <3>1, <3>2
    <2>8. started' = started \ {carried[i]} /\ call'[carried[i]] # "waiting"
      BY <2>2, <2>5 DEF finishRequests
    <2> QED BY <1>1, <2>5, <2>6, <2>7, <2>8, SiftOut
  <1>8. ASSUME NEW retryable, NEW bad, closeStream(retryable, bad)
        PROVE  Goal
    BY <1>8, SiftRetry DEF closeStream
  <1>9. ASSUME ensureStreamFails
        PROVE  Goal
    BY <1>9, SiftRetry DEF ensureStreamFails, OnePlaceEach
  <1>10. ASSUME Close
         PROVE  Goal
    <2>1. /\ ready' = <<>> /\ pending' = <<>> /\ started' = started \ Request
          /\ call' = [x \in Request |-> IF x \in Request /\ call[x] = "waiting"
                                        THEN [y \in Request |-> "error"][x] ELSE call[x]]
      BY <1>10 DEF Close, finishRequests
    <2>2. Len(carried') = 0
      BY <1>2, <2>1
    <2> DEFINE f == [k \in 1 .. 0 |-> k]
    <2>3. f \in [1 .. Len(carried') -> 1 .. Len(carried)] /\ 1 .. Len(carried') = {}
      BY <2>2
    <2> HIDE DEF f
    <2>4. ASSUME NEW p \in 1 .. Len(carried)
          PROVE  carried[p] \in Request /\ Dropped(f, p)
      <3>1. carried \in Seq(Request)
        BY CarriedIs
      <3> QED BY <2>3, <3>1 DEF Dropped
    <2>5. started' = {}
      BY <1>3, <2>1
    <2>6. \A r \in started : \E p \in 1 .. Len(carried) : carried[p] = r
      BY DEF OnePlaceEach, IsCarried
    <2>7. Sifts(f)
      BY <2>1, <2>3, <2>4, <2>5, <2>6 DEF Sifts
    <2> QED BY <2>7
  <1>11. ASSUME NEW s \in Stream, PeerStep(s)
         PROVE  Goal
    BY <1>4, <1>11 DEF PeerStep, LaneRecv, LaneRefuses, LaneReplies, LaneEnds, ExecuteStarts,
                ExecuteWindowFull, ExecuteHits, ExecuteEnds, laneVars
  <1>12. ASSUME ensureStream
         PROVE  Goal
    BY <1>4, <1>12 DEF ensureStream
  <1>13. ASSUME NEW r \in Request, Caller(r) \/ TTLPasses(r)
         PROVE  Goal
    BY <1>4, <1>13 DEF Caller, Call, CallRejected, Deadline, TTLPasses, laneVars
  <1>14. ASSUME NEW e \in {"client", "server"}, ViewMoves(e)
         PROVE  Goal
    BY <1>4, <1>14 DEF ViewMoves, laneVars
  <1>15. ASSUME PeerRestarts
         PROVE  Goal
    BY <1>4, <1>15 DEF PeerRestarts, laneVars
  <1> HIDE DEF Goal
  <1>16. Goal
    BY <1>5, <1>6, <1>7, <1>8, <1>9, <1>10, <1>11, <1>12, <1>13, <1>14, <1>15
       DEF LaneNext, LaneStep, StreamFails, Tick, ReceiveInvalid
  <1> QED BY <1>16 DEF Goal

-----------------------------------------------------------------------------
\* A step that brings no request to the lane and takes none from a queue: callers may return.
Quiet ==
    /\ reliable' = reliable /\ reliableQueue' = reliableQueue /\ ephemeralQueue' = ephemeralQueue
    /\ \A r \in Request : call'[r] = call[r] \/ (call[r] = "waiting" /\ call'[r] \in {"ok", "error"})
    /\ attempts' = attempts \/ SendFrame

\* Only a call, a fetch and the closing of the lane are not quiet.
LEMMA LaneCases ==
    ASSUME LaneTypeOK, LaneNext
    PROVE  \/ Fetch \/ Close \/ Quiet
           \/ \E r \in Request, kind \in {"reliable", "ephemeral"} : Call(r, kind) \/ CallRejected(r, kind)
  <1>1. /\ call \in [Request -> {"new", "waiting", "ok", "error"}]
        /\ attempts \in [Request -> 0 .. MaxRetries + 1]
    BY PartsOfTypes DEF LaneParts, CallTypes, CarryTypes
  <1>2. ASSUME reliable' = reliable, reliableQueue' = reliableQueue, ephemeralQueue' = ephemeralQueue,
               call' = call, attempts' = attempts \/ SendFrame
        PROVE  Quiet
    BY <1>2 DEF Quiet
  <1>3. ASSUME NEW F, NEW res \in [Request -> {"ok", "error"}], finishRequests(F, res)
        PROVE  \A r \in Request : call'[r] = call[r] \/ (call[r] = "waiting" /\ call'[r] \in {"ok", "error"})
    BY <1>3 DEF finishRequests
  <1>4. ASSUME NEW retryable, NEW bad, retryRequests(retryable, bad)
        PROVE  \A r \in Request : call'[r] = call[r] \/ (call[r] = "waiting" /\ call'[r] \in {"ok", "error"})
    <2>1. PICK K \in SUBSET (1 .. Len(carried)) :
              call' = [r \in Request |->
                    IF r \in {carried[p] : p \in (1 .. Len(carried)) \ K} /\ call[r] = "waiting"
                    THEN IF r \in reliable \cup expired \cup bad THEN "error" ELSE "ok" ELSE call[r]]
      BY <1>4, RetryIs
    <2> QED BY <2>1
  <1>5. ASSUME NEW s \in Stream, PeerStep(s)
        PROVE  Quiet
    BY <1>2, <1>5 DEF PeerStep, LaneRecv, LaneRefuses, LaneReplies, LaneEnds, ExecuteStarts,
                ExecuteWindowFull, ExecuteHits, ExecuteEnds, laneVars, callVars, queueVars
  <1>6. ASSUME NEW r \in Request, TTLPasses(r)
        PROVE  Quiet
    BY <1>2, <1>6 DEF TTLPasses, laneVars, callVars, queueVars
  <1>7. ASSUME NEW r \in Request, Deadline(r)
        PROVE  Quiet
    BY <1>1, <1>7 DEF Deadline, laneVars, queueVars, Quiet
  <1>8. ASSUME NEW e \in {"client", "server"}, ViewMoves(e)
        PROVE  Quiet
    BY <1>2, <1>8 DEF ViewMoves, laneVars, callVars, queueVars
  <1>9. ASSUME PeerRestarts
        PROVE  Quiet
    BY <1>2, <1>9 DEF PeerRestarts, laneVars, callVars, queueVars
  <1>10. ASSUME ensureStream \/ SendFrame
         PROVE  Quiet
    BY <1>2, <1>10 DEF ensureStream, SendFrame, callVars, queueVars
  <1>11. ASSUME SkipExpired
         PROVE  Quiet
    <2>1. [r \in Request |-> "error"] \in [Request -> {"ok", "error"}]
      OBVIOUS
    <2>2. \A r \in Request : call'[r] = call[r] \/ (call[r] = "waiting" /\ call'[r] \in {"ok", "error"})
      BY <1>3, <1>11, <2>1 DEF SkipExpired
    <2> QED BY <1>11, <2>2 DEF SkipExpired, queueVars, Quiet
  <1>12. ASSUME Receive
         PROVE  Quiet
    <2>1. PICK m : m = Head(down[stream])
      OBVIOUS
    <2>2. [r \in Request |-> IF m.result = "ok" THEN "ok" ELSE "error"] \in [Request -> {"ok", "error"}]
      OBVIOUS
    <2>3. finishRequests({m.req}, [r \in Request |-> IF m.result = "ok" THEN "ok" ELSE "error"])
      BY <1>12, <2>1 DEF Receive
    <2>4. \A r \in Request : call'[r] = call[r] \/ (call[r] = "waiting" /\ call'[r] \in {"ok", "error"})
      BY <1>3, <2>2, <2>3
    <2> QED BY <1>12, <2>4 DEF Receive, queueVars, Quiet
  <1>13. ASSUME NEW retryable, NEW bad, closeStream(retryable, bad)
         PROVE  Quiet
    BY <1>4, <1>13 DEF closeStream, queueVars, Quiet
  <1>14. ASSUME ensureStreamFails
         PROVE  Quiet
    BY <1>4, <1>14 DEF ensureStreamFails, queueVars, Quiet
  <1> QED BY <1>5, <1>6, <1>7, <1>8, <1>9, <1>10, <1>11, <1>12, <1>13, <1>14
             DEF LaneNext, Caller, LaneStep, StreamFails, Tick, ReceiveInvalid

\* Where sifting leaves each request.
LEMMA SiftPlaces ==
    ASSUME LaneTypeOK, LaneTypeOK', OnePlaceEach, NEW f, Sifts(f)
    PROVE  /\ \A p, q \in 1 .. Len(carried') : carried'[p] = carried'[q] => p = q
           /\ \A r \in Request : IsCarried(r)' => IsCarried(r)
           /\ \A r \in started' : IsCarried(r)'
           /\ \A r \in Request : IsCarried(r)' /\ r \in started => r \in started'
           /\ \A r \in Request : IsCarried(r) => IsCarried(r)' \/ call'[r] # "waiting"
  <1>1. Len(carried) \in Nat /\ Len(carried') \in Nat
    <2>1. carried \in Seq(Request) /\ carried' \in Seq(Request)
      BY CarriedIs, CarriedIsNext
    <2> QED BY <2>1
  <1>2. /\ \A p \in 1 .. Len(carried') : f[p] \in 1 .. Len(carried) /\ carried'[p] = carried[f[p]]
        /\ \A a, b \in 1 .. Len(carried') : f[a] = f[b] => a = b
    <2>1. f \in [1 .. Len(carried') -> 1 .. Len(carried)]
      BY DEF Sifts
    <2>2. ASSUME NEW a \in 1 .. Len(carried'), NEW b \in 1 .. Len(carried'), f[a] = f[b]
          PROVE  a = b
      <3>1. f[a] \in Int /\ f[b] \in Int /\ (a < b => f[a] < f[b]) /\ (b < a => f[b] < f[a])
        BY <1>1, <2>1 DEF Sifts
      <3> QED BY <1>1, <2>2, <3>1
    <2> QED BY <2>1, <2>2 DEF Sifts
  <1>3. \A p, q \in 1 .. Len(carried) : carried[p] = carried[q] => p = q
    BY DEF OnePlaceEach
  <1>4. \A p, q \in 1 .. Len(carried') : carried'[p] = carried'[q] => p = q
    BY SMTT(30), <1>2, <1>3
  <1>5. ASSUME NEW r \in Request, NEW k \in 1 .. Len(carried'), carried'[k] = r
        PROVE  IsCarried(r) /\ (r \in started => r \in started')
    <2>1. carried[f[k]] = r /\ f[k] \in 1 .. Len(carried)
      BY <1>2, <1>5
    <2>2. ASSUME NEW p \in 1 .. Len(carried), Dropped(f, p), carried[p] = r
          PROVE  FALSE
      BY <1>3, <2>1, <2>2 DEF Dropped
    <2> QED BY <2>1, <2>2 DEF Sifts, IsCarried
  <1>6. ASSUME NEW p \in 1 .. Len(carried), ~Dropped(f, p)
        PROVE  \E k \in 1 .. Len(carried') : carried'[k] = carried[p]
    <2>1. PICK k \in 1 .. Len(carried') : f[k] = p
      BY <1>6 DEF Dropped
    <2> QED BY <1>2, <2>1
  <1>7. ASSUME NEW r \in started'
        PROVE  IsCarried(r)'
    <2>1. \E p \in 1 .. Len(carried) : carried[p] = r
      <3>1. CASE r \in started
        BY <3>1 DEF OnePlaceEach, IsCarried
      <3>2. CASE SendFrame /\ r = Head(ready)
        <4>1. ready # <<>> /\ ready \in Seq(Request)
          BY <3>2, PartsOfTypes DEF SendFrame, LaneParts, CarryTypes
        <4>2. Head(ready) = ready[1] /\ 1 \in 1 .. Len(ready)
          BY <4>1
        <4>3. Len(pending) + 1 \in 1 .. Len(carried) /\ carried[Len(pending) + 1] = ready[1]
          BY <4>2, CarriedIs
        <4> QED BY <3>2, <4>2, <4>3
      <3> QED BY <3>1, <3>2 DEF Sifts
    <2>2. PICK p \in 1 .. Len(carried) : carried[p] = r
      BY <2>1
    <2>3. ~Dropped(f, p)
      BY <2>2 DEF Sifts
    <2> QED BY <1>6, <2>2, <2>3 DEF IsCarried
  <1>8. ASSUME NEW r \in Request, IsCarried(r), call'[r] = "waiting"
        PROVE  IsCarried(r)'
    <2>1. PICK p \in 1 .. Len(carried) : carried[p] = r
      BY <1>8 DEF IsCarried
    <2>2. ~Dropped(f, p)
      BY <1>8, <2>1 DEF Sifts
    <2> QED BY <1>6, <2>1, <2>2 DEF IsCarried
  <1>9. \A r \in Request : IsCarried(r)' => IsCarried(r)
    BY <1>5 DEF IsCarried
  <1>10. \A r \in Request : IsCarried(r)' /\ r \in started => r \in started'
    BY <1>5 DEF IsCarried
  <1> QED BY <1>4, <1>7, <1>8, <1>9, <1>10

\* q' is q without its head x.
TakenFrom(q, x) ==
    /\ Len(q) \in Nat /\ Len(q) >= 1 /\ q[1] = x /\ Len(q') = Len(q) - 1
    /\ \A k \in 1 .. Len(q') : q'[k] = q[k + 1]

\* Fetch takes the first request of a queue and carries it behind the others.
LEMMA FetchIs ==
    ASSUME LaneTypeOK, LaneTypeOK', Fetch
    PROVE  /\ call' = call /\ reliable' = reliable /\ started' = started /\ attempts' = attempts
           /\ \E x \in Request :
                /\ Len(carried') = Len(carried) + 1 /\ Len(carried) \in Nat
                /\ \A p \in 1 .. Len(carried) : carried'[p] = carried[p]
                /\ carried'[Len(carried) + 1] = x /\ Len(ready') = 1 /\ ready'[1] = x
                /\ \/ TakenFrom(reliableQueue, x) /\ ephemeralQueue' = ephemeralQueue
                   \/ TakenFrom(ephemeralQueue, x) /\ reliableQueue' = reliableQueue
  <1>1. ready = <<>> /\ call' = call /\ reliable' = reliable /\ started' = started /\ attempts' = attempts /\ pending' = pending
    BY DEF Fetch, callVars
  <1>2. reliableQueue \in Seq(Request) /\ ephemeralQueue \in Seq(Request) /\ Len(ready) = 0
    BY <1>1, PartsOfTypes DEF LaneParts, QueueTypes
  <1>3. ASSUME NEW q \in Seq(Request), q # <<>>
        PROVE  /\ Head(q) \in Request /\ Len(q) \in Nat /\ Len(q) >= 1 /\ q[1] = Head(q)
               /\ Len(Tail(q)) = Len(q) - 1 /\ \A k \in 1 .. Len(q) - 1 : Tail(q)[k] = q[k + 1]
               /\ Len(<<Head(q)>>) = 1 /\ <<Head(q)>>[1] = Head(q)
    BY <1>3
  <1>4. PICK x \in Request :
            /\ Len(ready') = 1 /\ ready'[1] = x
            /\ \/ TakenFrom(reliableQueue, x) /\ ephemeralQueue' = ephemeralQueue
               \/ TakenFrom(ephemeralQueue, x) /\ reliableQueue' = reliableQueue
    <2>1. ASSUME reliableQueue # <<>>, ready' = <<Head(reliableQueue)>>,
                 reliableQueue' = Tail(reliableQueue), ephemeralQueue' = ephemeralQueue
          PROVE  /\ Head(reliableQueue) \in Request /\ Len(ready') = 1 /\ ready'[1] = Head(reliableQueue)
                 /\ TakenFrom(reliableQueue, Head(reliableQueue))
      BY <1>2, <1>3, <2>1 DEF TakenFrom
    <2>2. ASSUME ephemeralQueue # <<>>, ready' = <<Head(ephemeralQueue)>>,
                 ephemeralQueue' = Tail(ephemeralQueue), reliableQueue' = reliableQueue
          PROVE  /\ Head(ephemeralQueue) \in Request /\ Len(ready') = 1 /\ ready'[1] = Head(ephemeralQueue)
                 /\ TakenFrom(ephemeralQueue, Head(ephemeralQueue))
      BY <1>2, <1>3, <2>2 DEF TakenFrom
    <2> QED BY <2>1, <2>2 DEF Fetch
  <1>5. /\ Len(carried) = Len(pending) /\ Len(pending) \in Nat
        /\ \A p \in 1 .. Len(pending) : carried[p] = pending[p].req
    BY <1>2, CarriedIs
  <1>6. /\ Len(carried') = Len(pending) + 1
        /\ \A p \in 1 .. Len(pending) : carried'[p] = pending[p].req
        /\ carried'[Len(pending) + 1] = x
    BY <1>1, <1>4, CarriedIsNext
  <1> QED BY <1>1, <1>4, <1>5, <1>6

\* A call that enters a queue is appended to it; nobody has called behind it.
LEMMA CallIs ==
    ASSUME LaneTypeOK, NEW r \in Request, NEW kind \in {"reliable", "ephemeral"}, Call(r, kind)
    PROVE  /\ call[r] = "new" /\ call' = [call EXCEPT ![r] = "waiting"]
           /\ \A x \in 1 .. r - 1 : call[x] # "new"
           /\ carried' = carried /\ started' = started /\ attempts' = attempts /\ ready' = ready
           /\ \/ /\ reliable' = reliable \cup {r} /\ ephemeralQueue' = ephemeralQueue
                 /\ Len(reliableQueue) \in Nat /\ Len(reliableQueue') = Len(reliableQueue) + 1
                 /\ \A k \in 1 .. Len(reliableQueue) : reliableQueue'[k] = reliableQueue[k]
                 /\ reliableQueue'[Len(reliableQueue) + 1] = r
              \/ /\ reliable' = reliable /\ reliableQueue' = reliableQueue
                 /\ Len(ephemeralQueue) \in Nat /\ Len(ephemeralQueue') = Len(ephemeralQueue) + 1
                 /\ \A k \in 1 .. Len(ephemeralQueue) : ephemeralQueue'[k] = ephemeralQueue[k]
                 /\ ephemeralQueue'[Len(ephemeralQueue) + 1] = r
  <1>1. reliableQueue \in Seq(Request) /\ ephemeralQueue \in Seq(Request)
    BY PartsOfTypes DEF LaneParts, QueueTypes
  <1>2. ASSUME NEW q \in Seq(Request)
        PROVE  /\ Len(q) \in Nat /\ Len(Append(q, r)) = Len(q) + 1
               /\ \A k \in 1 .. Len(q) : Append(q, r)[k] = q[k]
               /\ Append(q, r)[Len(q) + 1] = r
    OBVIOUS
  <1>3. \/ /\ reliable' = reliable \cup {r} /\ ephemeralQueue' = ephemeralQueue
           /\ reliableQueue' = Append(reliableQueue, r)
        \/ /\ reliable' = reliable /\ reliableQueue' = reliableQueue
           /\ ephemeralQueue' = Append(ephemeralQueue, r)
    BY DEF Call
  <1>4. /\ call[r] = "new" /\ call' = [call EXCEPT ![r] = "waiting"]
        /\ \A x \in 1 .. r - 1 : call[x] # "new"
        /\ pending' = pending /\ ready' = ready /\ started' = started /\ attempts' = attempts
    BY DEF Call, laneVars
  <1>5. carried' = carried
    BY <1>4 DEF carried, pendingRequests
  <1> QED BY <1>1, <1>2, <1>3, <1>4, <1>5

\* A rejected call enters no queue.
LEMMA RejectIs ==
    ASSUME LaneTypeOK, NEW r \in Request, NEW kind \in {"reliable", "ephemeral"}, CallRejected(r, kind)
    PROVE  /\ call[r] = "new" /\ \A x \in 1 .. r - 1 : call[x] # "new"
           /\ carried' = carried /\ started' = started /\ attempts' = attempts /\ ready' = ready
           /\ reliableQueue' = reliableQueue /\ ephemeralQueue' = ephemeralQueue
           /\ \/ reliable' = reliable \cup {r} /\ call' = [call EXCEPT ![r] = "error"]
              \/ reliable' = reliable /\ call' = [call EXCEPT ![r] = "ok"]
  <1>1. /\ call[r] = "new" /\ \A x \in 1 .. r - 1 : call[x] # "new"
        /\ \/ reliable' = reliable \cup {r} /\ call' = [call EXCEPT ![r] = "error"]
           \/ reliable' = reliable /\ call' = [call EXCEPT ![r] = "ok"]
    BY DEF CallRejected
  <1>2. /\ pending' = pending /\ ready' = ready /\ started' = started /\ attempts' = attempts
        /\ reliableQueue' = reliableQueue /\ ephemeralQueue' = ephemeralQueue
    BY DEF CallRejected, laneVars, queueVars
  <1>3. carried' = carried
    BY <1>2 DEF carried, pendingRequests
  <1> QED BY <1>1, <1>2, <1>3

\* What peer.Close leaves.
LEMMA CloseIs ==
    ASSUME LaneTypeOK, LaneTypeOK', Close
    PROVE  /\ Len(carried') = 0 /\ Len(reliableQueue') = 0 /\ Len(ephemeralQueue') = 0
           /\ Len(ready') = 0 /\ Len(pending') = 0 /\ pending' = <<>> /\ stream' = 0
           /\ started' = {} /\ reliable' = reliable /\ attempts' = attempts
           /\ \A r \in Request : call'[r] = call[r] \/ (call[r] = "waiting" /\ call'[r] = "error")
           /\ \A r \in Request : call'[r] # "waiting"
  <1>1. call \in [Request -> {"new", "waiting", "ok", "error"}] /\ started \subseteq Request
    BY PartsOfTypes DEF LaneParts, CallTypes, CarryTypes
  <1>2. /\ ready' = <<>> /\ pending' = <<>> /\ stream' = 0 /\ reliableQueue' = <<>> /\ ephemeralQueue' = <<>>
        /\ reliable' = reliable /\ attempts' = attempts /\ started' = started \ Request
        /\ call' = [x \in Request |-> IF x \in Request /\ call[x] = "waiting"
                                      THEN [y \in Request |-> "error"][x] ELSE call[x]]
    BY DEF Close, finishRequests
  <1>3. Len(ready') = 0 /\ Len(pending') = 0 /\ Len(reliableQueue') = 0 /\ Len(ephemeralQueue') = 0
    BY <1>2
  <1>4. Len(carried') = 0
    BY <1>3, CarriedIsNext
  <1>5. started' = {}
    BY <1>1, <1>2
  <1>6. \A r \in Request : call'[r] = (IF call[r] = "waiting" THEN "error" ELSE call[r])
    BY <1>2
  <1> QED BY <1>1, <1>2, <1>3, <1>4, <1>5, <1>6

-----------------------------------------------------------------------------
\* The window holds requests in flight only, and without a stream nothing.
LEMMA PendingIsStarted ==
    ASSUME LaneTypeOK, LaneTypeOK', OnePlaceEach, LaneNext
    PROVE  /\ \A i \in 1 .. Len(pending') : pending'[i].req \in started'
           /\ stream' = 0 => pending' = <<>>
  <1> DEFINE Goal == (\A i \in 1 .. Len(pending') : pending'[i].req \in started') /\ (stream' = 0 => pending' = <<>>)
  <1>1. /\ ready \in Seq(Request) /\ pending \in Seq(Frame) /\ stream \in 0 .. opened /\ opened \in Nat
    BY PartsOfTypes, LaneBounds DEF LaneParts, CarryTypes, StreamTypes
  <1>2. /\ \A i \in 1 .. Len(pending) : pending[i].req \in started
        /\ stream = 0 => pending = <<>>
        /\ \A p, q \in 1 .. Len(carried) : carried[p] = carried[q] => p = q
    BY DEF OnePlaceEach
  <1>3. /\ Len(carried) = Len(pending) + Len(ready) /\ Len(pending) \in Nat /\ Len(ready) \in Nat
        /\ \A p \in 1 .. Len(pending) : carried[p] = pending[p].req
        /\ \A p \in 1 .. Len(ready) : carried[Len(pending) + p] = ready[p]
    BY CarriedIs
  <1>4. ASSUME pending' = pending, started' = started, stream' = stream \/ stream' # 0
        PROVE  Goal
    BY <1>2, <1>4
  <1>5. ASSUME pending' = <<>>
        PROVE  Goal
    BY <1>5
  <1>6. ASSUME SendFrame
        PROVE  Goal
    <2>1. PICK frame : frame = [req |-> Head(ready), seq |-> sequence + 1, epoch |-> viewEpoch.client]
      OBVIOUS
    <2>2. /\ pending' = Append(pending, frame) /\ started' = started \cup {Head(ready)}
          /\ stream' = stream /\ stream # 0 /\ frame.req = Head(ready)
      BY <1>6, <2>1 DEF SendFrame
    <2>3. /\ Len(pending') = Len(pending) + 1 /\ \A i \in 1 .. Len(pending) : pending'[i] = pending[i]
          /\ pending'[Len(pending) + 1] = frame
      <3>1. /\ Len(Append(pending, frame)) = Len(pending) + 1
            /\ \A i \in 1 .. Len(pending) : Append(pending, frame)[i] = pending[i]
            /\ Append(pending, frame)[Len(pending) + 1] = frame
        BY <1>1
      <3> QED BY <2>2, <3>1
    <2>4. \A i \in 1 .. Len(pending') : i \in 1 .. Len(pending) \/ i = Len(pending) + 1
      BY <1>3, <2>3
    <2>5. \A i \in 1 .. Len(pending') : pending'[i].req \in started'
      BY <1>2, <2>2, <2>3, <2>4
    <2> QED BY <2>2, <2>5
  <1>7. ASSUME SkipExpired
        PROVE  Goal
    <2>1. /\ pending' = pending /\ started' = started \ {Head(ready)} /\ stream' = stream /\ stream # 0
          /\ ready # <<>>
      BY <1>7 DEF SkipExpired, finishRequests
    <2>2. Head(ready) = ready[1] /\ 1 \in 1 .. Len(ready)
      BY <1>1, <2>1
    <2>3. carried[Len(pending) + 1] = Head(ready)
      BY <1>3, <2>2
    <2>4. ASSUME NEW i \in 1 .. Len(pending)
          PROVE  pending[i].req # Head(ready)
      <3>1. i \in 1 .. Len(carried) /\ Len(pending) + 1 \in 1 .. Len(carried) /\ i # Len(pending) + 1
        BY <1>3, <2>2
      <3>2. carried[i] # carried[Len(pending) + 1]
        BY <1>2, <3>1
      <3> QED BY <1>3, <2>3, <3>2
    <2> QED BY <1>2, <2>1, <2>4
  <1>8. ASSUME Receive
        PROVE  Goal
    <2>1. PICK i \in 1 .. Len(pending) :
              /\ started' = started \ {pending[i].req} /\ stream' = stream /\ stream # 0
              /\ pending' = SubSeq(pending, 1, i - 1) \o SubSeq(pending, i + 1, Len(pending))
      <3>1. PICK i \in validateResponse(Head(down[stream])) :
                /\ finishRequests({Head(down[stream]).req},
                       [r \in Request |-> IF Head(down[stream]).result = "ok" THEN "ok" ELSE "error"])
                /\ pending' = SubSeq(pending, 1, i - 1) \o SubSeq(pending, i + 1, Len(pending))
        BY <1>8 DEF Receive
      <3>2. i \in 1 .. Len(pending) /\ pending[i].req = Head(down[stream]).req
        BY <1>1 DEF validateResponse
      <3> QED BY <1>8, <3>1, <3>2 DEF finishRequests, Receive, Waits
    <2>2. /\ Len(pending') = Len(pending) - 1
          /\ \A k \in 1 .. Len(pending) - 1 : pending'[k] = pending[IF k < i THEN k ELSE k + 1]
      BY <1>1, <2>1, WithoutPlace
    <2>3. ASSUME NEW k \in 1 .. Len(pending')
          PROVE  pending'[k].req \in started'
      <3>1. PICK m \in 1 .. Len(pending) : m # i /\ pending'[k] = pending[m]
        <4>1. k \in 1 .. Len(pending) - 1 /\ i \in Int /\ Len(pending) \in Nat
          BY <1>3, <2>2
        <4>2. pending'[k] = pending[IF k < i THEN k ELSE k + 1]
          BY <2>2, <4>1
        <4>3. PICK m \in 1 .. Len(pending) : m # i /\ m = IF k < i THEN k ELSE k + 1
          BY <4>1
        <4> QED BY <4>2, <4>3
      <3>2. m \in 1 .. Len(carried) /\ i \in 1 .. Len(carried)
        BY <1>3
      <3>3. carried[m] # carried[i]
        BY <1>2, <3>1, <3>2
      <3> QED BY <1>2, <1>3, <2>1, <3>1, <3>3
    <2> QED BY <2>1, <2>3
  <1>9. ASSUME ensureStreamFails
        PROVE  Goal
    BY <1>2, <1>5, <1>9 DEF ensureStreamFails
  <1>10. ASSUME ensureStream
         PROVE  Goal
    BY <1>1, <1>4, <1>10 DEF ensureStream
  <1>11. ASSUME NEW s \in Stream, PeerStep(s)
         PROVE  Goal
    BY <1>4, <1>11 DEF PeerStep, LaneRecv, LaneRefuses, LaneReplies, LaneEnds, ExecuteStarts,
                ExecuteWindowFull, ExecuteHits, ExecuteEnds, laneVars
  <1>12. ASSUME NEW r \in Request, Caller(r) \/ TTLPasses(r)
         PROVE  Goal
    BY <1>4, <1>12 DEF Caller, Call, CallRejected, Deadline, TTLPasses, laneVars
  <1>13. ASSUME NEW e \in {"client", "server"}, ViewMoves(e)
         PROVE  Goal
    BY <1>4, <1>13 DEF ViewMoves, laneVars
  <1>14. ASSUME PeerRestarts
         PROVE  Goal
    BY <1>4, <1>14 DEF PeerRestarts, laneVars
  <1>15. ASSUME Fetch
         PROVE  Goal
    BY <1>4, <1>15 DEF Fetch
  <1>16. ASSUME StreamFails \/ Tick \/ ReceiveInvalid \/ Close
         PROVE  Goal
    BY <1>5, <1>16 DEF StreamFails, Tick, ReceiveInvalid, closeStream, Close
  <1> HIDE DEF Goal
  <1>17. Goal
    BY <1>6, <1>7, <1>8, <1>9, <1>10, <1>11, <1>12, <1>13, <1>14, <1>15, <1>16 DEF LaneNext, LaneStep
  <1> QED BY <1>17 DEF Goal

-----------------------------------------------------------------------------
\* A sequence d that is q and x behind it: who is in it, and each once.
LEMMA GrownIs ==
    ASSUME NEW q, NEW d, NEW x, Len(q) \in Nat, Len(d) = Len(q) + 1,
           \A k \in 1 .. Len(q) : d[k] = q[k], d[Len(q) + 1] = x
    PROVE  /\ \A y : (\E k \in 1 .. Len(d) : d[k] = y) <=> (\E k \in 1 .. Len(q) : q[k] = y) \/ y = x
           /\ (\A i, j \in 1 .. Len(q) : q[i] = q[j] => i = j) /\ ~(\E k \in 1 .. Len(q) : q[k] = x)
                  => \A i, j \in 1 .. Len(d) : d[i] = d[j] => i = j
  <1>1. /\ \A k \in 1 .. Len(d) : k \in 1 .. Len(q) \/ k = Len(q) + 1
        /\ \A k \in 1 .. Len(q) : k \in 1 .. Len(d)
        /\ Len(q) + 1 \in 1 .. Len(d)
    OBVIOUS
  <1>2. \A y : (\E k \in 1 .. Len(d) : d[k] = y) <=> (\E k \in 1 .. Len(q) : q[k] = y) \/ y = x
    BY <1>1
  <1>3. ASSUME \A i, j \in 1 .. Len(q) : q[i] = q[j] => i = j, ~(\E k \in 1 .. Len(q) : q[k] = x),
               NEW i \in 1 .. Len(d), NEW j \in 1 .. Len(d), d[i] = d[j]
        PROVE  i = j
    BY <1>1, <1>3
  <1> QED BY <1>2, <1>3

\* A sequence d that is q without its head x.
LEMMA ShrunkIs ==
    ASSUME NEW q, NEW d, Len(q) \in Nat, Len(q) >= 1, Len(d) = Len(q) - 1,
           \A k \in 1 .. Len(d) : d[k] = q[k + 1],
           \A i, j \in 1 .. Len(q) : q[i] = q[j] => i = j
    PROVE  /\ \A y : (\E k \in 1 .. Len(d) : d[k] = y) <=> (\E k \in 1 .. Len(q) : q[k] = y) /\ y # q[1]
           /\ \E k \in 1 .. Len(q) : q[k] = q[1]
           /\ \A i, j \in 1 .. Len(d) : d[i] = d[j] => i = j
  <1>1. \A k \in 1 .. Len(d) : k + 1 \in 1 .. Len(q) /\ k + 1 # 1 /\ d[k] = q[k + 1]
    OBVIOUS
  <1>2. 1 \in 1 .. Len(q)
    OBVIOUS
  <1>3. ASSUME NEW k \in 1 .. Len(q), q[k] # q[1]
        PROVE  k - 1 \in 1 .. Len(d) /\ d[k - 1] = q[k]
    <2>1. k # 1
      BY <1>3
    <2>2. k - 1 \in 1 .. Len(d) /\ (k - 1) + 1 = k
      BY <2>1
    <2> QED BY <2>2
  <1>4. ASSUME NEW y, NEW k \in 1 .. Len(d), d[k] = y
        PROVE  (\E m \in 1 .. Len(q) : q[m] = y) /\ y # q[1]
    BY <1>1, <1>2, <1>4
  <1>5. ASSUME NEW y, NEW k \in 1 .. Len(q), q[k] = y, y # q[1]
        PROVE  \E m \in 1 .. Len(d) : d[m] = y
    BY <1>3, <1>5
  <1>6. ASSUME NEW i \in 1 .. Len(d), NEW j \in 1 .. Len(d), d[i] = d[j]
        PROVE  i = j
    <2>1. i + 1 = j + 1
      BY <1>1, <1>6
    <2> QED BY <2>1
  <1> QED BY <1>2, <1>4, <1>5, <1>6

\* Every step leaves a request in one place of the lane at most.
LEMMA OnePlaceEachStep ==
    ASSUME LaneTypeOK, LaneTypeOK', OnePlaceEach, LaneNext
    PROVE  OnePlaceEach'
  <1> DEFINE Once(q) == \A i, j \in 1 .. Len(q) : q[i] = q[j] => i = j
             Apart == /\ Once(carried') /\ Once(reliableQueue') /\ Once(ephemeralQueue')
                      /\ \A r \in Request : InReliable(r)' => r \in reliable' /\ ~IsCarried(r)'
                      /\ \A r \in Request : InEphemeral(r)' => r \notin reliable' /\ ~IsCarried(r)'
                      /\ \A r \in Request : InReliable(r)' \/ InEphemeral(r)' \/ IsCarried(r)' \/ r \in reliable'
                             => call'[r] # "new"
                      /\ \A r \in started' : IsCarried(r)'
  <1>1. /\ Once(carried) /\ Once(reliableQueue) /\ Once(ephemeralQueue)
        /\ \A r \in Request : InReliable(r) => r \in reliable /\ ~IsCarried(r)
        /\ \A r \in Request : InEphemeral(r) => r \notin reliable /\ ~IsCarried(r)
        /\ \A r \in Request : InReliable(r) \/ InEphemeral(r) \/ IsCarried(r) \/ r \in reliable
               => call[r] # "new"
        /\ \A r \in started : IsCarried(r)
    BY DEF OnePlaceEach
  <1>2. /\ call \in [Request -> {"new", "waiting", "ok", "error"}]
        /\ started' \subseteq Request /\ started \subseteq Request
    BY DEF LaneTypeOK
  <1>3. ASSUME Fetch
        PROVE  Apart
    <2>1. /\ call' = call /\ reliable' = reliable /\ started' = started
          /\ \E x \in Request :
                /\ Len(carried') = Len(carried) + 1 /\ Len(carried) \in Nat
                /\ \A p \in 1 .. Len(carried) : carried'[p] = carried[p]
                /\ carried'[Len(carried) + 1] = x
                /\ \/ TakenFrom(reliableQueue, x) /\ ephemeralQueue' = ephemeralQueue
                   \/ TakenFrom(ephemeralQueue, x) /\ reliableQueue' = reliableQueue
      BY <1>3, FetchIs
    <2>2. PICK x \in Request :
                /\ Len(carried') = Len(carried) + 1 /\ Len(carried) \in Nat
                /\ \A p \in 1 .. Len(carried) : carried'[p] = carried[p]
                /\ carried'[Len(carried) + 1] = x
                /\ \/ TakenFrom(reliableQueue, x) /\ ephemeralQueue' = ephemeralQueue
                   \/ TakenFrom(ephemeralQueue, x) /\ reliableQueue' = reliableQueue
      BY <2>1
    <2>3. /\ \A y : (\E k \in 1 .. Len(carried') : carried'[k] = y) <=> (\E k \in 1 .. Len(carried) : carried[k] = y) \/ y = x
          /\ Once(carried) /\ ~(\E k \in 1 .. Len(carried) : carried[k] = x) => Once(carried')
      BY <2>2, GrownIs
    <2>4. \A y \in Request : IsCarried(y)' <=> IsCarried(y) \/ y = x
      BY <2>3 DEF IsCarried
    <2>5. ~IsCarried(x) => Once(carried')
      BY <1>1, <2>3 DEF IsCarried
    <2>6. ASSUME TakenFrom(reliableQueue, x), ephemeralQueue' = ephemeralQueue
          PROVE  /\ InReliable(x) /\ Once(reliableQueue')
                 /\ \A y \in Request : InReliable(y)' <=> InReliable(y) /\ y # x
                 /\ \A y \in Request : InEphemeral(y)' <=> InEphemeral(y)
      <3>1. /\ Len(reliableQueue) \in Nat /\ Len(reliableQueue) >= 1 /\ reliableQueue[1] = x
            /\ Len(reliableQueue') = Len(reliableQueue) - 1
            /\ \A k \in 1 .. Len(reliableQueue') : reliableQueue'[k] = reliableQueue[k + 1]
        BY <2>6 DEF TakenFrom
      <3>2. /\ \A y : (\E k \in 1 .. Len(reliableQueue') : reliableQueue'[k] = y)
                          <=> (\E k \in 1 .. Len(reliableQueue) : reliableQueue[k] = y) /\ y # x
            /\ \E k \in 1 .. Len(reliableQueue) : reliableQueue[k] = x
            /\ Once(reliableQueue')
        <4>1. \A i, j \in 1 .. Len(reliableQueue) : reliableQueue[i] = reliableQueue[j] => i = j
          BY <1>1
        <4> HIDE DEF Once
        <4>2. /\ \A y : (\E k \in 1 .. Len(reliableQueue') : reliableQueue'[k] = y)
                          <=> (\E k \in 1 .. Len(reliableQueue) : reliableQueue[k] = y) /\ y # reliableQueue[1]
              /\ \E k \in 1 .. Len(reliableQueue) : reliableQueue[k] = reliableQueue[1]
              /\ \A i, j \in 1 .. Len(reliableQueue') : reliableQueue'[i] = reliableQueue'[j] => i = j
          BY <3>1, <4>1, ShrunkIs
        <4> QED BY <3>1, <4>2 DEF Once
      <3>3. /\ InReliable(x) /\ \A y \in Request : InReliable(y)' <=> InReliable(y) /\ y # x
        BY <3>2 DEF InReliable
      <3>4. \A y \in Request : InEphemeral(y)' <=> InEphemeral(y)
        BY <2>6 DEF InEphemeral
      <3> QED BY <3>2, <3>3, <3>4
    <2>7. ASSUME TakenFrom(ephemeralQueue, x), reliableQueue' = reliableQueue
          PROVE  /\ InEphemeral(x) /\ Once(ephemeralQueue')
                 /\ \A y \in Request : InEphemeral(y)' <=> InEphemeral(y) /\ y # x
                 /\ \A y \in Request : InReliable(y)' <=> InReliable(y)
      <3>1. /\ Len(ephemeralQueue) \in Nat /\ Len(ephemeralQueue) >= 1 /\ ephemeralQueue[1] = x
            /\ Len(ephemeralQueue') = Len(ephemeralQueue) - 1
            /\ \A k \in 1 .. Len(ephemeralQueue') : ephemeralQueue'[k] = ephemeralQueue[k + 1]
        BY <2>7 DEF TakenFrom
      <3>2. /\ \A y : (\E k \in 1 .. Len(ephemeralQueue') : ephemeralQueue'[k] = y)
                          <=> (\E k \in 1 .. Len(ephemeralQueue) : ephemeralQueue[k] = y) /\ y # x
            /\ \E k \in 1 .. Len(ephemeralQueue) : ephemeralQueue[k] = x
            /\ Once(ephemeralQueue')
        <4>1. \A i, j \in 1 .. Len(ephemeralQueue) : ephemeralQueue[i] = ephemeralQueue[j] => i = j
          BY <1>1
        <4> HIDE DEF Once
        <4>2. /\ \A y : (\E k \in 1 .. Len(ephemeralQueue') : ephemeralQueue'[k] = y)
                          <=> (\E k \in 1 .. Len(ephemeralQueue) : ephemeralQueue[k] = y) /\ y # ephemeralQueue[1]
              /\ \E k \in 1 .. Len(ephemeralQueue) : ephemeralQueue[k] = ephemeralQueue[1]
              /\ \A i, j \in 1 .. Len(ephemeralQueue') : ephemeralQueue'[i] = ephemeralQueue'[j] => i = j
          BY <3>1, <4>1, ShrunkIs
        <4> QED BY <3>1, <4>2 DEF Once
      <3>3. /\ InEphemeral(x) /\ \A y \in Request : InEphemeral(y)' <=> InEphemeral(y) /\ y # x
        BY <3>2 DEF InEphemeral
      <3>4. \A y \in Request : InReliable(y)' <=> InReliable(y)
        BY <2>7 DEF InReliable
      <3> QED BY <3>2, <3>3, <3>4
    <2> HIDE DEF Once
    <2>8. ASSUME TakenFrom(reliableQueue, x), ephemeralQueue' = ephemeralQueue
          PROVE  Apart
      BY <1>1, <1>2, <2>1, <2>4, <2>5, <2>6, <2>8
    <2>9. ASSUME TakenFrom(ephemeralQueue, x), reliableQueue' = reliableQueue
          PROVE  Apart
      BY <1>1, <1>2, <2>1, <2>4, <2>5, <2>7, <2>9
    <2> QED BY <2>2, <2>8, <2>9
  <1>4. ASSUME NEW r \in Request, NEW kind \in {"reliable", "ephemeral"}, Call(r, kind)
        PROVE  Apart
    <2>1. /\ call[r] = "new" /\ call' = [call EXCEPT ![r] = "waiting"]
          /\ carried' = carried /\ started' = started
      BY <1>4, CallIs
    <2>2. ~InReliable(r) /\ ~InEphemeral(r) /\ ~IsCarried(r) /\ r \notin reliable
      BY <1>1, <2>1
    <2>3. call'[r] # "new" /\ \A y \in Request : y # r => call'[y] = call[y]
      BY <1>2, <2>1
    <2>4. \A y \in Request : IsCarried(y)' <=> IsCarried(y)
      BY <2>1 DEF IsCarried
    <2>5. ASSUME reliable' = reliable \cup {r}, ephemeralQueue' = ephemeralQueue,
                 Len(reliableQueue) \in Nat, Len(reliableQueue') = Len(reliableQueue) + 1,
                 \A k \in 1 .. Len(reliableQueue) : reliableQueue'[k] = reliableQueue[k],
                 reliableQueue'[Len(reliableQueue) + 1] = r
          PROVE  Apart
      <3>1. /\ \A y : (\E k \in 1 .. Len(reliableQueue') : reliableQueue'[k] = y)
                         <=> (\E k \in 1 .. Len(reliableQueue) : reliableQueue[k] = y) \/ y = r
            /\ Once(reliableQueue) /\ ~(\E k \in 1 .. Len(reliableQueue) : reliableQueue[k] = r) => Once(reliableQueue')
        BY <2>5, GrownIs
      <3>2. \A y \in Request : InReliable(y)' <=> InReliable(y) \/ y = r
        BY <3>1 DEF InReliable
      <3>3. Once(reliableQueue')
        BY <1>1, <2>2, <3>1 DEF InReliable
      <3>4. \A y \in Request : InEphemeral(y)' <=> InEphemeral(y)
        BY <2>5 DEF InEphemeral
      <3> HIDE DEF Once
      <3> QED BY <1>1, <1>2, <2>1, <2>2, <2>3, <2>4, <2>5, <3>2, <3>3, <3>4
    <2>6. ASSUME reliable' = reliable, reliableQueue' = reliableQueue,
                 Len(ephemeralQueue) \in Nat, Len(ephemeralQueue') = Len(ephemeralQueue) + 1,
                 \A k \in 1 .. Len(ephemeralQueue) : ephemeralQueue'[k] = ephemeralQueue[k],
                 ephemeralQueue'[Len(ephemeralQueue) + 1] = r
          PROVE  Apart
      <3>1. /\ \A y : (\E k \in 1 .. Len(ephemeralQueue') : ephemeralQueue'[k] = y)
                         <=> (\E k \in 1 .. Len(ephemeralQueue) : ephemeralQueue[k] = y) \/ y = r
            /\ Once(ephemeralQueue) /\ ~(\E k \in 1 .. Len(ephemeralQueue) : ephemeralQueue[k] = r) => Once(ephemeralQueue')
        BY <2>6, GrownIs
      <3>2. \A y \in Request : InEphemeral(y)' <=> InEphemeral(y) \/ y = r
        BY <3>1 DEF InEphemeral
      <3>3. Once(ephemeralQueue')
        BY <1>1, <2>2, <3>1 DEF InEphemeral
      <3>4. \A y \in Request : InReliable(y)' <=> InReliable(y)
        BY <2>6 DEF InReliable
      <3> HIDE DEF Once
      <3> QED BY <1>1, <1>2, <2>1, <2>2, <2>3, <2>4, <2>6, <3>2, <3>3, <3>4
    <2> HIDE DEF Apart
    <2> QED BY <1>4, <2>5, <2>6, CallIs
  <1>5. ASSUME NEW r \in Request, NEW kind \in {"reliable", "ephemeral"}, CallRejected(r, kind)
        PROVE  Apart
    <2>1. /\ call[r] = "new" /\ carried' = carried /\ started' = started
          /\ reliableQueue' = reliableQueue /\ ephemeralQueue' = ephemeralQueue
          /\ \/ reliable' = reliable \cup {r} /\ call' = [call EXCEPT ![r] = "error"]
             \/ reliable' = reliable /\ call' = [call EXCEPT ![r] = "ok"]
      BY <1>5, RejectIs
    <2>2. \A y \in Request : /\ IsCarried(y)' <=> IsCarried(y)
                             /\ InReliable(y)' <=> InReliable(y)
                             /\ InEphemeral(y)' <=> InEphemeral(y)
      BY <2>1 DEF IsCarried, InReliable, InEphemeral
    <2>3. ~InReliable(r) /\ ~InEphemeral(r) /\ ~IsCarried(r) /\ r \notin reliable
      BY <1>1, <2>1
    <2>4. call'[r] # "new" /\ \A y \in Request : y # r => call'[y] = call[y]
      BY <1>2, <2>1
    <2>5. Once(carried') /\ Once(reliableQueue') /\ Once(ephemeralQueue')
      BY <1>1, <2>1
    <2> HIDE DEF Once
    <2> QED BY <1>1, <1>2, <2>1, <2>2, <2>3, <2>4, <2>5
  <1>6. ASSUME Close
        PROVE  Apart
    <2>1. /\ Len(carried') = 0 /\ Len(reliableQueue') = 0 /\ Len(ephemeralQueue') = 0
          /\ started' = {} /\ reliable' = reliable
          /\ \A r \in Request : call'[r] = call[r] \/ (call[r] = "waiting" /\ call'[r] = "error")
      BY <1>6, CloseIs
    <2>2. \A y \in Request : ~IsCarried(y)' /\ ~InReliable(y)' /\ ~InEphemeral(y)'
      BY <2>1 DEF IsCarried, InReliable, InEphemeral
    <2> QED BY <1>1, <1>2, <2>1, <2>2
  <1>7. ASSUME Quiet, ~Fetch
        PROVE  Apart
    <2>1. PICK f : Sifts(f)
      BY <1>7, SiftSteps
    <2>2. /\ Once(carried') /\ \A r \in Request : IsCarried(r)' => IsCarried(r)
          /\ \A r \in started' : IsCarried(r)'
      BY <2>1, SiftPlaces
    <2>3. /\ reliable' = reliable /\ Once(reliableQueue') /\ Once(ephemeralQueue')
          /\ \A y \in Request : InReliable(y)' <=> InReliable(y)
          /\ \A y \in Request : InEphemeral(y)' <=> InEphemeral(y)
          /\ \A r \in Request : call'[r] = call[r] \/ (call[r] = "waiting" /\ call'[r] \in {"ok", "error"})
      BY <1>1, <1>7 DEF Quiet, InReliable, InEphemeral
    <2> HIDE DEF Once
    <2> QED BY <1>1, <1>2, <2>2, <2>3
  <1> HIDE DEF Apart
  <1>8. Apart
    BY <1>3, <1>4, <1>5, <1>6, <1>7, LaneCases
  <1> QED BY <1>8, PendingIsStarted DEF Apart, OnePlaceEach

\* Every step keeps the order in which requests are called.
LEMMA CallsInOrderStep ==
    ASSUME LaneTypeOK, LaneTypeOK', CallsInOrder, LaneNext
    PROVE  CallsInOrder'
  <1>1. call \in [Request -> {"new", "waiting", "ok", "error"}] /\ \A y \in Request : y \in Nat /\ y >= 1
    <2>1. \A y \in Request : y \in Nat /\ y >= 1
      BY LaneBounds DEF Request
    <2> QED BY <2>1 DEF LaneTypeOK
  <1>2. ASSUME \A r \in Request : call'[r] = call[r] \/ (call[r] = "waiting" /\ call'[r] \in {"ok", "error"})
        PROVE  CallsInOrder'
    BY <1>2 DEF CallsInOrder
  <1>3. ASSUME NEW r \in Request, call[r] = "new", \A x \in 1 .. r - 1 : call[x] # "new",
               NEW c \in {"waiting", "ok", "error"}, call' = [call EXCEPT ![r] = c]
        PROVE  CallsInOrder'
    <2>1. call'[r] # "new" /\ \A y \in Request : y # r => call'[y] = call[y]
      BY <1>1, <1>3
    <2>2. \A x \in Request : x < r => call'[x] # "new"
      BY <1>1, <1>3, <2>1
    <2>3. \A x, y \in Request : x < y /\ y # r /\ call'[y] # "new" => call'[x] # "new"
      BY <2>1 DEF CallsInOrder
    <2> QED BY <2>2, <2>3 DEF CallsInOrder
  <1>4. CASE Fetch
    BY <1>2, <1>4, FetchIs
  <1>5. CASE Close
    BY <1>2, <1>5, CloseIs
  <1>6. CASE Quiet
    BY <1>2, <1>6 DEF Quiet
  <1>7. ASSUME NEW r \in Request, NEW kind \in {"reliable", "ephemeral"}, Call(r, kind) \/ CallRejected(r, kind)
        PROVE  CallsInOrder'
    <2>1. call[r] = "new" /\ \A x \in 1 .. r - 1 : call[x] # "new"
      BY <1>7 DEF Call, CallRejected
    <2>2. \E c \in {"waiting", "ok", "error"} : call' = [call EXCEPT ![r] = c]
      BY <1>7 DEF Call, CallRejected
    <2> QED BY <1>3, <2>1, <2>2
  <1> QED BY <1>4, <1>5, <1>6, <1>7, LaneCases

\* What a step makes ready again may make another attempt.
LEMMA RetryHasAttempts ==
    ASSUME LaneTypeOK, OnePlaceEach, AttemptsLeft, NEW retryable, NEW bad, retryRequests(retryable, bad)
    PROVE  \A i \in 1 .. Len(ready') : attempts[ready'[i]] <= MaxRetries
  <1>1. /\ Len(carried) \in Nat /\ carried \in Seq(Request)
        /\ \A p \in 1 .. Len(carried) : carried[p] \in Request
    <2>1. carried \in Seq(Request)
      BY CarriedIs
    <2> QED BY <2>1
  <1>2. PICK K \in SUBSET (1 .. Len(carried)) : \E f \in Ascending(K) :
             /\ ready' = [k \in DOMAIN f |-> carried[f[k]]]
             /\ \A p \in 1 .. Len(carried) : p \in K <=> carried[p] \notin bad /\ keeps(carried[p], retryable)
    BY RetryIs
  <1>3. PICK f \in Ascending(K) : ready' = [k \in DOMAIN f |-> carried[f[k]]]
    BY <1>2
  <1>4. PICK n \in Nat : n = Cardinality(K)
    BY <1>1, <1>3, AscendingIs
  <1>5. DOMAIN f = 1 .. n /\ f \in [1 .. n -> 1 .. Len(carried)] /\ \A k \in 1 .. n : f[k] \in K
    BY <1>1, <1>3, <1>4, AscendingIs
  <1>6. Len(ready') = n /\ \A k \in 1 .. n : ready'[k] = carried[f[k]]
    <2>1. ready' \in [1 .. n -> Request]
      BY <1>1, <1>3, <1>5
    <2> QED BY <1>3, <1>4, <1>5, <2>1
  <1>7. ASSUME NEW k \in 1 .. n
        PROVE  attempts[ready'[k]] <= MaxRetries
    <2>1. ready'[k] = carried[f[k]] /\ f[k] \in K /\ f[k] \in 1 .. Len(carried) /\ carried[f[k]] \in Request
      BY <1>1, <1>5, <1>6
    <2>2. keeps(carried[f[k]], retryable) /\ IsCarried(carried[f[k]])
      BY <1>2, <2>1 DEF IsCarried
    <2>3. CASE carried[f[k]] \notin started
      <3>1. attempts[carried[f[k]]] = 0
        BY <2>1, <2>2, <2>3 DEF AttemptsLeft
      <3> QED BY <2>1, <3>1, LaneBounds
    <2>4. CASE carried[f[k]] \in started
      BY <2>1, <2>2, <2>4 DEF keeps
    <2> QED BY <2>3, <2>4
  <1> QED BY <1>6, <1>7

\* Every step leaves an attempt to what is ready.
LEMMA AttemptsLeftStep ==
    ASSUME LaneTypeOK, LaneTypeOK', OnePlaceEach, AttemptsLeft, LaneNext
    PROVE  AttemptsLeft'
  <1> DEFINE Here(r) == InReliable(r) \/ InEphemeral(r) \/ IsCarried(r) \/ call[r] = "new"
             HereNext(r) == InReliable(r)' \/ InEphemeral(r)' \/ IsCarried(r)' \/ call'[r] = "new"
             Came == \A r \in Request : HereNext(r) /\ r \notin started' => Here(r) /\ r \notin started
             Left == \A i \in 1 .. Len(ready') : attempts'[ready'[i]] <= MaxRetries
  <1>1. /\ call \in [Request -> {"new", "waiting", "ok", "error"}] /\ started \subseteq Request
        /\ attempts \in [Request -> 0 .. MaxRetries + 1] /\ ready \in Seq(Request)
    BY DEF LaneTypeOK
  <1>2. /\ \A r \in Request : InReliable(r) \/ InEphemeral(r) \/ call[r] = "new" => ~IsCarried(r)
        /\ \A r \in started : IsCarried(r)
        /\ \A p, q \in 1 .. Len(carried) : carried[p] = carried[q] => p = q
    BY DEF OnePlaceEach
  <1>3. \A r \in Request : InReliable(r) \/ InEphemeral(r) \/ call[r] = "new" => r \notin started
    BY <1>2
  <1>4. /\ Len(pending) \in Nat /\ Len(ready) \in Nat /\ Len(carried) = Len(pending) + Len(ready)
        /\ \A p \in 1 .. Len(ready) : carried[Len(pending) + p] = ready[p] /\ ready[p] \in Request
    BY CarriedIs
  <1>5. \A r \in Request : Here(r) /\ r \notin started => attempts[r] = 0
    BY DEF AttemptsLeft
  <1>6. \A i \in 1 .. Len(ready) : attempts[ready[i]] <= MaxRetries
    BY DEF AttemptsLeft
  <1>7. ASSUME Fetch
        PROVE  Came /\ Left /\ attempts' = attempts
    <2>1. /\ call' = call /\ started' = started /\ attempts' = attempts
          /\ \E x \in Request :
                /\ Len(carried') = Len(carried) + 1 /\ Len(carried) \in Nat
                /\ \A p \in 1 .. Len(carried) : carried'[p] = carried[p]
                /\ carried'[Len(carried) + 1] = x /\ Len(ready') = 1 /\ ready'[1] = x
                /\ \/ TakenFrom(reliableQueue, x) /\ ephemeralQueue' = ephemeralQueue
                   \/ TakenFrom(ephemeralQueue, x) /\ reliableQueue' = reliableQueue
      BY <1>7, FetchIs
    <2>2. PICK x \in Request :
                /\ Len(carried') = Len(carried) + 1 /\ Len(carried) \in Nat
                /\ \A p \in 1 .. Len(carried) : carried'[p] = carried[p]
                /\ carried'[Len(carried) + 1] = x /\ Len(ready') = 1 /\ ready'[1] = x
                /\ \/ TakenFrom(reliableQueue, x) /\ ephemeralQueue' = ephemeralQueue
                   \/ TakenFrom(ephemeralQueue, x) /\ reliableQueue' = reliableQueue
      BY <2>1
    <2>3. \A y : (\E k \in 1 .. Len(carried') : carried'[k] = y) <=> (\E k \in 1 .. Len(carried) : carried[k] = y) \/ y = x
      BY <2>2, GrownIs
    <2>4. \A y \in Request : IsCarried(y)' => IsCarried(y) \/ y = x
      BY <2>3 DEF IsCarried
    <2>5. ASSUME TakenFrom(reliableQueue, x), ephemeralQueue' = ephemeralQueue
          PROVE  InReliable(x) /\ \A y \in Request : InReliable(y)' \/ InEphemeral(y)' => InReliable(y) \/ InEphemeral(y)
      <3>1. /\ reliableQueue[1] = x /\ 1 \in 1 .. Len(reliableQueue)
            /\ \A k \in 1 .. Len(reliableQueue') : reliableQueue'[k] = reliableQueue[k + 1] /\ k + 1 \in 1 .. Len(reliableQueue)
        BY <2>5 DEF TakenFrom
      <3>2. \A y \in Request : InReliable(y)' => InReliable(y)
        BY <3>1 DEF InReliable
      <3>3. \A y \in Request : InEphemeral(y)' <=> InEphemeral(y)
        BY <2>5 DEF InEphemeral
      <3>4. InReliable(x)
        BY <3>1 DEF InReliable
      <3> QED BY <3>2, <3>3, <3>4
    <2>6. ASSUME TakenFrom(ephemeralQueue, x), reliableQueue' = reliableQueue
          PROVE  InEphemeral(x) /\ \A y \in Request : InReliable(y)' \/ InEphemeral(y)' => InReliable(y) \/ InEphemeral(y)
      <3>1. /\ ephemeralQueue[1] = x /\ 1 \in 1 .. Len(ephemeralQueue)
            /\ \A k \in 1 .. Len(ephemeralQueue') : ephemeralQueue'[k] = ephemeralQueue[k + 1] /\ k + 1 \in 1 .. Len(ephemeralQueue)
        BY <2>6 DEF TakenFrom
      <3>2. \A y \in Request : InEphemeral(y)' => InEphemeral(y)
        BY <3>1 DEF InEphemeral
      <3>3. \A y \in Request : InReliable(y)' <=> InReliable(y)
        BY <2>6 DEF InReliable
      <3>4. InEphemeral(x)
        BY <3>1 DEF InEphemeral
      <3> QED BY <3>2, <3>3, <3>4
    <2>7. /\ InReliable(x) \/ InEphemeral(x)
          /\ \A y \in Request : InReliable(y)' \/ InEphemeral(y)' => InReliable(y) \/ InEphemeral(y)
      BY <2>2, <2>5, <2>6
    <2>8. Came
      BY <2>1, <2>4, <2>7
    <2>9. attempts[x] = 0
      BY <1>3, <1>5, <2>7
    <2>10. \A i \in 1 .. Len(ready') : ready'[i] = x
      BY <2>2
    <2>11. Left
      BY <2>1, <2>9, <2>10, LaneBounds
    <2> QED BY <2>1, <2>8, <2>11
  <1>8. ASSUME Close
        PROVE  Came /\ Left /\ attempts' = attempts
    <2>1. /\ Len(carried') = 0 /\ Len(reliableQueue') = 0 /\ Len(ephemeralQueue') = 0 /\ Len(ready') = 0
          /\ attempts' = attempts
          /\ \A r \in Request : call'[r] = call[r] \/ (call[r] = "waiting" /\ call'[r] = "error")
      BY <1>8, CloseIs
    <2>2. \A y \in Request : ~IsCarried(y)' /\ ~InReliable(y)' /\ ~InEphemeral(y)'
      BY <2>1 DEF IsCarried, InReliable, InEphemeral
    <2> QED BY <1>3, <2>1, <2>2
  <1>9. ASSUME NEW r \in Request, NEW kind \in {"reliable", "ephemeral"}, Call(r, kind)
        PROVE  Came /\ Left /\ attempts' = attempts
    <2>1. /\ call[r] = "new" /\ call' = [call EXCEPT ![r] = "waiting"]
          /\ carried' = carried /\ started' = started /\ attempts' = attempts /\ ready' = ready
      BY <1>9, CallIs
    <2>2. \A y \in Request : y # r => call'[y] = call[y]
      BY <1>1, <2>1
    <2>3. \A y \in Request : IsCarried(y)' => IsCarried(y)
      BY <2>1 DEF IsCarried
    <2>4. \A y \in Request : InReliable(y)' \/ InEphemeral(y)' => InReliable(y) \/ InEphemeral(y) \/ y = r
      <3>1. ASSUME ephemeralQueue' = ephemeralQueue,
                   Len(reliableQueue) \in Nat, Len(reliableQueue') = Len(reliableQueue) + 1,
                   \A k \in 1 .. Len(reliableQueue) : reliableQueue'[k] = reliableQueue[k],
                   reliableQueue'[Len(reliableQueue) + 1] = r
            PROVE  \A y \in Request : InReliable(y)' \/ InEphemeral(y)' => InReliable(y) \/ InEphemeral(y) \/ y = r
        <4>1. \A y : (\E k \in 1 .. Len(reliableQueue') : reliableQueue'[k] = y)
                         <=> (\E k \in 1 .. Len(reliableQueue) : reliableQueue[k] = y) \/ y = r
          BY <3>1, GrownIs
        <4> QED BY <3>1, <4>1 DEF InReliable, InEphemeral
      <3>2. ASSUME reliableQueue' = reliableQueue,
                   Len(ephemeralQueue) \in Nat, Len(ephemeralQueue') = Len(ephemeralQueue) + 1,
                   \A k \in 1 .. Len(ephemeralQueue) : ephemeralQueue'[k] = ephemeralQueue[k],
                   ephemeralQueue'[Len(ephemeralQueue) + 1] = r
            PROVE  \A y \in Request : InReliable(y)' \/ InEphemeral(y)' => InReliable(y) \/ InEphemeral(y) \/ y = r
        <4>1. \A y : (\E k \in 1 .. Len(ephemeralQueue') : ephemeralQueue'[k] = y)
                         <=> (\E k \in 1 .. Len(ephemeralQueue) : ephemeralQueue[k] = y) \/ y = r
          BY <3>2, GrownIs
        <4> QED BY <3>2, <4>1 DEF InReliable, InEphemeral
      <3> QED BY <1>9, <3>1, <3>2, CallIs
    <2> QED BY <1>3, <1>6, <2>1, <2>2, <2>3, <2>4
  <1>10. ASSUME NEW r \in Request, NEW kind \in {"reliable", "ephemeral"}, CallRejected(r, kind)
         PROVE  Came /\ Left /\ attempts' = attempts
    <2>1. /\ call[r] = "new" /\ carried' = carried /\ started' = started /\ attempts' = attempts /\ ready' = ready
          /\ reliableQueue' = reliableQueue /\ ephemeralQueue' = ephemeralQueue
      BY <1>10, RejectIs
    <2>2. \A y \in Request : /\ IsCarried(y)' <=> IsCarried(y)
                             /\ InReliable(y)' <=> InReliable(y)
                             /\ InEphemeral(y)' <=> InEphemeral(y)
      BY <2>1 DEF IsCarried, InReliable, InEphemeral
    <2>3. \A y \in Request : y # r => call'[y] = call[y]
      BY <1>1, <1>10 DEF CallRejected
    <2> QED BY <1>6, <2>1, <2>2, <2>3
  <1>11. ASSUME Quiet, ~Fetch
         PROVE  Came
    <2>1. PICK f : Sifts(f)
      BY <1>11, SiftSteps
    <2>2. /\ \A r \in Request : IsCarried(r)' => IsCarried(r)
          /\ \A r \in started' : IsCarried(r)'
          /\ \A r \in Request : IsCarried(r)' /\ r \in started => r \in started'
      BY <2>1, SiftPlaces
    <2>3. /\ \A y \in Request : InReliable(y)' <=> InReliable(y)
          /\ \A y \in Request : InEphemeral(y)' <=> InEphemeral(y)
          /\ \A r \in Request : call'[r] = call[r] \/ (call[r] = "waiting" /\ call'[r] \in {"ok", "error"})
      BY <1>11 DEF Quiet, InReliable, InEphemeral
    <2> QED BY <1>3, <2>2, <2>3
  <1>12. ASSUME SendFrame
         PROVE  Left /\ \A r \in Request : r \notin started' => attempts'[r] = attempts[r]
    <2>1. /\ ready # <<>> /\ ready' = Tail(ready) /\ started' = started \cup {Head(ready)}
          /\ attempts' = [attempts EXCEPT ![Head(ready)] = @ + 1]
      BY <1>12 DEF SendFrame
    <2>2. /\ Head(ready) = ready[1] /\ 1 \in 1 .. Len(ready) /\ Len(ready') = Len(ready) - 1
          /\ \A k \in 1 .. Len(ready') : ready'[k] = ready[k + 1] /\ k + 1 \in 1 .. Len(ready)
      BY <1>1, <2>1
    <2>3. \A r \in Request : r # Head(ready) => attempts'[r] = attempts[r]
      BY <1>1, <2>1
    <2>4. ASSUME NEW k \in 1 .. Len(ready')
          PROVE  ready[k + 1] # ready[1]
      <3>1. /\ Len(pending) + (k + 1) \in 1 .. Len(carried) /\ Len(pending) + 1 \in 1 .. Len(carried)
            /\ Len(pending) + (k + 1) # Len(pending) + 1
        BY <1>4, <2>2
      <3>2. carried[Len(pending) + (k + 1)] # carried[Len(pending) + 1]
        BY <1>2, <3>1
      <3> QED BY <1>4, <2>2, <3>2
    <2>5. ASSUME NEW k \in 1 .. Len(ready')
          PROVE  attempts'[ready'[k]] <= MaxRetries
      <3>1. ready'[k] = ready[k + 1] /\ k + 1 \in 1 .. Len(ready) /\ ready[k + 1] \in Request
        BY <1>4, <2>2
      <3>2. attempts'[ready'[k]] = attempts[ready[k + 1]]
        BY <2>2, <2>3, <2>4, <3>1
      <3> QED BY <1>6, <3>1, <3>2
    <2> QED BY <2>1, <2>3, <2>5
  <1>13. ASSUME Quiet, ~SendFrame, ~Fetch
         PROVE  Left /\ attempts' = attempts
    <2>1. attempts' = attempts
      BY <1>13 DEF Quiet
    <2>2. ASSUME ready' = ready
          PROVE  Left
      BY <1>6, <2>1, <2>2
    <2>3. ASSUME SkipExpired
          PROVE  Left
      <3>1. ready # <<>> /\ ready' = Tail(ready)
        BY <2>3 DEF SkipExpired
      <3>2. \A k \in 1 .. Len(ready') : ready'[k] = ready[k + 1] /\ k + 1 \in 1 .. Len(ready)
        BY <1>1, <3>1
      <3> QED BY <1>6, <2>1, <3>2
    <2>4. ASSUME NEW retryable, NEW bad, retryRequests(retryable, bad)
          PROVE  Left
      BY <2>1, <2>4, RetryHasAttempts
    <2>5. ASSUME ensureStream \/ Receive \/ PeerRestarts
          PROVE  ready' = ready
      BY <2>5 DEF ensureStream, Receive, PeerRestarts, laneVars
    <2>6. ASSUME NEW s \in Stream, PeerStep(s)
          PROVE  ready' = ready
      BY <2>6 DEF PeerStep, LaneRecv, LaneRefuses, LaneReplies, LaneEnds, ExecuteStarts,
                  ExecuteWindowFull, ExecuteHits, ExecuteEnds, laneVars
    <2>7. ASSUME NEW r \in Request, Caller(r) \/ TTLPasses(r)
          PROVE  ready' = ready
      BY <2>7 DEF Caller, Call, CallRejected, Deadline, TTLPasses, laneVars
    <2>8. ASSUME NEW e \in {"client", "server"}, ViewMoves(e)
          PROVE  ready' = ready
      BY <2>8 DEF ViewMoves, laneVars
    <2>9. ASSUME ensureStreamFails \/ StreamFails \/ Tick \/ ReceiveInvalid
          PROVE  Left
      BY <2>4, <2>9 DEF ensureStreamFails, StreamFails, Tick, ReceiveInvalid, closeStream
    <2>10. ASSUME Close
           PROVE  Left
      BY <1>8, <2>10
    <2> HIDE DEF Left
    <2> QED BY <1>13, <2>1, <2>2, <2>3, <2>5, <2>6, <2>7, <2>8, <2>9, <2>10 DEF LaneNext, LaneStep
  <1>14. Came
    <2> HIDE DEF Came, Left
    <2> QED BY <1>7, <1>8, <1>9, <1>10, <1>11, LaneCases
  <1>15. Left /\ \A r \in Request : r \notin started' => attempts'[r] = attempts[r]
    <2> HIDE DEF Came, Left
    <2> QED BY <1>7, <1>8, <1>9, <1>10, <1>12, <1>13, LaneCases
  <1>16. \A r \in Request : HereNext(r) /\ r \notin started' => attempts'[r] = 0
    BY <1>5, <1>14, <1>15
  <1> QED BY <1>15, <1>16 DEF AttemptsLeft

-----------------------------------------------------------------------------
\* What has been called stays called, and who waits no more has the final result.
LEMMA CallsGrow ==
    ASSUME LaneTypeOK, LaneTypeOK', LaneNext, NEW r \in Request, call[r] # "new"
    PROVE  call'[r] = call[r] \/ (call[r] = "waiting" /\ call'[r] \in {"ok", "error"})
  <1>1. call \in [Request -> {"new", "waiting", "ok", "error"}]
    BY DEF LaneTypeOK
  <1>2. ASSUME NEW x \in Request, NEW kind \in {"reliable", "ephemeral"}, Call(x, kind) \/ CallRejected(x, kind)
        PROVE  call'[r] = call[r]
    <2>1. call[x] = "new" /\ \E c : call' = [call EXCEPT ![x] = c]
      BY <1>2 DEF Call, CallRejected
    <2> QED BY <1>1, <2>1
  <1> QED BY <1>2, LaneCases, FetchIs, CloseIs DEF Quiet

\* The frames under way to stream t after a step, one by one.
LEMMA FramesCome ==
    ASSUME LaneTypeOK, LaneNext, NEW t \in Stream, NEW k \in 1 .. Len(up'[t])
    PROVE  \/ \E j \in 1 .. Len(up[t]) : up'[t][k] = up[t][j]
           \/ /\ SendFrame /\ t = stream /\ k = Len(up[t]) + 1 /\ ready # <<>>
              /\ up'[t][k].req = Head(ready)
  <1>1. up[t] \in Seq(Frame) /\ Len(up[t]) \in Nat
    BY DEF LaneTypeOK
  <1> DEFINE Goal == \/ \E j \in 1 .. Len(up[t]) : up'[t][k] = up[t][j]
                     \/ /\ SendFrame /\ t = stream /\ k = Len(up[t]) + 1 /\ ready # <<>>
                        /\ up'[t][k].req = Head(ready)
  <1>2. ASSUME up'[t] = up[t]
        PROVE  Goal
    BY <1>2
  <1>3. ASSUME SendFrame, t = stream, NEW f, f.req = Head(ready), up'[t] = Append(up[t], f)
        PROVE  Goal
    <2>1. /\ Len(up'[t]) = Len(up[t]) + 1 /\ up'[t][Len(up[t]) + 1] = f
          /\ \A j \in 1 .. Len(up[t]) : up'[t][j] = up[t][j]
      BY <1>1, <1>3
    <2>2. CASE k = Len(up[t]) + 1
      BY <1>3, <2>1, <2>2 DEF SendFrame
    <2>3. CASE k # Len(up[t]) + 1
      BY <1>1, <2>1, <2>3
    <2> QED BY <2>2, <2>3
  <1>4. ASSUME up[t] # <<>>, up'[t] = Tail(up[t])
        PROVE  Goal
    <2>1. Len(up'[t]) = Len(up[t]) - 1 /\ \A j \in 1 .. Len(up[t]) - 1 : up'[t][j] = up[t][j + 1]
      BY <1>1, <1>4
    <2>2. k + 1 \in 1 .. Len(up[t]) /\ up'[t][k] = up[t][k + 1]
      BY <1>1, <2>1
    <2> QED BY <2>2
  <1>5. ASSUME up'[t] = <<>>
        PROVE  Goal
    BY <1>5
  <1> HIDE DEF Goal
  <1>6. Goal
    <2>1. PICK f : f = [req |-> Head(ready), seq |-> sequence + 1, epoch |-> viewEpoch.client]
      OBVIOUS
    <2>2. f.req = Head(ready)
      BY <2>1
    <2> QED BY <1>2, <1>3, <1>4, <1>5, <2>1, <2>2, FramesUnderWay DEF LaneRecv
  <1> QED BY <1>6 DEF Goal

\* What the log names are requests.
LEMMA RanIsRequests ==
    ASSUME LaneTypeOK
    PROVE  Ran \subseteq Request /\ \A i \in 1 .. Len(log) : log[i][1] \in Request
  <1>1. log \in Seq(Request \X Nat)
    BY DEF LaneTypeOK
  <1>2. \A i \in 1 .. Len(log) : log[i] \in Request \X Nat
    BY <1>1
  <1> QED BY <1>2 DEF Ran

\* Every step keeps OnlyCalled.
LEMMA OnlyCalledStep ==
    ASSUME LaneTypeOK, LaneTypeOK', OnePlaceEach, TableKnows, FramesNumbered, FramesNumbered',
           OnlyCalled, LaneNext
    PROVE  OnlyCalled'
  <1>1. \A r \in Request : call[r] # "new" => call'[r] # "new"
    BY CallsGrow
  <1>2. up \in [Stream -> Seq(Frame)] /\ \A f \in Frame : f.req \in Request
    BY DEF LaneTypeOK, Frame
  <1>3. \A t \in Stream : \A j \in 1 .. Len(up[t]) : up[t][j].req \in Request /\ call[up[t][j].req] # "new"
    BY <1>2 DEF OnlyCalled
  <1>4. ASSUME NEW t \in Stream, NEW k \in 1 .. Len(up'[t])
        PROVE  call'[up'[t][k].req] # "new"
    <2>1. CASE \E j \in 1 .. Len(up[t]) : up'[t][k] = up[t][j]
      BY <1>1, <1>3, <2>1
    <2>2. CASE ready # <<>> /\ up'[t][k].req = Head(ready)
      <3>1. ready \in Seq(Request)
        BY DEF LaneTypeOK
      <3>2. Head(ready) = ready[1] /\ 1 \in 1 .. Len(ready) /\ ready[1] \in Request
        BY <2>2, <3>1
      <3>3. Len(pending) + 1 \in 1 .. Len(carried) /\ carried[Len(pending) + 1] = ready[1]
        BY <3>2, CarriedIs
      <3>4. call[ready[1]] # "new"
        BY <3>2, <3>3 DEF OnePlaceEach, IsCarried
      <3> QED BY <1>1, <2>2, <3>2, <3>4
    <2> QED BY <2>1, <2>2, FramesCome
  <1>5. ASSUME NEW t \in Stream, Holding(t)'
        PROVE  call'[srv'[t].frame.req] # "new"
    <2>1. srv'[t].pc \in {"got", "exec", "wait", "reply"}
      BY <1>5 DEF Holding
    <2>2. CASE Stays(t) \/ Works(t)
      <3>1. srv'[t].frame = srv[t].frame /\ Holding(t)
        BY <2>1, <2>2 DEF Stays, Works, Holding
      <3>2. srv[t].frame.req \in Request /\ call[srv[t].frame.req] # "new"
        BY <3>1, HeldIs DEF OnlyCalled
      <3> QED BY <1>1, <3>1, <3>2
    <2>3. CASE Takes(t)
      <3>1. srv'[t].frame = Head(up[t]) /\ up[t] # <<>> /\ up[t] \in Seq(Frame)
        BY <1>2, <2>3 DEF Takes
      <3>2. Head(up[t]) = up[t][1] /\ 1 \in 1 .. Len(up[t])
        BY <3>1
      <3> QED BY <1>1, <1>3, <3>1, <3>2
    <2>4. ~Replies(t) /\ ~Opens(t) /\ ~Ends(t)
      BY <2>1 DEF Replies, Opens, Ends
    <2> QED BY <2>2, <2>3, <2>4, StreamMoves
  <1>6. ASSUME NEW r \in Ran'
        PROVE  call'[r] # "new"
    <2>1. ASSUME NEW s \in Stream, ExecuteStarts(s)
          PROVE  call'[r] # "new"
      <3>1. Holding(s) /\ srv[s].frame.req \in Request /\ Ran' = Ran \cup {srv[s].frame.req}
        BY <2>1, LogAppends DEF Holding, ExecuteStarts
      <3>2. CASE r \in Ran
        BY <1>1, <3>2, RanIsRequests DEF OnlyCalled
      <3>3. CASE r = srv[s].frame.req
        BY <1>1, <3>1, <3>3 DEF OnlyCalled
      <3> QED BY <3>1, <3>2, <3>3
    <2>2. ASSUME ~\E s \in Stream : ExecuteStarts(s)
          PROVE  call'[r] # "new"
      <3>1. log' = log
        BY <2>2, TableSteps DEF ExecuteWindowFull, ExecuteEnds, TTLPasses, PeerRestarts, Elsewhere
      <3>2. r \in Ran
        BY <3>1 DEF Ran
      <3> QED BY <1>1, <3>2, RanIsRequests DEF OnlyCalled
    <2> QED BY <2>1, <2>2
  <1> QED BY <1>4, <1>5, <1>6 DEF OnlyCalled

-----------------------------------------------------------------------------
\* What has met a full table keeps having met it.
LEMMA TurnedAwayGrows ==
    ASSUME LaneNext
    PROVE  turnedAway \subseteq turnedAway'
  <1>1. ASSUME NEW s \in Stream, ExecuteWindowFull(s)
        PROVE  turnedAway \subseteq turnedAway'
    BY <1>1 DEF ExecuteWindowFull
  <1>2. ASSUME ~\E s \in Stream : ExecuteWindowFull(s)
        PROVE  turnedAway' = turnedAway
    BY <1>2, TableSteps DEF ExecuteEnds, ExecuteStarts, TTLPasses, PeerRestarts, Elsewhere
  <1> QED BY <1>1, <1>2

\* A request that is settled stays so.
LEMMA SettledGrows ==
    ASSUME LaneTypeOK, LaneTypeOK', FramesNumbered, LaneNext, NEW a \in Request, Settled(a)
    PROVE  Settled(a)'
  BY CallsGrow, RanGrows, TurnedAwayGrows DEF Settled

\* A reliable request nobody waits for any more is settled.
LEMMA FinishedIsSettled ==
    ASSUME LaneTypeOK', ResultsAreTrue', OkMeansExecuted', NEW a \in Request, a \in reliable',
           call'[a] # "new", call'[a] # "waiting"
    PROVE  Settled(a)'
  <1>1. call'[a] \in {"new", "waiting", "ok", "error"}
    BY DEF LaneTypeOK
  <1>2. CASE call'[a] = "ok"
    BY <1>2 DEF OkMeansExecuted, ResultsAreTrue, Settled
  <1>3. CASE call'[a] = "error"
    BY <1>3 DEF Settled
  <1> QED BY <1>1, <1>2, <1>3

\* A request that becomes reliable in a step was called after all others.
LEMMA ReliableSteps ==
    ASSUME LaneTypeOK, LaneTypeOK', CallsInOrder, LaneNext
    PROVE  /\ reliable \subseteq reliable'
           /\ \A a \in reliable' : a \in Request /\ (a \in reliable \/ call[a] = "new")
           /\ \A a \in reliable', b \in reliable' : call[b] # "new" /\ a < b => a \in reliable /\ b \in reliable
  <1>1. reliable \subseteq Request /\ reliable' \subseteq Request
    BY DEF LaneTypeOK
  <1>2. reliable' = reliable \/ \E r \in Request : call[r] = "new" /\ reliable' = reliable \cup {r}
    <2>1. ASSUME NEW r \in Request, NEW kind \in {"reliable", "ephemeral"}, Call(r, kind) \/ CallRejected(r, kind)
          PROVE  call[r] = "new" /\ (reliable' = reliable \/ reliable' = reliable \cup {r})
      BY <2>1 DEF Call, CallRejected
    <2>2. Fetch \/ Close \/ Quiet => reliable' = reliable
      BY FetchIs, CloseIs DEF Quiet
    <2> QED BY <2>1, <2>2, LaneCases
  <1>3. reliable \subseteq reliable' /\ \A a \in reliable' : a \in Request /\ (a \in reliable \/ call[a] = "new")
    BY <1>1, <1>2
  <1>4. ASSUME NEW a \in reliable', NEW b \in reliable', call[b] # "new", a < b
        PROVE  a \in reliable /\ b \in reliable
    BY <1>3, <1>4 DEF CallsInOrder
  <1> QED BY <1>3, <1>4

\* A reliable request that is carried stays so or is settled.
LEMMA CarriedOrSettled ==
    ASSUME LaneTypeOK, LaneTypeOK', OnePlaceEach, FramesNumbered, ResultsAreTrue', OkMeansExecuted',
           Quiet, LaneNext, NEW f, Sifts(f), NEW p \in 1 .. Len(carried), NEW a \in reliable, a = carried[p]
    PROVE  Settled(a)' \/ \E k \in 1 .. Len(carried') : f[k] = p /\ carried'[k] = a
  <1>1. a \in Request
    BY DEF LaneTypeOK
  <1>2. call[a] # "new" /\ a \in reliable'
    BY <1>1 DEF OnePlaceEach, IsCarried, Quiet
  <1>3. CASE Dropped(f, p)
    <2>1. call'[a] # "waiting"
      BY <1>3 DEF Sifts
    <2>2. call'[a] # "new"
      BY <1>1, <1>2, CallsGrow
    <2> QED BY <1>1, <1>2, <2>1, <2>2, FinishedIsSettled
  <1>4. CASE ~Dropped(f, p)
    BY <1>4 DEF Dropped, Sifts
  <1> QED BY <1>3, <1>4

\* Every step leaves a reliable request settled, carried or queued.
LEMMA KeptOrSettledStep ==
    ASSUME LaneTypeOK, LaneTypeOK', OnePlaceEach, FramesNumbered, ResultsAreTrue', OkMeansExecuted',
           KeptOrSettled, LaneNext
    PROVE  KeptOrSettled'
  <1>1. /\ call \in [Request -> {"new", "waiting", "ok", "error"}]
        /\ reliable \subseteq Request /\ reliable' \subseteq Request
    BY DEF LaneTypeOK
  <1>2. \A a \in reliable : Settled(a) => Settled(a)'
    BY <1>1, SettledGrows
  <1>3. CASE Fetch
    <2>1. /\ reliable' = reliable
          /\ \E x \in Request :
                /\ Len(carried') = Len(carried) + 1 /\ Len(carried) \in Nat
                /\ \A p \in 1 .. Len(carried) : carried'[p] = carried[p]
                /\ carried'[Len(carried) + 1] = x
                /\ \/ TakenFrom(reliableQueue, x) /\ ephemeralQueue' = ephemeralQueue
                   \/ TakenFrom(ephemeralQueue, x) /\ reliableQueue' = reliableQueue
      BY <1>3, FetchIs
    <2>2. PICK x \in Request :
                /\ Len(carried') = Len(carried) + 1 /\ Len(carried) \in Nat
                /\ \A p \in 1 .. Len(carried) : carried'[p] = carried[p]
                /\ carried'[Len(carried) + 1] = x
                /\ TakenFrom(reliableQueue, x) \/ reliableQueue' = reliableQueue
      BY <2>1
    <2>3. \A y : (\E k \in 1 .. Len(carried') : carried'[k] = y) <=> (\E k \in 1 .. Len(carried) : carried[k] = y) \/ y = x
      BY <2>2, GrownIs
    <2>4. \A a \in Request : IsCarried(a) \/ a = x => IsCarried(a)'
      BY <2>3 DEF IsCarried
    <2>5. \A a \in Request : InReliable(a) => InReliable(a)' \/ a = x
      <3>1. ASSUME TakenFrom(reliableQueue, x), NEW k \in 1 .. Len(reliableQueue), reliableQueue[k] # x
            PROVE  \E m \in 1 .. Len(reliableQueue') : reliableQueue'[m] = reliableQueue[k]
        <4>1. /\ Len(reliableQueue) \in Nat /\ reliableQueue[1] = x /\ Len(reliableQueue') = Len(reliableQueue) - 1
              /\ \A m \in 1 .. Len(reliableQueue') : reliableQueue'[m] = reliableQueue[m + 1]
          BY <3>1 DEF TakenFrom
        <4>2. k # 1
          BY <3>1, <4>1
        <4>3. k - 1 \in 1 .. Len(reliableQueue') /\ (k - 1) + 1 = k
          BY <4>1, <4>2
        <4> QED BY <4>1, <4>3
      <3>2. CASE TakenFrom(reliableQueue, x)
        BY <3>1, <3>2 DEF InReliable
      <3>3. CASE reliableQueue' = reliableQueue
        BY <3>3 DEF InReliable
      <3> QED BY <2>2, <3>2, <3>3
    <2> QED BY <1>1, <1>2, <2>1, <2>4, <2>5 DEF KeptOrSettled
  <1>4. ASSUME NEW r \in Request, NEW kind \in {"reliable", "ephemeral"}, Call(r, kind)
        PROVE  KeptOrSettled'
    <2>1. /\ carried' = carried
          /\ \/ /\ reliable' = reliable \cup {r}
                /\ Len(reliableQueue) \in Nat /\ Len(reliableQueue') = Len(reliableQueue) + 1
                /\ \A k \in 1 .. Len(reliableQueue) : reliableQueue'[k] = reliableQueue[k]
                /\ reliableQueue'[Len(reliableQueue) + 1] = r
             \/ reliable' = reliable /\ reliableQueue' = reliableQueue
      BY <1>4, CallIs
    <2>2. \A a \in Request : IsCarried(a) => IsCarried(a)'
      BY <2>1 DEF IsCarried
    <2>3. CASE reliable' = reliable /\ reliableQueue' = reliableQueue
      <3>1. \A a \in Request : InReliable(a) => InReliable(a)'
        BY <2>3 DEF InReliable
      <3> QED BY <1>1, <1>2, <2>2, <2>3, <3>1 DEF KeptOrSettled
    <2>4. ASSUME reliable' = reliable \cup {r},
                 Len(reliableQueue) \in Nat, Len(reliableQueue') = Len(reliableQueue) + 1,
                 \A k \in 1 .. Len(reliableQueue) : reliableQueue'[k] = reliableQueue[k],
                 reliableQueue'[Len(reliableQueue) + 1] = r
          PROVE  KeptOrSettled'
      <3>1. \A y : (\E k \in 1 .. Len(reliableQueue') : reliableQueue'[k] = y)
                       <=> (\E k \in 1 .. Len(reliableQueue) : reliableQueue[k] = y) \/ y = r
        BY <2>4, GrownIs
      <3>2. \A a \in Request : InReliable(a) \/ a = r => InReliable(a)'
        BY <3>1 DEF InReliable
      <3> QED BY <1>1, <1>2, <2>2, <2>4, <3>2 DEF KeptOrSettled
    <2> QED BY <2>1, <2>3, <2>4
  <1>5. ASSUME NEW r \in Request, NEW kind \in {"reliable", "ephemeral"}, CallRejected(r, kind)
        PROVE  KeptOrSettled'
    <2>1. /\ carried' = carried /\ reliableQueue' = reliableQueue
          /\ \/ reliable' = reliable \cup {r} /\ call' = [call EXCEPT ![r] = "error"]
             \/ reliable' = reliable
      BY <1>5, RejectIs
    <2>2. \A a \in Request : (IsCarried(a) => IsCarried(a)') /\ (InReliable(a) => InReliable(a)')
      BY <2>1 DEF IsCarried, InReliable
    <2>3. call' = [call EXCEPT ![r] = "error"] => Settled(r)'
      BY <1>1 DEF Settled
    <2> QED BY <1>1, <1>2, <2>1, <2>2, <2>3 DEF KeptOrSettled
  <1>6. CASE Close
    <2>1. ASSUME NEW a \in reliable'
          PROVE  Settled(a)'
      <3>1. /\ a \in reliable /\ call[a] # "new" /\ call'[a] # "waiting"
            /\ call'[a] = call[a] \/ call'[a] = "error"
        BY <1>1, <1>6, <2>1, CloseIs DEF OnePlaceEach
      <3> QED BY <1>1, <2>1, <3>1, FinishedIsSettled
    <2> QED BY <2>1 DEF KeptOrSettled
  <1>7. ASSUME Quiet, ~Fetch
        PROVE  KeptOrSettled'
    <2>1. PICK f : Sifts(f)
      BY <1>7, SiftSteps
    <2>2. reliable' = reliable /\ \A a \in Request : InReliable(a) => InReliable(a)'
      BY <1>7 DEF Quiet, InReliable
    <2>3. ASSUME NEW a \in reliable, IsCarried(a)
          PROVE  Settled(a)' \/ IsCarried(a)'
      <3>1. PICK p \in 1 .. Len(carried) : carried[p] = a
        BY <2>3 DEF IsCarried
      <3>2. Settled(a)' \/ \E k \in 1 .. Len(carried') : f[k] = p /\ carried'[k] = a
        BY <1>7, <2>1, <3>1, CarriedOrSettled
      <3> QED BY <3>2 DEF IsCarried
    <2> QED BY <1>1, <1>2, <2>2, <2>3 DEF KeptOrSettled
  <1> QED BY <1>3, <1>4, <1>5, <1>6, <1>7, LaneCases

\* Every step keeps the order in the queue.
LEMMA QueuedInOrderStep ==
    ASSUME LaneTypeOK, LaneTypeOK', CallsInOrder, OnePlaceEach, FramesNumbered,
           ResultsAreTrue', OkMeansExecuted', KeptOrSettled, QueuedInOrder, LaneNext
    PROVE  QueuedInOrder'
  <1>1. /\ reliable \subseteq Request /\ reliable' \subseteq Request
        /\ reliableQueue \in Seq(Request) /\ Len(reliableQueue) \in Nat
        /\ \A k \in 1 .. Len(reliableQueue) : reliableQueue[k] \in Request
    <2>1. reliable \subseteq Request /\ reliable' \subseteq Request /\ reliableQueue \in Seq(Request)
      BY DEF LaneTypeOK
    <2> QED BY <2>1
  <1>2. \A a \in reliable : Settled(a) => Settled(a)'
    BY <1>1, SettledGrows
  <1>3. \A k \in 1 .. Len(reliableQueue) :
            InReliable(reliableQueue[k]) /\ reliableQueue[k] \in reliable /\ call[reliableQueue[k]] # "new"
    BY <1>1 DEF OnePlaceEach, InReliable
  <1>4. \A k \in 1 .. Len(reliableQueue) : \A a \in reliable' :
            a < reliableQueue[k] => a \in reliable
    BY <1>3, ReliableSteps
  <1>5. ASSUME reliableQueue' = reliableQueue,
               \A a \in reliable : IsCarried(a) => IsCarried(a)' \/ Settled(a)'
        PROVE  QueuedInOrder'
    BY <1>2, <1>4, <1>5 DEF QueuedInOrder
  <1>6. CASE Fetch
    <2>1. \E x \in Request :
                /\ Len(carried') = Len(carried) + 1 /\ Len(carried) \in Nat
                /\ \A p \in 1 .. Len(carried) : carried'[p] = carried[p]
                /\ carried'[Len(carried) + 1] = x
                /\ \/ TakenFrom(reliableQueue, x) /\ ephemeralQueue' = ephemeralQueue
                   \/ TakenFrom(ephemeralQueue, x) /\ reliableQueue' = reliableQueue
      BY <1>6, FetchIs
    <2>2. PICK x \in Request :
                /\ Len(carried') = Len(carried) + 1 /\ Len(carried) \in Nat
                /\ \A p \in 1 .. Len(carried) : carried'[p] = carried[p]
                /\ carried'[Len(carried) + 1] = x
                /\ TakenFrom(reliableQueue, x) \/ reliableQueue' = reliableQueue
      BY <2>1
    <2>3. \A y : (\E k \in 1 .. Len(carried') : carried'[k] = y) <=> (\E k \in 1 .. Len(carried) : carried[k] = y) \/ y = x
      BY <2>2, GrownIs
    <2>4. \A a \in Request : IsCarried(a) \/ a = x => IsCarried(a)'
      BY <2>3 DEF IsCarried
    <2>5. CASE reliableQueue' = reliableQueue
      BY <1>1, <1>5, <2>4, <2>5
    <2>6. ASSUME TakenFrom(reliableQueue, x), NEW k \in 1 .. Len(reliableQueue'), NEW a \in reliable',
                 a < reliableQueue'[k]
          PROVE  Settled(a)' \/ IsCarried(a)' \/ \E j \in 1 .. k - 1 : reliableQueue'[j] = a
      <3>1. /\ reliableQueue[1] = x /\ Len(reliableQueue') = Len(reliableQueue) - 1
            /\ \A m \in 1 .. Len(reliableQueue') : reliableQueue'[m] = reliableQueue[m + 1]
        BY <2>6 DEF TakenFrom
      <3>2. k + 1 \in 1 .. Len(reliableQueue) /\ reliableQueue'[k] = reliableQueue[k + 1] /\ k \in Nat
        BY <1>1, <3>1
      <3>3. a \in reliable
        BY <1>4, <2>6, <3>2
      <3>4. Settled(a) \/ IsCarried(a) \/ \E j \in 1 .. (k + 1) - 1 : reliableQueue[j] = a
        BY <2>6, <3>2, <3>3 DEF QueuedInOrder
      <3>5. ASSUME NEW j \in 1 .. (k + 1) - 1, reliableQueue[j] = a, a # x
            PROVE  \E m \in 1 .. k - 1 : reliableQueue'[m] = a
        <4>1. j # 1
          BY <3>1, <3>5
        <4>2. j - 1 \in 1 .. k - 1 /\ j - 1 \in 1 .. Len(reliableQueue') /\ (j - 1) + 1 = j
          BY <1>1, <3>1, <3>2, <4>1
        <4> QED BY <3>1, <3>5, <4>2
      <3> QED BY <1>1, <1>2, <2>4, <3>3, <3>4, <3>5
    <2> QED BY <2>2, <2>5, <2>6 DEF QueuedInOrder
  <1>7. ASSUME NEW r \in Request, NEW kind \in {"reliable", "ephemeral"}, Call(r, kind)
        PROVE  QueuedInOrder'
    <2>1. /\ carried' = carried
          /\ \/ /\ reliable' = reliable \cup {r}
                /\ Len(reliableQueue') = Len(reliableQueue) + 1
                /\ \A k \in 1 .. Len(reliableQueue) : reliableQueue'[k] = reliableQueue[k]
                /\ reliableQueue'[Len(reliableQueue) + 1] = r
             \/ reliable' = reliable /\ reliableQueue' = reliableQueue
      BY <1>7, CallIs
    <2>2. \A a \in Request : IsCarried(a) => IsCarried(a)'
      BY <2>1 DEF IsCarried
    <2>3. CASE reliableQueue' = reliableQueue
      BY <1>1, <1>5, <2>2, <2>3
    <2>4. ASSUME reliable' = reliable \cup {r}, Len(reliableQueue') = Len(reliableQueue) + 1,
                 \A k \in 1 .. Len(reliableQueue) : reliableQueue'[k] = reliableQueue[k],
                 reliableQueue'[Len(reliableQueue) + 1] = r,
                 NEW k \in 1 .. Len(reliableQueue'), NEW a \in reliable', a < reliableQueue'[k]
          PROVE  Settled(a)' \/ IsCarried(a)' \/ \E j \in 1 .. k - 1 : reliableQueue'[j] = a
      <3>1. CASE k \in 1 .. Len(reliableQueue)
        <4>1. a \in reliable /\ a < reliableQueue[k]
          BY <1>4, <2>4, <3>1
        <4>2. Settled(a) \/ IsCarried(a) \/ \E j \in 1 .. k - 1 : reliableQueue[j] = a
          BY <3>1, <4>1 DEF QueuedInOrder
        <4>3. \A j \in 1 .. k - 1 : j \in 1 .. Len(reliableQueue)
          BY <1>1, <3>1
        <4> QED BY <1>1, <1>2, <2>2, <2>4, <4>1, <4>2, <4>3
      <3>2. CASE k = Len(reliableQueue) + 1
        <4>1. a < r /\ r \in Nat /\ a \in Request
          BY <1>1, <2>4, <3>2, LaneBounds DEF Request
        <4>2. a \in reliable
          BY <2>4, <4>1
        <4>3. Settled(a) \/ IsCarried(a) \/ \E j \in 1 .. Len(reliableQueue) : reliableQueue[j] = a
          BY <4>2 DEF KeptOrSettled, InReliable
        <4>4. \A j \in 1 .. Len(reliableQueue) : j \in 1 .. k - 1
          BY <1>1, <3>2
        <4> QED BY <1>1, <1>2, <2>2, <2>4, <4>2, <4>3, <4>4
      <3>3. k \in 1 .. Len(reliableQueue) \/ k = Len(reliableQueue) + 1
        BY <1>1, <2>4
      <3> QED BY <3>1, <3>2, <3>3
    <2> QED BY <2>1, <2>3, <2>4 DEF QueuedInOrder
  <1>8. ASSUME NEW r \in Request, NEW kind \in {"reliable", "ephemeral"}, CallRejected(r, kind)
        PROVE  QueuedInOrder'
    <2>1. carried' = carried /\ reliableQueue' = reliableQueue
      BY <1>8, RejectIs
    <2>2. \A a \in Request : IsCarried(a) => IsCarried(a)'
      BY <2>1 DEF IsCarried
    <2> QED BY <1>1, <1>5, <2>1, <2>2
  <1>9. CASE Close
    <2>1. Len(reliableQueue') = 0
      BY <1>9, CloseIs
    <2> QED BY <2>1 DEF QueuedInOrder
  <1>10. ASSUME Quiet, ~Fetch
         PROVE  QueuedInOrder'
    <2>1. PICK f : Sifts(f)
      BY <1>10, SiftSteps
    <2>2. ASSUME NEW a \in reliable, IsCarried(a)
          PROVE  IsCarried(a)' \/ Settled(a)'
      <3>1. PICK p \in 1 .. Len(carried) : carried[p] = a
        BY <2>2 DEF IsCarried
      <3>2. Settled(a)' \/ \E k \in 1 .. Len(carried') : f[k] = p /\ carried'[k] = a
        BY <1>10, <2>1, <3>1, CarriedOrSettled
      <3> QED BY <3>2 DEF IsCarried
    <2> QED BY <1>5, <1>10, <2>2 DEF Quiet
  <1> QED BY <1>6, <1>7, <1>8, <1>9, <1>10, LaneCases

\* Every step keeps the order of what the lane carries.
LEMMA CarriedInOrderStep ==
    ASSUME LaneTypeOK, LaneTypeOK', CallsInOrder, OnePlaceEach, FramesNumbered,
           ResultsAreTrue', OkMeansExecuted', QueuedInOrder, CarriedInOrder, LaneNext
    PROVE  CarriedInOrder'
  <1>1. /\ reliable \subseteq Request /\ Len(carried) \in Nat /\ Len(carried') \in Nat
        /\ \A q \in 1 .. Len(carried) : carried[q] \in Request
    <2>1. carried \in Seq(Request) /\ carried' \in Seq(Request) /\ reliable \subseteq Request
      BY CarriedIs, CarriedIsNext DEF LaneTypeOK
    <2> QED BY <2>1
  <1>2. \A a \in reliable : Settled(a) => Settled(a)'
    BY <1>1, SettledGrows
  <1>3. \A q \in 1 .. Len(carried) : call[carried[q]] # "new"
    BY <1>1 DEF OnePlaceEach, IsCarried
  <1>4. \A q \in 1 .. Len(carried) : \A a \in reliable' :
            carried[q] \in reliable' /\ a < carried[q] => a \in reliable /\ carried[q] \in reliable
    BY <1>3, ReliableSteps
  <1>5. ASSUME carried' = carried
        PROVE  CarriedInOrder'
    BY <1>2, <1>4, <1>5 DEF CarriedInOrder
  <1>6. CASE Fetch
    <2>1. \E x \in Request :
                /\ Len(carried') = Len(carried) + 1 /\ Len(carried) \in Nat
                /\ \A p \in 1 .. Len(carried) : carried'[p] = carried[p]
                /\ carried'[Len(carried) + 1] = x
                /\ \/ TakenFrom(reliableQueue, x) /\ ephemeralQueue' = ephemeralQueue
                   \/ TakenFrom(ephemeralQueue, x) /\ reliableQueue' = reliableQueue
      BY <1>6, FetchIs
    <2>2. PICK x \in Request :
                /\ Len(carried') = Len(carried) + 1
                /\ \A p \in 1 .. Len(carried) : carried'[p] = carried[p]
                /\ carried'[Len(carried) + 1] = x
                /\ TakenFrom(reliableQueue, x) \/ TakenFrom(ephemeralQueue, x)
      BY <2>1
    <2>3. reliable' = reliable
      BY <1>6, FetchIs
    <2>4. ASSUME NEW q \in 1 .. Len(carried'), NEW a \in reliable, carried'[q] \in reliable, a < carried'[q]
          PROVE  Settled(a)' \/ \E p \in 1 .. q - 1 : carried'[p] = a
      <3>1. CASE q \in 1 .. Len(carried)
        <4>1. Settled(a) \/ \E p \in 1 .. q - 1 : carried[p] = a
          BY <2>2, <2>4, <3>1 DEF CarriedInOrder
        <4>2. \A p \in 1 .. q - 1 : p \in 1 .. Len(carried)
          BY <1>1, <3>1
        <4> QED BY <1>2, <2>2, <2>4, <4>1, <4>2
      <3>2. CASE q = Len(carried) + 1
        <4>1. carried'[q] = x /\ x \in reliable /\ a < x
          BY <2>2, <2>4, <3>2
        <4>2. ~TakenFrom(ephemeralQueue, x)
          <5>1. ASSUME TakenFrom(ephemeralQueue, x)
                PROVE  InEphemeral(x)
            <6>1. 1 \in 1 .. Len(ephemeralQueue) /\ ephemeralQueue[1] = x
              BY <5>1 DEF TakenFrom
            <6> QED BY <6>1 DEF InEphemeral
          <5> QED BY <4>1, <5>1 DEF OnePlaceEach
        <4>3. 1 \in 1 .. Len(reliableQueue) /\ reliableQueue[1] = x
          BY <2>2, <4>2 DEF TakenFrom
        <4>4. Settled(a) \/ IsCarried(a) \/ \E j \in 1 .. 1 - 1 : reliableQueue[j] = a
          BY <4>1, <4>3 DEF QueuedInOrder
        <4>5. IsCarried(a) => \E p \in 1 .. q - 1 : carried'[p] = a
          <5>1. \A p \in 1 .. Len(carried) : p \in 1 .. q - 1
            BY <1>1, <3>2
          <5> QED BY <2>2, <5>1 DEF IsCarried
        <4> QED BY <1>2, <2>4, <4>4, <4>5
      <3>3. q \in 1 .. Len(carried) \/ q = Len(carried) + 1
        BY <1>1, <2>2
      <3> QED BY <3>1, <3>2, <3>3
    <2> QED BY <2>3, <2>4 DEF CarriedInOrder
  <1>7. CASE Close
    <2>1. Len(carried') = 0
      BY <1>7, CloseIs
    <2> QED BY <2>1 DEF CarriedInOrder
  <1>8. ASSUME Quiet, ~Fetch
        PROVE  CarriedInOrder'
    <2>1. PICK f : Sifts(f)
      BY <1>8, SiftSteps
    <2>2. reliable' = reliable
      BY <1>8 DEF Quiet
    <2>3. ASSUME NEW q \in 1 .. Len(carried'), NEW a \in reliable, carried'[q] \in reliable, a < carried'[q]
          PROVE  Settled(a)' \/ \E p \in 1 .. q - 1 : carried'[p] = a
      <3>1. f[q] \in 1 .. Len(carried) /\ carried'[q] = carried[f[q]]
        BY <2>1 DEF Sifts
      <3>2. Settled(a) \/ \E p \in 1 .. f[q] - 1 : carried[p] = a
        BY <2>3, <3>1 DEF CarriedInOrder
      <3>3. ASSUME NEW p \in 1 .. f[q] - 1, carried[p] = a
            PROVE  Settled(a)' \/ \E k \in 1 .. q - 1 : carried'[k] = a
        <4>1. p \in 1 .. Len(carried) /\ p < f[q]
          BY <1>1, <3>1
        <4>2. Settled(a)' \/ \E k \in 1 .. Len(carried') : f[k] = p /\ carried'[k] = a
          BY <1>8, <2>1, <2>3, <3>3, <4>1, CarriedOrSettled
        <4>3. ASSUME NEW k \in 1 .. Len(carried'), f[k] = p
              PROVE  k \in 1 .. q - 1
          <5>1. ~(q < k) /\ q # k
            <6>1. q < k => f[q] < f[k]
              BY <2>1 DEF Sifts
            <6>2. ~(f[q] < f[k]) /\ f[q] # f[k]
              BY <1>1, <3>1, <4>1, <4>3
            <6> QED BY <6>1, <6>2
          <5> QED BY <1>1, <5>1
        <4> QED BY <4>2, <4>3
      <3> QED BY <1>2, <2>3, <3>2, <3>3
    <2> QED BY <2>2, <2>3 DEF CarriedInOrder
  <1>9. ASSUME NEW r \in Request, NEW kind \in {"reliable", "ephemeral"}, Call(r, kind) \/ CallRejected(r, kind)
        PROVE  CarriedInOrder'
    BY <1>5, <1>9, CallIs, RejectIs
  <1> QED BY <1>6, <1>7, <1>8, <1>9, LaneCases

\* What the window holds after a step it held before, unless it has just been sent.
LEMMA PendingComes ==
    ASSUME LaneTypeOK, LaneNext, NEW i \in 1 .. Len(pending')
    PROVE  \/ \E m \in 1 .. Len(pending) : pending'[i].req = pending[m].req
           \/ SendFrame /\ pending'[i].req = Head(ready)
  <1> DEFINE Goal == \/ \E m \in 1 .. Len(pending) : pending'[i].req = pending[m].req
                     \/ SendFrame /\ pending'[i].req = Head(ready)
  <1>1. pending \in Seq(Frame) /\ Len(pending) \in Nat
    BY DEF LaneTypeOK
  <1>2. ASSUME pending' = pending
        PROVE  Goal
    BY <1>2
  <1>3. ASSUME pending' = <<>>
        PROVE  Goal
    BY <1>3
  <1>4. ASSUME SendFrame
        PROVE  Goal
    <2>1. PICK frame : frame = [req |-> Head(ready), seq |-> sequence + 1, epoch |-> viewEpoch.client]
      OBVIOUS
    <2>2. pending' = Append(pending, frame) /\ frame.req = Head(ready)
      BY <1>4, <2>1 DEF SendFrame
    <2>3. /\ Len(pending') = Len(pending) + 1 /\ pending'[Len(pending) + 1] = frame
          /\ \A m \in 1 .. Len(pending) : pending'[m] = pending[m]
      BY <1>1, <2>2
    <2>4. i \in 1 .. Len(pending) \/ i = Len(pending) + 1
      BY <1>1, <2>3
    <2> QED BY <1>4, <2>2, <2>3, <2>4
  <1>5. ASSUME Receive
        PROVE  Goal
    <2>1. PICK m \in validateResponse(Head(down[stream])) :
              pending' = SubSeq(pending, 1, m - 1) \o SubSeq(pending, m + 1, Len(pending))
      BY <1>5 DEF Receive
    <2>2. m \in 1 .. Len(pending)
      BY <1>1 DEF validateResponse
    <2>3. /\ Len(pending') = Len(pending) - 1
          /\ \A k \in 1 .. Len(pending) - 1 : pending'[k] = pending[IF k < m THEN k ELSE k + 1]
      BY <1>1, <2>1, <2>2, WithoutPlace
    <2>4. PICK k \in 1 .. Len(pending) : k = IF i < m THEN i ELSE i + 1
      BY <1>1, <2>2, <2>3
    <2>5. pending'[i] = pending[k]
      BY <2>3, <2>4
    <2> QED BY <2>5
  <1>6. ASSUME NEW s \in Stream, PeerStep(s)
        PROVE  pending' = pending
    BY <1>6 DEF PeerStep, LaneRecv, LaneRefuses, LaneReplies, LaneEnds, ExecuteStarts,
                ExecuteWindowFull, ExecuteHits, ExecuteEnds, laneVars
  <1>7. ASSUME NEW r \in Request, Caller(r) \/ TTLPasses(r)
        PROVE  pending' = pending
    BY <1>7 DEF Caller, Call, CallRejected, Deadline, TTLPasses, laneVars
  <1>8. ASSUME NEW e \in {"client", "server"}, ViewMoves(e)
        PROVE  pending' = pending
    BY <1>8 DEF ViewMoves, laneVars
  <1>9. ASSUME PeerRestarts \/ Fetch \/ ensureStream \/ ensureStreamFails \/ SkipExpired
        PROVE  pending' = pending
    BY <1>9 DEF PeerRestarts, Fetch, ensureStream, ensureStreamFails, SkipExpired, laneVars
  <1>10. ASSUME StreamFails \/ Tick \/ ReceiveInvalid \/ Close
         PROVE  pending' = <<>>
    BY <1>10 DEF StreamFails, Tick, ReceiveInvalid, closeStream, Close
  <1> HIDE DEF Goal
  <1>11. Goal
    BY <1>2, <1>3, <1>4, <1>5, <1>6, <1>7, <1>8, <1>9, <1>10 DEF LaneNext, LaneStep
  <1> QED BY <1>11 DEF Goal

\* A stream that is still served after a step was so before, unless it has just been opened.
LEMMA StreamServed ==
    ASSUME LaneTypeOK, FramesNumbered, TableKnows, LaneNext, NEW t \in Stream,
           Serving(t)', ~ensureStream
    PROVE  Serving(t)
  BY StreamMoves DEF Stays, Takes, Works, Replies, Opens, Ends, Serving, Handles

\* A request on its way on a stream that is still served after a step is so or is settled.
LEMMA OnItsWaySteps ==
    ASSUME LaneTypeOK, LaneTypeOK', FramesNumbered, TableKnows, LaneNext, NEW t \in Stream,
           Serving(t)', ~ensureStream, NEW a \in Request, OnItsWay(t, a)
    PROVE  Settled(a)' \/ OnItsWay(t, a)'
  <1>1. up[t] \in Seq(Frame) /\ Len(up[t]) \in Nat
    BY DEF LaneTypeOK
  <1>2. InHand(t, a) \/ \E k \in 1 .. Len(up[t]) : up[t][k].req = a
    BY DEF OnItsWay
  <1>3. CASE Stays(t)
    <2>1. Serving(t) /\ (InHand(t, a) => InHand(t, a)')
      BY <1>3 DEF Stays, Serving, Handles, InHand
    <2>2. \A k \in 1 .. Len(up[t]) : k \in 1 .. Len(up'[t]) /\ up'[t][k] = up[t][k]
      <3>1. ASSUME NEW f, up'[t] = Append(up[t], f)
            PROVE  \A k \in 1 .. Len(up[t]) : k \in 1 .. Len(up'[t]) /\ up'[t][k] = up[t][k]
        BY <1>1, <3>1
      <3> QED BY <1>3, <3>1 DEF Stays
    <2> QED BY <1>2, <2>1, <2>2 DEF OnItsWay
  <1>4. CASE Takes(t)
    <2>1. /\ Serving(t) /\ ~InHand(t, a) /\ srv'[t].pc = "got" /\ srv'[t].frame = up[t][1]
          /\ Len(up'[t]) = Len(up[t]) - 1 /\ \A k \in 1 .. Len(up[t]) - 1 : up'[t][k] = up[t][k + 1]
      <3>1. up[t] # <<>> /\ up'[t] = Tail(up[t]) /\ srv'[t].frame = Head(up[t])
        BY <1>4 DEF Takes
      <3>2. /\ Head(up[t]) = up[t][1] /\ Len(Tail(up[t])) = Len(up[t]) - 1
            /\ \A k \in 1 .. Len(up[t]) - 1 : Tail(up[t])[k] = up[t][k + 1]
        BY <1>1, <3>1
      <3>3. Serving(t) /\ ~InHand(t, a) /\ srv'[t].pc = "got"
        BY <1>4 DEF Takes, Serving, Handles, InHand
      <3> QED BY <3>1, <3>2, <3>3
    <2>2. PICK k \in 1 .. Len(up[t]) : up[t][k].req = a
      BY <1>2, <2>1
    <2>3. CASE k = 1
      BY <2>1, <2>2, <2>3 DEF OnItsWay, InHand
    <2>4. CASE k # 1
      <3>1. k - 1 \in 1 .. Len(up'[t]) /\ k - 1 \in 1 .. Len(up[t]) - 1 /\ (k - 1) + 1 = k
        BY <1>1, <2>1, <2>4
      <3>2. up'[t][k - 1].req = a
        BY <2>1, <2>2, <3>1
      <3> QED BY <2>1, <3>1, <3>2 DEF OnItsWay
    <2> QED BY <2>3, <2>4
  <1>5. CASE Works(t)
    <2>1. Serving(t) /\ up'[t] = up[t]
      BY <1>5 DEF Works, Serving, Handles
    <2>2. ASSUME InHand(t, a)
          PROVE  Settled(a)'
      <3>1. srv[t].pc = "got" /\ srv[t].frame.req = a
        BY <2>2 DEF InHand
      <3>2. ~(srv'[t].pc = "reply" /\ srv'[t].result = "refused")
        BY DEF Serving
      <3> QED BY <1>5, <3>1, <3>2 DEF Works, Settled
    <2> QED BY <1>2, <2>1, <2>2 DEF OnItsWay
  <1>6. CASE Replies(t)
    <2>1. Serving(t) /\ up'[t] = up[t] /\ ~InHand(t, a)
      BY <1>6 DEF Replies, Serving, Handles, InHand
    <2> QED BY <1>2, <2>1 DEF OnItsWay
  <1>7. ~Opens(t) /\ ~Ends(t)
    BY DEF Opens, Ends, Serving, Handles
  <1> QED BY <1>3, <1>4, <1>5, <1>6, <1>7, StreamMoves

\* Every step leaves what the window holds settled or on its way.
LEMMA WindowOnItsWayStep ==
    ASSUME LaneTypeOK, LaneTypeOK', OnePlaceEach, TableKnows, FramesNumbered, WindowOnItsWay, LaneNext
    PROVE  WindowOnItsWay'
  <1>1. /\ pending \in Seq(Frame) /\ stream \in 0 .. opened /\ opened \in 0 .. MaxStream
        /\ \A m \in 1 .. Len(pending) : pending[m].req \in Request
    BY CarriedIs DEF LaneTypeOK
  <1>2. ASSUME stream' # 0, Serving(stream)', NEW i \in 1 .. Len(pending')
        PROVE  Settled(pending[i].req)' \/ OnItsWay(stream, pending[i].req)'
    <2>1. PICK r : r = pending'[i].req
      OBVIOUS
    <2>2. ~ensureStream
      <3>1. ASSUME ensureStream
            PROVE  FALSE
        <4>1. stream = 0 /\ pending' = pending
          BY <3>1 DEF ensureStream
        <4>2. pending' = <<>>
          BY <4>1 DEF OnePlaceEach
        <4> QED BY <1>2, <4>2
      <3> QED BY <3>1
    <2>3. PICK t \in Stream : t = stream /\ stream' = stream
      <3>1. stream' = stream /\ stream # 0
        BY <1>2, <2>2, SequenceMoves
      <3> QED BY <1>1, <3>1, LaneBounds DEF Stream
    <2>4. Serving(t)'
      BY <1>2, <2>3 DEF Serving, Handles
    <2>5. Settled(r)' \/ OnItsWay(t, r)'
      <3>1. ASSUME NEW m \in 1 .. Len(pending), r = pending[m].req
            PROVE  Settled(r)' \/ OnItsWay(t, r)'
        <4>1. r \in Request
          BY <1>1, <3>1
        <4>2. ASSUME OnItsWay(t, r)
              PROVE  Settled(r)' \/ OnItsWay(t, r)'
          BY <2>2, <2>4, <4>1, <4>2, OnItsWaySteps
        <4>3. Serving(t)
          BY <2>2, <2>4, StreamServed
        <4>4. Settled(r) \/ OnItsWay(t, r)
          BY <1>2, <2>3, <3>1, <4>3 DEF WindowOnItsWay
        <4> QED BY <4>1, <4>2, <4>4, SettledGrows
      <3>2. ASSUME SendFrame, r = Head(ready)
            PROVE  OnItsWay(t, r)'
        <4>1. PICK frame : frame = [req |-> Head(ready), seq |-> sequence + 1, epoch |-> viewEpoch.client]
          OBVIOUS
        <4>2. up'[t] = Append(up[t], frame) /\ frame.req = r
          <5>1. up' = [up EXCEPT ![stream] = Append(up[stream], frame)] /\ up \in [Stream -> Seq(Frame)]
            BY <3>2, <4>1 DEF SendFrame, LaneTypeOK
          <5> QED BY <2>3, <3>2, <4>1, <5>1
        <4>3. up[t] \in Seq(Frame)
          BY DEF LaneTypeOK
        <4>4. Len(up'[t]) \in 1 .. Len(up'[t]) /\ up'[t][Len(up'[t])] = frame
          BY <4>2, <4>3
        <4> QED BY <4>2, <4>4 DEF OnItsWay
      <3> QED BY <2>1, <3>1, <3>2, PendingComes
    <2> QED BY <2>1, <2>3, <2>5 DEF Settled, OnItsWay, InHand
  <1> QED BY <1>2 DEF WindowOnItsWay

\* A frame the lane sends has before it, on the stream or behind it, all reliable requests
\* that came first, unless they are settled.
LEMMA SentBehind ==
    ASSUME LaneTypeOK, CarriedInOrder, WindowOnItsWay, SendFrame, Serving(stream),
           NEW a \in reliable, Head(ready) \in reliable, a < Head(ready)
    PROVE  Settled(a) \/ OnItsWay(stream, a)
  <1>1. ready \in Seq(Request) /\ ready # <<>> /\ stream # 0
    BY DEF SendFrame, LaneTypeOK
  <1>2. Head(ready) = ready[1] /\ 1 \in 1 .. Len(ready)
    BY <1>1
  <1>3. /\ Len(carried) = Len(pending) + Len(ready) /\ Len(pending) \in Nat /\ Len(ready) \in Nat
        /\ \A p \in 1 .. Len(pending) : carried[p] = pending[p].req
        /\ carried[Len(pending) + 1] = ready[1]
    BY <1>2, CarriedIs
  <1>4. Len(pending) + 1 \in 1 .. Len(carried) /\ (Len(pending) + 1) - 1 = Len(pending)
    BY <1>2, <1>3
  <1>5. Settled(a) \/ \E p \in 1 .. (Len(pending) + 1) - 1 : carried[p] = a
    BY <1>2, <1>3, <1>4 DEF CarriedInOrder
  <1>6. \A p \in 1 .. Len(pending) : pending[p].req = a => Settled(a) \/ OnItsWay(stream, a)
    BY <1>1 DEF WindowOnItsWay
  <1> QED BY <1>3, <1>4, <1>5, <1>6

\* Every step keeps the order of the frames under way.
LEMMA UnderWayInOrderStep ==
    ASSUME LaneTypeOK, LaneTypeOK', CallsInOrder, OnePlaceEach, TableKnows, FramesNumbered, OnlyCalled,
           CarriedInOrder, WindowOnItsWay, UnderWayInOrder, LaneNext
    PROVE  UnderWayInOrder'
  <1>1. /\ reliable \subseteq Request /\ up \in [Stream -> Seq(Frame)]
        /\ \A s \in Stream : up[s] \in Seq(Frame) /\ Len(up[s]) \in Nat
    <2>1. reliable \subseteq Request /\ up \in [Stream -> Seq(Frame)]
      BY DEF LaneTypeOK
    <2>2. \A s \in Stream : up[s] \in Seq(Frame)
      BY <2>1
    <2> QED BY <2>1, <2>2
  <1>2. \A a \in reliable : Settled(a) => Settled(a)'
    BY <1>1, SettledGrows
  <1> DEFINE Behind(t, k, a) == Settled(a)' \/ InHand(t, a)' \/ \E j \in 1 .. k - 1 : up'[t][j].req = a
  <1>3. ASSUME NEW t \in Stream, Serving(t)', NEW k \in 1 .. Len(up'[t]), NEW a \in reliable,
               up'[t][k].req \in reliable, a < up'[t][k].req
        PROVE  Behind(t, k, a)
    <2>1. CASE Stays(t)
      <3>1. Serving(t) /\ (InHand(t, a) => InHand(t, a)')
        BY <1>3, <2>1 DEF Stays, Serving, Handles, InHand
      <3>2. CASE up'[t] = up[t]
        BY <1>2, <1>3, <3>1, <3>2 DEF UnderWayInOrder
      <3>3. ASSUME SendFrame, t = stream, NEW f, f.req = Head(ready), up'[t] = Append(up[t], f)
            PROVE  Behind(t, k, a)
        <4>1. /\ Len(up'[t]) = Len(up[t]) + 1 /\ up'[t][Len(up[t]) + 1] = f
              /\ \A j \in 1 .. Len(up[t]) : up'[t][j] = up[t][j]
          BY <1>1, <3>3
        <4>2. CASE k \in 1 .. Len(up[t])
          <5>1. Settled(a) \/ InHand(t, a) \/ \E j \in 1 .. k - 1 : up[t][j].req = a
            BY <1>3, <3>1, <4>1, <4>2 DEF UnderWayInOrder
          <5>2. \A j \in 1 .. k - 1 : j \in 1 .. Len(up[t])
            BY <1>1, <4>2
          <5> QED BY <1>2, <1>3, <3>1, <4>1, <5>1, <5>2
        <4>3. CASE k = Len(up[t]) + 1
          <5>1. Settled(a) \/ InHand(t, a) \/ \E j \in 1 .. Len(up[t]) : up[t][j].req = a
            BY <1>3, <3>1, <3>3, <4>1, <4>3, SentBehind DEF OnItsWay
          <5>2. \A j \in 1 .. Len(up[t]) : j \in 1 .. k - 1
            BY <1>1, <4>3
          <5> QED BY <1>2, <1>3, <3>1, <4>1, <5>1, <5>2
        <4>4. k \in 1 .. Len(up[t]) \/ k = Len(up[t]) + 1
          BY <1>1, <4>1
        <4> QED BY <4>2, <4>3, <4>4
      <3>4. PICK f : f = [req |-> Head(ready), seq |-> sequence + 1, epoch |-> viewEpoch.client]
        OBVIOUS
      <3>5. f.req = Head(ready)
        BY <3>4
      <3> HIDE DEF Behind
      <3> QED BY <2>1, <3>2, <3>3, <3>4, <3>5 DEF Stays
    <2>2. CASE Takes(t)
      <3>1. /\ Serving(t) /\ ~InHand(t, a) /\ srv'[t].pc = "got" /\ srv'[t].frame = up[t][1]
            /\ Len(up'[t]) = Len(up[t]) - 1 /\ \A j \in 1 .. Len(up[t]) - 1 : up'[t][j] = up[t][j + 1]
        <4>1. up[t] # <<>> /\ up'[t] = Tail(up[t]) /\ srv'[t].frame = Head(up[t])
          BY <2>2 DEF Takes
        <4>2. /\ Head(up[t]) = up[t][1] /\ Len(Tail(up[t])) = Len(up[t]) - 1
              /\ \A j \in 1 .. Len(up[t]) - 1 : Tail(up[t])[j] = up[t][j + 1]
          BY <1>1, <4>1
        <4>3. Serving(t) /\ ~InHand(t, a) /\ srv'[t].pc = "got"
          BY <2>2 DEF Takes, Serving, Handles, InHand
        <4> QED BY <4>1, <4>2, <4>3
      <3>2. k \in Int /\ k + 1 \in 1 .. Len(up[t]) /\ up'[t][k] = up[t][k + 1] /\ (k + 1) - 1 = k
        BY <1>1, <3>1
      <3>3. Settled(a) \/ InHand(t, a) \/ \E j \in 1 .. (k + 1) - 1 : up[t][j].req = a
        BY <1>3, <3>1, <3>2 DEF UnderWayInOrder
      <3>4. ASSUME NEW j \in 1 .. k, up[t][j].req = a
            PROVE  Behind(t, k, a)
        <4>1. CASE j = 1
          BY <3>1, <3>4, <4>1 DEF InHand
        <4>2. CASE j # 1
          <5>1. j - 1 \in 1 .. k - 1 /\ j - 1 \in 1 .. Len(up[t]) - 1 /\ (j - 1) + 1 = j
            BY <1>1, <3>2, <4>2
          <5>2. up'[t][j - 1].req = a
            BY <3>1, <3>4, <5>1
          <5> QED BY <5>1, <5>2
        <4> QED BY <4>1, <4>2
      <3> QED BY <1>2, <3>1, <3>2, <3>3, <3>4
    <2>3. CASE Works(t)
      <3>1. Serving(t) /\ up'[t] = up[t]
        BY <2>3 DEF Works, Serving, Handles
      <3>2. ASSUME InHand(t, a)
            PROVE  Settled(a)'
        <4>1. srv[t].pc = "got" /\ srv[t].frame.req = a
          BY <3>2 DEF InHand
        <4>2. ~(srv'[t].pc = "reply" /\ srv'[t].result = "refused")
          BY <1>3 DEF Serving
        <4> QED BY <2>3, <4>1, <4>2 DEF Works, Settled
      <3> QED BY <1>2, <1>3, <3>1, <3>2 DEF UnderWayInOrder
    <2>4. CASE Replies(t)
      <3>1. Serving(t) /\ up'[t] = up[t] /\ ~InHand(t, a)
        BY <1>3, <2>4 DEF Replies, Serving, Handles, InHand
      <3> QED BY <1>2, <1>3, <3>1 DEF UnderWayInOrder
    <2>5. ~Opens(t)
      <3>1. ASSUME Opens(t)
            PROVE  up'[t] = <<>>
        <4>1. t > opened /\ up'[t] = up[t]
          BY <3>1, LaneBounds DEF Opens, LaneTypeOK
        <4> QED BY <4>1 DEF FramesNumbered
      <3> QED BY <1>3, <3>1
    <2>6. ~Ends(t)
      BY <1>3 DEF Ends, Serving, Handles
    <2> HIDE DEF Behind
    <2> QED BY <2>1, <2>2, <2>3, <2>4, <2>5, <2>6, StreamMoves
  <1>4. ASSUME NEW t \in Stream, NEW k \in 1 .. Len(up'[t]), NEW a \in reliable',
               up'[t][k].req \in reliable', a < up'[t][k].req
        PROVE  a \in reliable /\ up'[t][k].req \in reliable
    <2>1. call[up'[t][k].req] # "new"
      <3>1. CASE \E j \in 1 .. Len(up[t]) : up'[t][k] = up[t][j]
        BY <3>1 DEF OnlyCalled
      <3>2. CASE ready # <<>> /\ up'[t][k].req = Head(ready)
        <4>1. ready \in Seq(Request)
          BY DEF LaneTypeOK
        <4>2. Head(ready) = ready[1] /\ 1 \in 1 .. Len(ready) /\ ready[1] \in Request
          BY <3>2, <4>1
        <4>3. Len(pending) + 1 \in 1 .. Len(carried) /\ carried[Len(pending) + 1] = ready[1]
          BY <4>2, CarriedIs
        <4> QED BY <3>2, <4>2, <4>3 DEF OnePlaceEach, IsCarried
      <3> QED BY <3>1, <3>2, FramesCome
    <2> QED BY <1>4, <2>1, ReliableSteps
  <1> QED BY <1>3, <1>4 DEF UnderWayInOrder

\* Every step keeps the order of what the peer has in its hands.
LEMMA TakenInOrderStep ==
    ASSUME LaneTypeOK, LaneTypeOK', CallsInOrder, TableKnows, FramesNumbered, OnlyCalled,
           UnderWayInOrder, TakenInOrder, LaneNext
    PROVE  TakenInOrder'
  <1>1. reliable \subseteq Request /\ up \in [Stream -> Seq(Frame)]
    BY DEF LaneTypeOK
  <1>2. \A a \in reliable : Settled(a) => Settled(a)'
    BY <1>1, SettledGrows
  <1>3. ASSUME NEW t \in Stream, srv'[t].pc = "got", NEW a \in reliable',
               srv'[t].frame.req \in reliable', a < srv'[t].frame.req
        PROVE  Settled(a)'
    <2>1. CASE Stays(t)
      <3>1. srv[t].pc = "got" /\ srv'[t].frame = srv[t].frame
        BY <1>3, <2>1 DEF Stays
      <3>2. call[srv[t].frame.req] # "new"
        BY <3>1 DEF OnlyCalled, Holding
      <3>3. a \in reliable /\ srv[t].frame.req \in reliable
        BY <1>3, <3>1, <3>2, ReliableSteps
      <3> QED BY <1>2, <1>3, <3>1, <3>3 DEF TakenInOrder
    <2>2. CASE Takes(t)
      <3>1. Serving(t) /\ ~InHand(t, a)
        BY <2>2 DEF Takes, Serving, Handles, InHand
      <3>2. srv'[t].frame = up[t][1] /\ 1 \in 1 .. Len(up[t])
        <4>1. up[t] # <<>> /\ srv'[t].frame = Head(up[t]) /\ up[t] \in Seq(Frame)
          BY <1>1, <2>2 DEF Takes
        <4> QED BY <4>1
      <3>3. call[up[t][1].req] # "new"
        BY <3>2 DEF OnlyCalled
      <3>4. a \in reliable /\ up[t][1].req \in reliable
        BY <1>3, <3>2, <3>3, ReliableSteps
      <3>5. Settled(a) \/ InHand(t, a) \/ \E j \in 1 .. 1 - 1 : up[t][j].req = a
        BY <1>3, <3>1, <3>2, <3>4 DEF UnderWayInOrder
      <3> QED BY <1>2, <3>1, <3>4, <3>5
    <2> QED BY <1>3, <2>1, <2>2, StreamMoves DEF Works, Replies, Opens, Ends
  <1> QED BY <1>3 DEF TakenInOrder

\* Every step keeps the order of the log.
LEMMA LoggedInOrderStep ==
    ASSUME LaneTypeOK, LaneTypeOK', CallsInOrder, FramesNumbered, OnlyCalled,
           TakenInOrder, LoggedInOrder, LaneNext
    PROVE  LoggedInOrder'
  <1>1. /\ reliable \subseteq Request /\ Len(log) \in Nat
        /\ \A j \in 1 .. Len(log) : log[j][1] \in Ran /\ call[log[j][1]] # "new"
    <2>1. log \in Seq(Request \X Nat) /\ reliable \subseteq Request
      BY DEF LaneTypeOK
    <2>2. \A j \in 1 .. Len(log) : log[j][1] \in Ran
      BY DEF Ran
    <2> QED BY <2>1, <2>2 DEF OnlyCalled
  <1>2. \A a \in reliable : call[a] = "error" \/ a \in turnedAway => call'[a] = "error" \/ a \in turnedAway'
    BY <1>1, CallsGrow, TurnedAwayGrows
  <1>3. \A j \in 1 .. Len(log) : \A a \in reliable' :
            log[j][1] \in reliable' /\ a < log[j][1] => a \in reliable /\ log[j][1] \in reliable
    BY <1>1, ReliableSteps
  <1>4. ASSUME log' = log
        PROVE  LoggedInOrder'
    BY <1>2, <1>3, <1>4 DEF LoggedInOrder
  <1>5. ASSUME NEW s \in Stream, ExecuteStarts(s)
        PROVE  LoggedInOrder'
    <2>1. /\ Len(log') = Len(log) + 1 /\ \A i \in 1 .. Len(log) : log'[i] = log[i]
          /\ log'[Len(log) + 1] = <<srv[s].frame.req, inst>> /\ srv[s].frame.req \in Request
      BY <1>5, LogAppends
    <2>2. ASSUME NEW j \in 1 .. Len(log'), NEW a \in reliable', log'[j][1] \in reliable', a < log'[j][1]
          PROVE  call'[a] = "error" \/ a \in turnedAway' \/ \E i \in 1 .. j - 1 : log'[i][1] = a
      <3>1. CASE j \in 1 .. Len(log)
        <4>1. a \in reliable /\ log[j][1] \in reliable /\ a < log[j][1]
          BY <1>3, <2>1, <2>2, <3>1
        <4>2. call[a] = "error" \/ a \in turnedAway \/ \E i \in 1 .. j - 1 : log[i][1] = a
          BY <3>1, <4>1 DEF LoggedInOrder
        <4>3. \A i \in 1 .. j - 1 : i \in 1 .. Len(log)
          BY <1>1, <3>1
        <4> QED BY <1>2, <2>1, <4>1, <4>2, <4>3
      <3>2. CASE j = Len(log) + 1
        <4>1. log'[j][1] = srv[s].frame.req /\ srv[s].pc = "got"
          BY <1>5, <2>1, <3>2 DEF ExecuteStarts
        <4>2. call[srv[s].frame.req] # "new"
          BY <4>1 DEF OnlyCalled, Holding
        <4>3. a \in reliable /\ srv[s].frame.req \in reliable /\ a < srv[s].frame.req
          BY <2>2, <4>1, <4>2, ReliableSteps
        <4>4. Settled(a)
          BY <4>1, <4>3 DEF TakenInOrder
        <4>5. ASSUME NEW i \in 1 .. Len(log), log[i][1] = a
              PROVE  \E m \in 1 .. j - 1 : log'[m][1] = a
          <5>1. i \in 1 .. j - 1
            BY <1>1, <3>2
          <5> QED BY <2>1, <4>5, <5>1
        <4> QED BY <1>2, <4>3, <4>4, <4>5 DEF Settled, Ran
      <3>3. j \in 1 .. Len(log) \/ j = Len(log) + 1
        BY <1>1, <2>1
      <3> QED BY <3>1, <3>2, <3>3
    <2> QED BY <2>2 DEF LoggedInOrder
  <1>6. ASSUME ~\E s \in Stream : ExecuteStarts(s)
        PROVE  log' = log
    BY <1>6, TableSteps DEF ExecuteWindowFull, ExecuteEnds, TTLPasses, PeerRestarts, Elsewhere
  <1> QED BY <1>4, <1>5, <1>6

-----------------------------------------------------------------------------
\* The initial states satisfy the invariant: the lane is empty, no stream is open.
LEMMA LaneInvInit == LaneInit => LaneInv
  <1> SUFFICES ASSUME LaneInit
               PROVE  LaneInv
    OBVIOUS
  <1>1. /\ N \in Nat /\ QueueCap \in Nat /\ Window \in Nat /\ DedupeCap \in Nat
        /\ MaxRetries \in Nat /\ MaxStream \in Nat
    BY LaneBounds
  <1>2. /\ call = [r \in Request |-> "new"] /\ reliable = {} /\ expired = {}
        /\ reliableQueue = <<>> /\ ephemeralQueue = <<>> /\ ready = <<>> /\ pending = <<>>
        /\ attempts = [r \in Request |-> 0] /\ started = {} /\ stream = 0 /\ opened = 0
        /\ up = [s \in Stream |-> <<>>] /\ down = [s \in Stream |-> <<>>] /\ cut = {}
        /\ srv = [s \in Stream |-> Handler("off")] /\ dedupe = [r \in Request |-> "none"]
        /\ inst = 1 /\ log = <<>> /\ succeeded = {} /\ turnedAway = {}
    BY DEF LaneInit
  <1>3. Handler("off") \in SrvType /\ Handler("off").pc = "off" /\ Handler("off").result = "none"
    BY DEF Handler, SrvType
  <1>4. CallTypes
    BY <1>2 DEF CallTypes
  <1>5. QueueTypes
    <2>1. <<>> \in Seq(Request) /\ Len(<<>>) = 0
      OBVIOUS
    <2> QED BY <1>1, <1>2, <2>1 DEF QueueTypes
  <1>6. CarryTypes
    <2>1. <<>> \in Seq(Request) /\ <<>> \in Seq(Frame) /\ Len(<<>>) = 0
      OBVIOUS
    <2> QED BY <1>1, <1>2, <2>1 DEF CarryTypes
  <1>7. StreamTypes
    <2>1. viewEpoch \in [{"client", "server"} -> Nat]
      BY DEF LaneInit
    <2>2. stream = 0 /\ opened = 0 /\ sequence = 0 /\ closed = FALSE
      BY DEF LaneInit
    <2>3. 0 \in 0 .. 0 /\ 0 \in 0 .. MaxStream /\ 0 \in Nat /\ FALSE \in BOOLEAN
      BY <1>1
    <2> QED BY <2>1, <2>2, <2>3 DEF StreamTypes
  <1>8. FrameTypes
    <2> DEFINE Reply == [req : Request, seq : Nat, epoch : Nat, result : Result]
    <2> HIDE DEF Reply
    <2>1. <<>> \in Seq(Reply) /\ <<>> \in Seq(Frame)
      OBVIOUS
    <2>2. up \in [Stream -> Seq(Frame)] /\ down \in [Stream -> Seq(Reply)] /\ cut \subseteq Stream
      BY <1>2, <2>1
    <2> QED BY <2>2 DEF FrameTypes, Reply
  <1>9. TableTypes
    <2>1. <<>> \in Seq(Request \X Nat)
      OBVIOUS
    <2> QED BY <1>2, <1>3, <2>1 DEF TableTypes
  <1>10. TableFits
    <2>1. Entries = {}
      BY <1>2 DEF Entries
    <2>2. Cardinality({}) = 0
      BY FS_EmptySet
    <2> QED BY <1>1, <2>1, <2>2 DEF TableFits
  <1>11. LaneTypeOK
    BY <1>4, <1>5, <1>6, <1>7, <1>8, <1>9, <1>10, PartsOfTypes DEF LaneParts
  <1>12. /\ Len(carried) = 0 /\ Len(reliableQueue) = 0 /\ Len(ephemeralQueue) = 0
         /\ Len(ready) = 0 /\ Len(pending) = 0 /\ Len(log) = 0
         /\ \A s \in Stream : srv[s] = Handler("off") /\ up[s] = <<>> /\ Len(up[s]) = 0 /\ Len(down[s]) = 0
    <2>1. Len(ready) = 0 /\ Len(pending) = 0
      BY <1>2
    <2>2. Len(carried) = 0
      BY <1>11, <2>1, CarriedIs
    <2> QED BY <1>2, <2>1, <2>2
  <1>13. \A r \in Request : ~IsCarried(r) /\ ~InReliable(r) /\ ~InEphemeral(r) /\ call[r] = "new"
    BY <1>2, <1>12 DEF IsCarried, InReliable, InEphemeral
  <1>14. CallsInOrder
    BY <1>2 DEF CallsInOrder
  <1>15. OnePlaceEach
    BY <1>2, <1>12, <1>13 DEF OnePlaceEach
  <1>16. AttemptsLeft
    BY <1>2, <1>12 DEF AttemptsLeft
  <1>17. Ran = {}
    BY <1>12 DEF Ran
  <1>18. TableKnows
    <2>1. \A r \in Request : ~Live(r)
      BY <1>2 DEF Live
    <2> QED BY <1>3, <1>12, <2>1 DEF TableKnows
  <1>19. NoEarlyRepeat
    <2>1. DOMAIN log = {}
      BY <1>2
    <2> QED BY <2>1 DEF NoEarlyRepeat
  <1>20. ResultsAreTrue
    BY <1>2, <1>3, <1>12 DEF ResultsAreTrue
  <1>21. OkMeansExecuted
    BY <1>2 DEF OkMeansExecuted
  <1>22. FramesNumbered
    <2>1. \A s \in Stream : s > opened
      BY <1>1, <1>2 DEF Stream
    <2>2. \A s \in Stream : ~Holding(s) /\ ~Handles(s) /\ srv[s].pc = "off"
      BY <1>3, <1>12 DEF Holding, Handles
    <2>3. stream = 0
      BY <1>2
    <2> QED BY <1>12, <2>1, <2>2, <2>3 DEF FramesNumbered
  <1>23. FramesInSequence /\ OnlyCalled /\ UnderWayInOrder /\ TakenInOrder
    BY <1>3, <1>12, <1>17 DEF FramesInSequence, OnlyCalled, UnderWayInOrder, TakenInOrder, Holding
  <1>24. KeptOrSettled /\ QueuedInOrder /\ CarriedInOrder /\ WindowOnItsWay /\ LoggedInOrder
    BY <1>2 DEF KeptOrSettled, QueuedInOrder, CarriedInOrder, WindowOnItsWay, LoggedInOrder
  <1> QED BY <1>11, <1>14, <1>15, <1>16, <1>18, <1>19, <1>20, <1>21, <1>22, <1>23, <1>24 DEF LaneInv

\* Nothing changes in a stuttering step.
LEMMA LaneInvStutter ==
    ASSUME LaneInv, UNCHANGED laneAll
    PROVE  LaneInv'
  <1>1. /\ call' = call /\ reliable' = reliable /\ expired' = expired /\ reliableQueue' = reliableQueue
        /\ ephemeralQueue' = ephemeralQueue /\ ready' = ready /\ pending' = pending /\ attempts' = attempts
        /\ started' = started /\ stream' = stream /\ opened' = opened /\ sequence' = sequence
        /\ closed' = closed /\ viewEpoch' = viewEpoch
    BY DEF laneAll, callVars, queueVars, laneVars
  <1>2. /\ up' = up /\ down' = down /\ cut' = cut /\ srv' = srv /\ dedupe' = dedupe /\ inst' = inst
        /\ log' = log /\ succeeded' = succeeded /\ turnedAway' = turnedAway
    BY DEF laneAll, netVars, peerVars
  <1>3. LaneTypeOK' <=> LaneTypeOK
    BY <1>1, <1>2 DEF LaneTypeOK, Entries
  <1>4. /\ carried' = carried /\ Ran' = Ran
        /\ \A r : IsCarried(r)' <=> IsCarried(r)
        /\ \A r : InReliable(r)' <=> InReliable(r)
        /\ \A r : InEphemeral(r)' <=> InEphemeral(r)
        /\ \A r : Settled(r)' <=> Settled(r)
    BY <1>1, <1>2 DEF carried, pendingRequests, IsCarried, InReliable, InEphemeral, Ran, Settled
  <1>5. CallsInOrder' /\ OnePlaceEach' /\ AttemptsLeft'
    BY <1>1, <1>4 DEF LaneInv, CallsInOrder, OnePlaceEach, AttemptsLeft
  <1>6. TableKnows' /\ NoEarlyRepeat' /\ ResultsAreTrue' /\ OkMeansExecuted'
    BY <1>1, <1>2, <1>4 DEF LaneInv, TableKnows, Live, NoEarlyRepeat, ResultsAreTrue, OkMeansExecuted
  <1>7. FramesNumbered' /\ FramesInSequence' /\ OnlyCalled'
    BY <1>1, <1>2, <1>4 DEF LaneInv, FramesNumbered, FramesInSequence, OnlyCalled, Holding, Handles, Before
  <1>8. KeptOrSettled' /\ QueuedInOrder' /\ CarriedInOrder'
    BY <1>1, <1>4 DEF LaneInv, KeptOrSettled, QueuedInOrder, CarriedInOrder
  <1>9. UnderWayInOrder' /\ TakenInOrder' /\ LoggedInOrder' /\ WindowOnItsWay'
    BY <1>1, <1>2, <1>4 DEF LaneInv, UnderWayInOrder, TakenInOrder, LoggedInOrder, WindowOnItsWay,
                            Serving, Handles, InHand, OnItsWay
  <1> QED BY <1>3, <1>5, <1>6, <1>7, <1>8, <1>9 DEF LaneInv

\* Every step keeps the invariant.
LEMMA LaneInvStep == LaneInv /\ [LaneNext]_laneAll => LaneInv'
  <1> SUFFICES ASSUME LaneInv, LaneNext
               PROVE  LaneInv'
    BY LaneInvStutter
  <1>1. /\ LaneTypeOK /\ CallsInOrder /\ OnePlaceEach /\ AttemptsLeft
        /\ TableKnows /\ NoEarlyRepeat /\ ResultsAreTrue /\ OkMeansExecuted
        /\ FramesNumbered /\ FramesInSequence /\ OnlyCalled
        /\ KeptOrSettled /\ QueuedInOrder /\ CarriedInOrder /\ WindowOnItsWay
        /\ UnderWayInOrder /\ TakenInOrder /\ LoggedInOrder
    BY DEF LaneInv
  <1>2. LaneTypeOK'
    BY <1>1, LaneTypesStep
  <1>3. CallsInOrder' /\ OnePlaceEach' /\ AttemptsLeft'
    BY <1>1, <1>2, CallsInOrderStep, OnePlaceEachStep, AttemptsLeftStep
  <1>4. TableKnows' /\ NoEarlyRepeat'
    BY <1>1, <1>2, TableKnowsStep, NoEarlyRepeatStep
  <1>5. ResultsAreTrue' /\ OkMeansExecuted'
    BY <1>1, <1>2, ResultsAreTrueStep, OkMeansExecutedStep
  <1>6. FramesNumbered' /\ FramesInSequence'
    BY <1>1, <1>2, FramesNumberedStep, FramesInSequenceStep
  <1>7. OnlyCalled'
    BY <1>1, <1>2, <1>6, OnlyCalledStep
  <1>8. KeptOrSettled' /\ QueuedInOrder'
    BY <1>1, <1>2, <1>5, KeptOrSettledStep, QueuedInOrderStep
  <1>9. CarriedInOrder' /\ WindowOnItsWay'
    BY <1>1, <1>2, <1>5, CarriedInOrderStep, WindowOnItsWayStep
  <1>10. UnderWayInOrder' /\ TakenInOrder' /\ LoggedInOrder'
    BY <1>1, <1>2, UnderWayInOrderStep, TakenInOrderStep, LoggedInOrderStep
  <1> QED BY <1>2, <1>3, <1>4, <1>5, <1>6, <1>7, <1>8, <1>9, <1>10 DEF LaneInv

\* The invariant implies what is checked of the lane.
LEMMA LaneInvImplies ==
    ASSUME LaneInv
    PROVE  LaneTypeOK /\ NoEarlyRepeat /\ OkMeansExecuted /\ LaneInOrder /\ NothingLeaks
  <1>1. LaneTypeOK /\ NoEarlyRepeat /\ OkMeansExecuted /\ FramesInSequence /\ LoggedInOrder /\ OnePlaceEach
    BY DEF LaneInv
  <1>2. ExecutedInOrder
    <2>1. ASSUME NEW a \in reliable, NEW b \in reliable, a < b, call[a] = "ok", a \notin turnedAway,
                 NEW j \in DOMAIN log, log[j][1] = b
          PROVE  \E i \in 1 .. j - 1 : log[i][1] = a
      <3>1. log \in Seq(Request \X Nat)
        BY <1>1 DEF LaneTypeOK
      <3>2. j \in 1 .. Len(log)
        BY <3>1
      <3> QED BY <1>1, <2>1, <3>2 DEF LoggedInOrder
    <2> QED BY <2>1 DEF ExecutedInOrder
  <1>3. NothingLeaks
    <2>1. ASSUME ready = <<>>, pending = <<>>
          PROVE  inFlight = 0
      <3>1. Len(ready) = 0 /\ Len(pending) = 0
        BY <2>1
      <3>2. Len(carried) = 0
        BY <1>1, <3>1, CarriedIs
      <3>3. started = {}
        BY <1>1, <3>2 DEF OnePlaceEach, IsCarried
      <3>4. Cardinality({}) = 0
        BY FS_EmptySet
      <3> QED BY <3>3, <3>4 DEF inFlight
    <2> QED BY <2>1 DEF NothingLeaks
  <1> QED BY <1>1, <1>2, <1>3 DEF LaneInOrder

\* The lane keeps its types and the limits of its queues, its window, its retries and the
\* table of executed requests (cluster_peer.go, cluster_dedupe.go).
THEOREM LaneIsTyped == LaneSpec => []LaneTypeOK
  BY LaneInvInit, LaneInvStep, LaneInvImplies, PTL DEF LaneSpec

\* However streams break and requests are retried, a process of the peer executes a request
\* again only when its deadline has passed (clusterDedupeCache.Execute).
THEOREM NothingRepeatsEarly == LaneSpec => []NoEarlyRepeat
  BY LaneInvInit, LaneInvStep, LaneInvImplies, PTL DEF LaneSpec

\* A reliable call that returns without an error was executed without an error
\* (finishRequest, retryRequests, Execute).
THEOREM OkIsExecuted == LaneSpec => []OkMeansExecuted
  BY LaneInvInit, LaneInvStep, LaneInvImplies, PTL DEF LaneSpec

\* Frames arrive in sequence, and reliable calls that succeed were executed in the order in
\* which they entered the lane, unless the earlier one once met a full table (runPipeline,
\* retryRequests, Lane).
THEOREM LaneKeepsOrder == LaneSpec => []LaneInOrder
  BY LaneInvInit, LaneInvStep, LaneInvImplies, PTL DEF LaneSpec

\* A lane that holds no request counts none in flight (inFlight, waitForReliableDrain).
THEOREM NothingIsLeaked == LaneSpec => []NothingLeaks
  BY LaneInvInit, LaneInvStep, LaneInvImplies, PTL DEF LaneSpec

=============================================================================
