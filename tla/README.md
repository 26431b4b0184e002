# Verification of the chat server

The server is a Go program (`internal/server`, about 38 000 lines without tests) that keeps
chat topics in memory, persists messages in a SQL or document database, and runs either alone
or as a cluster of nodes. In a cluster etcd holds the membership, every topic has one owner
node chosen by consistent hashing over the current members, and the database refuses writes
of former owners by means of a fencing epoch. Around that core run services of their own:
sessions and their queues, uploads and file jobs, push notifications, scheduled messages, calls,
group membership. This directory holds TLA+ models of the core and of these services, the TLC
configurations that check them on small instances, and TLAPS proofs of what matters most for
every instance.

## Inventory

| Component | State | Operations | Talks to |
|---|---|---|---|
| etcd control plane (`cluster_control_plane*.go`) | lease, member record, current view, `viewApplied`, `leaseAlive`, `draining`, `lastViewRefresh` | Start/register, keepAliveLoop and recoverLease, watchKeyLoop (members, topology), refreshLoop, refreshView, BeginDrain, ChangeTopology, ClaimTask, Close | etcd transactions; calls `applyControlPlaneView` |
| view application and owner fencing (`cluster_membership.go`, `cluster_routing.go`) | `c.ring`, `c.viewEpoch` (two atomics) | applyControlPlaneView, rehash, writeFenceToken, isRemoteTopic, nodeForTopic | the database fence row; `hub.rehash` channel |
| cluster life cycle (`cluster_lifecycle.go`) | the Cluster object, its transport, workers | clusterInit, start, shutdown, waitForReliableDrain, claimScheduledTask, changeTopology | control plane, transport, health |
| service health (`service_health.go`, `http.go`) | starting, serving, draining, stopped; cached dependency probes | MarkServing, BeginDrain, AllowsWrites, probes; the shutdown sequence of listenAndServe | control plane `Ready` |
| hub and topic life cycle (`hub.go`, `init_topic.go`, `topic.go`) | map of topics; a goroutine, status flags and channels per topic | join, topicInit, unregister, rehash, delete, suspend, shutdown | sessions, store, user cache |
| publish path (`topic_msg.go`, store, adapters) | `t.lastID`; topic row (seqid, owner, epoch), message table with unique keys | saveAndBroadcastMessage, MessageSaveAtomic, MessageGetByClientId, ClusterFenceAdvance | writeFenceToken, database |
| cluster transport (`cluster_transport_*.go`) | lanes with a queue, a window of unanswered frames, sequence numbers; table of executed requests | Call, runPipeline, retryRequests, Lane (server), dedupe Execute, eviction | peers over gRPC |
| proxy topics and multiplexed sessions (`cluster_handlers.go`, `cluster_sessions.go`, `topic_proxy.go`) | proxy session per remote node and topic | TopicMaster, TopicProxy, Route, UserCacheUpdate | transport, hub |
| legacy leader election (`cluster_leader.go`) | leader, term, missed heartbeats, failed nodes | heartbeat, vote, fail-over rehash | transport |
| sessions (`session*.go`) | send queue, resume token and replay buffer, subscriptions | dispatch, queueOut, detach/resume, stop | topics, front ends |
| subscriptions, roles, metadata (`topic_sub*.go`, `topic_meta*.go`, `topic_roles.go`) | `perUser`, access modes, owner, read/receive/delete marks | join, leave, invite, set mode, ownership transfer, delete ranges | store, presence |
| presence (`pres.go`, `topic_pres.go`) | `perSubs` online flags | presSubsOnline, presUsersOfInterest, presProcReq | topics |
| user cache and push (`user_cache.go`, `push.go`) | unread counters, push outbox | cache updates with queued reads, push dispatch | push adapters |
| scheduled messages (`scheduled_messages.go`, `message_schedule.go`) | pending rows, task claim | schedule, claim, deliver, remove | ClaimTask, publish path |
| calls (`calls.go`) | current call of a topic, establishment timer | invite, ringing, accept, hang-up, timeout | topic |
| uploads and file processing (`hdl_file*.go`, `resumable_*.go`, `file_processing*.go`) | upload lease and parts, processing jobs | create, append, complete, abort; claim, retry | media storage, store |
| official topics, business policy, administration | join requests, reports, policies | request handlers | store |
| pure algorithms | none | ring hash, unread ranges, drafty plain text, range normalisation | - |

Front ends, wire formats, plug-ins, configuration, statistics and command line tools carry no
state machine of their own beyond these. `PROJECT.json` lists every component with its status.

What makes this system hard:

* **Three sources of truth.** etcd decides membership, the database fence decides who may
  write, and ring and epoch in memory decide who tries. They change one after the other, in
  every process at its own pace, while publishes run.
* **Epochs from surviving keys.** The epoch of a view is the largest revision among keys that
  still exist. A deleted key takes its revision away, so the epoch of a snapshot can repeat or
  fall; the marker key raised by the Watch loops repairs that, later.
* **Two instances of one name.** After a restart or a partition two processes may bear one node
  name, and the database compares names only.
* **Instances dropped, not stopped.** The Hub forgets a topic without waiting for the goroutine
  that may have a transaction under way.
* **Lost answers.** A commit can succeed and be reported as an error; clients retry with the
  same client id, on any node.

The properties that make the components correct are listed with the runs below; the hazards,
each at its line, are in `PROJECT.json`.

## Modules

| Module | Models | State |
|---|---|---|
| `ClusterControlPlane` | the etcd control plane of every process and the etcd keys it shares | `rev`, `member`, `topo`, `marker` (etcd); `fence` (database); `leaseAlive`, `viewApplied`, `view`, `refresh`, `ring`, `viewEpoch`, `seen`, `drain`, `change` per process |
| `EpochFence` | what the publish path relies on, without etcd | `fence`, `alive`, `ring`, `viewEpoch`, `apply` |
| `FencedTopics` | Hub topic instances, `saveAndBroadcastMessage`, `MessageSaveAtomic`, over `EpochFence` | `row`, `messages`, `topics`, `pubs`, `acked`, `hubBusy`, `lost` |
| `ServerCore` | `ClusterControlPlane` and the steps of `FencedTopics` in the same processes | those of both, without `alive` and `apply` |
| `TopicLog` | what clients rely on: one growing log per topic | `log`, `acked` |
| `ClusterLane` | one lane of the cluster transport: callers, the lane's goroutine, its streams, the handlers and the deduplication table of the peer | `call`, `expired`, the two queues, `ready`, `pending`, `attempts`, `started`, `stream`, `sequence` (client); `up`, `down`, `cut` (network); `srv`, `dedupe`, `inst` (peer); `log`, `succeeded`, `turnedAway` (history) |
| `HubLifecycle` | the Hub, the instances of one topic name, the sessions that join and leave, rehash and shutdown | `hubTopics`, `hubJoin`, `hubUnreg`, `hubWaits`; `topics` with `reg`, `unreg` per instance; `session`; `remote`, `shuttingDown` |
| `ProxyTopics` | a proxy topic, its master on another node, the multiplex session between them | `proxySess`, `proxyUnreg`, `proxyIn` (proxy); `mux`, `muxOut`, `muxStop`, `muxDetach`, `scheduled` (multiplex session); `attachedMux`, `muids`, `online`, `masterReg`, `masterUnreg` (master); `inflight`, `subbed`, `oldSub`, `pxDetach` (sessions) |
| `Sessions` | the session store and all ways in which a session ends | `sessCache`, `uidCache`, `locker`, `toStop`; `loop`, `writer`, `stop`, `poll` per session; `account` |
| `SessionQueue` | the bounded send queue of a session, its byte count and the write loop that joins messages | `qItems`, `pendingBytes`, `framing`, `producer`, `qWriter` |
| `LeaderElection` | the election in memory of clusters without etcd | `term`, `leader`, `election`, `health`, `failCount`, `active`, `ring` |
| `ScheduledMessages` | due rows, task claims, hand-over to Hub and topic, publication and removal | `rows`, `due`, `claims`, `hubSchedule`, `topicQueue`, `topicStep`, `dying` |
| `PushOutbox` | the durable outbox of push jobs, its workers, dead letters and their replay | `outbox`, `dlq`, `ripe`, `worker`, `replay` |
| `UserCache` | unread counters, updates and receipts that wait for a read | `usersCache`, `updates`, `buffers`, `reads`, `waiting`, `pending` |
| `FileProcessing` | the processing job of a file, quarantine and review | `fileJob`, `fileState`, `place`, `fileWorker`, `fileReview` |
| `Uploads` | one upload under its lease: chunks, multipart in the object store, multipart in local files, or direct | `upRow`, `upLease`, `upReq`, `upStored`, `multipart`, `fileRecord` |
| `Calls` | the call of a topic | `currentCall`, `callTimer`, `connected`, `callLog` |
| `GroupMembers` | access modes, ownership, invitations and bans of a group | `subs`, `perUser`, `owner`, `attached`, `invite` |
| `MCClusterControlPlane`, `MCFencedTopics`, `MCServerCore`, `MCElection` | bounded instances | - |
| `MCServices`, `MCProgress`, `MCRetries` | bounded instances of several components in one run | `component` |
| `ClusterControlPlaneProofs` | safety of `ClusterControlPlane`, that it implements `EpochFence`, and that `ServerCore` implements `FencedTopics` | - |
| `FencedTopicsProofs` | safety of `FencedTopics` and that it implements `TopicLog` | - |
| `LaneProofs` | safety of `ClusterLane` | - |
| `ElectionProofs` | safety of `LeaderElection` | - |
| `SessionsProofs` | safety of `Sessions`, `HubLifecycle`, `SessionQueue` and `ProxyTopics` | - |
| `FilesProofs` | safety of `FileProcessing` and `Uploads` | - |
| `TopicsProofs` | safety of `Calls` and `GroupMembers` | - |
| `JobsProofs` | safety of `PushOutbox`, `ScheduledMessages` and `UserCache` | - |

They compose by refinement: `ClusterControlPlane` implements `EpochFence` (`ImplementsFence`),
`FencedTopics` is built on `EpochFence` and implements `TopicLog` (`ImplementsLog`). `ServerCore`
puts the two together: its processes have a control plane and topics, and it implements
`FencedTopics` (`KeepsPath`, `ImplementsPath`). What the topics run and the proofs show of the
publish path therefore holds of the server with its etcd traffic. `ClusterLane` stands alone: of the control plane it
uses only that both ends' view epochs grow, each at its own pace. The services meet the core at
one point each, which their modules contain as a choice: a topic is local or not, a claim is
granted, a topic is loaded, unloaded or marked deleted, a call between nodes fails.

The harnesses `MCServices`, `MCProgress` and `MCRetries` hold components that share no state. A
behaviour is one of a single component, which `component` names from its first state on; the
variables of the others keep their initial values. A property of a component is therefore
checked on exactly the behaviours of that component's own specification, and fairness is that
of the component, conditioned on its being the chosen one.

A definition marked *Faulty variant* is not part of any specification. It is the definition
after it with one plausible mistake in it, and shows, put in its place, that a property notices.

### ClusterControlPlane

A process is one run of the server; `NodeOf` gives its configured name, so that two processes
may bear one name. An etcd transaction is one step; a handler that makes several is split
between them, with a program counter (`refresh.pc`, `drain.pc`, `change.pc`).

* `Boot`, `Register`, `RegisterFails`, `LeaseExpires`, `LeaseLost`: Start, the registration
  transaction (the key must be absent) and recoverLease, which share it. A lease may expire in
  etcd long before its process notices (pause, partition), and a process may believe its lease
  lost while the key is still there.
* `WatchEvent` is one response of a Watch: advanceTopologyEpoch raises the marker to the
  header revision. The two Watch loops (members, topology) share one `seen`; a response may
  report any revision later than the last, so that lagging and merged responses are covered.
  `WatchRestart` is the resume behind the epoch of the current view after an error.
* `RefreshRead`, `RefreshSame`, `RefreshFence`, `RefreshFenceFails`, `RefreshRing`,
  `RefreshEpoch`, `RefreshPublish` are one refreshView with applyControlPlaneView in it:
  snapshot, fence row, ring, epoch, publication. refreshLock makes it one per process. The
  database may fail before or after its commit.
* `DrainPut` to `DrainDone` are BeginDrain, whose last assignment (control.member) is a step
  of its own because recoverLease reads that record meanwhile.
* `ChangeRead`, `ChangePut`, `ChangeMark`, `ChangeFails` are ChangeTopology.
* `BeginClose`, `Close`, `Crash` end the process: revocation of the lease, or silence.

Time is abstracted to `fresh` (a successful refresh within the lease TTL), which a pause may
clear at any moment for the processes in `Disturbed`.

### FencedTopics

A publish is a record in `pubs` with the instance (`gen`) that runs it, so that a publish of a
dropped instance goes on beside its successor. The token is taken in three steps (`PubReady`,
`PubOwner`, `PubEpoch`) because readiness, ring and epoch are read separately. `NotFenced` and
`NotDuplicate` are the conditions of the transaction and the unique indexes; `SaveCommits`,
`SaveCommitsUnheard` and `SaveFails` are its three outcomes as the server sees them.
`PubLookup` is the second lookup of the client id after an error. Publishes carry a client id;
`Owner` is an arbitrary assignment of topics to the members of a ring.

### ServerCore

The processes of `ClusterControlPlane` with the Hub and the publishes of `FencedTopics`, whose `alive`
and `apply` are functions of `health` and `refresh` (`AliveOf`, `ApplyOf`) and whose rings and epochs
are those refreshView stores. Three places join the halves, and only these have actions of their own:
`TokenAllowed` is the question of writeFenceToken to the health service; `Publish` is the hand-over of
the rehash to the Hub together with the publication of the view; `End` takes the topics and publishes
of a process with it. The other actions are `ClusterControlPlane`'s beside an idle Hub, or
`FencedTopics`' beside an idle control plane.

### ClusterLane

Requests are numbered in the order in which they enter the lane. `ready` is the carry of run
and the ready slice of runPipeline, `pending` the window; a request of `started` is one counted
in inFlight.

* `Call`, `CallRejected`, `Deadline`: the caller, from the queue to its select between result
  and context. A result that is already in the channel is taken at once: where both are ready
  Go's select may prefer the context, which only turns a success into an error.
* `Fetch`, `ensureStream`, `SendFrame`, `SkipExpired`, `Receive`, `ReceiveInvalid`, `Tick`: the
  goroutine. Taking a request from the queue and sending it are two steps, because a new
  stream may have to be awaited in between. A Send that fails is a `SendFrame` whose frame the
  peer does not read, followed by `StreamFails`; `StreamFails` may also happen a little earlier
  than in the code, before the next frame of a window that is not full.
* `closeStream` with `retryRequests` is every way in which runPipeline returns: what is carried
  over, retried, dropped or failed. The back-off is a delay and has no step.
* `Close` is the closing of the peer with the goroutine's clean-up, which nothing of the lane
  can interleave with usefully since every context has ended. Calls after it are left out: they
  fail at once.
* `LaneRecv`, `LaneRefuses`, `LaneReplies`, `LaneEnds`: a handler per stream, which may go on
  after its client has left (`cut`) and run beside its successor. The epoch of the answer is
  loaded before the frame is validated, hence in an earlier step. The ring signature is
  compared together with the epoch and is covered by it.
* `ExecuteStarts`, `ExecuteHits`, `ExecuteEnds`, `ExecuteWindowFull`, `evictOneCompleted`: the
  table. An entry is running, completed (ok or failed), or past its TTL (old). `TTLPasses` needs
  an expired request because normalizeClusterTransportConfig refuses a TTL shorter than
  RequestTimeout, and the TTL starts at the end of the execution, the timeout at the call.
* `PeerRestarts` (external): a new process with an empty table.

`turnedAway` remembers the requests that have met a full table (`ExecuteWindowFull`): such a
request is answered with an error while the stream goes on to those behind it; if the answer is
lost it is sent again, which is the one way in which order is lost (see Observations).

### HubLifecycle

The Hub, every `topicInit`, every topic loop and every session are goroutines; channels are
sequences with their capacities, and a send to a full one is a disabled step, so that what waits
for what is visible. `hubTakesJoin` makes an instance, or hands a join to the one in the map;
`topicInitDone` and `topicInitFails` end a load; `killTimer`, `hubTakesUnreg`, `hubTakesRehash`
and `hubTakesShutdown` take an instance down, which marks it deleted, removes it from the map and
sends it its exit without waiting (`TakeDown`); `topicExits` is the end of its loop.
`registerSession` and `unregisterSession` are what the loop does with joins and leaves, refusing
while it is inactive. A leave without `unsub` takes the subscription of the session in the same step.
A leave with `unsub`, a {sub} that gives the right to join up, and every other eviction
(`topicEvicts`, for requests of members about each other) take the sessions of the user out of the
topic at once and only send them a message (`Detached`); the write loop of each deletes the
subscription later, by the name of the topic (`detachSession`). An `unsub` may be refused, which
changes nothing. `disconnect` and `cleanUp` are the end of a session: a clean-up waits
for the request under way. `ringChanges` is a view that moves the topic, which waits for the
Hub; `beginShutdown` and `closeCluster` keep the order of `listenAndServe`.

### ProxyTopics

`proxyJoin` and `handleProxyLeaveRequest` are the cases of `runProxy` that call the master, whose
`TopicMaster` queues joins for the Hub and leaves for the topic: two queues, so that they may
overtake each other. `masterRegister`, `masterUnregister`, `evictUser` and `dropSession` are the
master topic with its list of users per multiplex session (`muids`); answers and notices go
through `clusterWriteLoop`, which runs only while it is scheduled: `writeRests` and `writeRested`
are the two moments at which it decides that nothing is left and clears its mark. An answer is
taken by `proxyMasterResponse`, with `joinAnswered` for a join that succeeded: the session may
have ended since it asked. `proxyTimeout`, `proxyExit` and `topicProxyGone` end the proxy.
An eviction (`otherAnswered`) and the exit take sessions off the proxy's list at once and send each
a message (`Dismissed`); `proxiedDetach` is the write loop that takes it later and deletes
whichever subscription there is. Messages are counted per session (`pxDetach`), and a session that
begins to terminate empties its channel. Until then a subscription may name the queues of a proxy
that has ended (`oldSub`): what is sent there is read by nobody, and a client's leave sent there stays
under way for good (`lost`).

### Sessions and SessionQueue

The lock of the session store is a variable, because `EvictUser` and `Shutdown` hold it while
they send to the stop channels of sessions, of capacity one, whose clean-up takes the same lock.
A WebSocket session has a read loop (`loop`) and a write loop (`writer`); a long-polling session
has only the requests of its client (`poll`) and may expire when another one is opened. In
`SessionQueue` a producer counts the bytes of a message (`reserveOutbound`), then puts it into
the channel or gives the bytes back (`send`); the write loop takes messages, gives their bytes
back and joins them into frames if the client agreed on that (`hello`), and `purgeChannels` of a
clean-up takes from the same channel. The size of a message depends on the framing at the moment
it is computed.

### ScheduledMessages, PushOutbox, UserCache

`ScheduledMessages`: every node scans the table (`schedulerStep`), claims a row under a lease
that may run out (`ClaimTask`, `ClaimExpires`), and hands it to the Hub and the topic, if it takes
the topic for its own; the topic publishes it under its client id and removes the row, in two
steps. A topic that is being unloaded still takes from its queue (`dying`). `publishRefused` is a
refusal that will not change; `publishRefreshFails` is a store that fails while the membership of an
official channel is read, which the topic treats in the same way.

`PushOutbox`: every operation on the persistent cache is a step. A worker scans, claims by
compare-and-swap, delivers and records the outcome; a job that is dead goes to the dead letters
before its row is deleted; replays go the other way. A crash may fall between any two.

`UserCache`: one updater takes requests from a bounded queue. A counter that is not known is read
by a goroutine while updates of it are buffered and receipts wait for the number.

### FileProcessing, Uploads, Calls, GroupMembers, LeaderElection

`FileProcessing` separates the job row, which changes by compare-and-swap only, from the state
shown to users, which every actor reads once and overwrites from its copy. `Uploads` has requests
on any node: a resumable one takes the write lease and loads the session again, a direct one goes
on with what it loaded before. The two handlers of multipart uploads differ at their ends (`Whole`,
`CanAbort`): the object store (`media/s3`) knows an upload only until it is completed, while for the
local file system (`media/fs`) a repeated completion succeeds, and so does aborting what was completed. A file put together from chunks takes three
steps, between which a process may die: the session is saved with the result (`saveResult`), the
chunks are deleted, perhaps some of them only (`cleanChunks`), and the session is saved without them
(`compactSession`). `Calls` is the topic's loop with events that name a call by its
sequence number and may come late: nothing asks whether the session is still attached. A session
leaves the topic by `unregisterCaller`, which takes its party out of the call, or is evicted
(`evictFromCall`), of which the call is not told. `GroupMembers` has the cache of the topic and the
subscription rows; every write may fail, and a goroutine may change a row behind the cache.
`existingSubscription` evicts and attaches as the code does: the mode of a session is looked at only
when the request changed it. `LeaderElection`
has the loop of each node, which answers nobody while it leads an election, and a network that
is cut and healed.

## Runs

| Run | Instance | Checks |
|---|---|---|
| `core` | the server with etcd: of three members two run, the lease of the topic's owner has just run out and it is disturbed | `KeepsPath` |
| `clusters` | five initial states: two processes start from an empty etcd; a second instance of a running node arrives; a node may drain and close; growth from three members to five, or shrinking from five | `CPTypeOK`, `WritesNeedAppliedView`, `OneReadyInstance`, `FenceCoversViews`, `SameEpochViewsAgree`, `EpochsOnlyGrow`, `TopologyMovesByTwo` |
| `topics` | 2 processes from the start, 2 epochs, 2 client ids, one lost answer | `TypeOK`, `SeqContiguous`, `WritersAreFenced`, `AckedIsSaved`, `ImplementsLog` |
| `retries` | the publish path in a stable cluster; a WebSocket and a polling session and one eviction; fairness | `RetriesSucceed`, `EvictedIsGone` |
| `lane` | 2 calls of either kind, 2 streams, window 2, queues and table of 1, one retry, a view switch at either end, one restart of the peer | `LaneTypeOK`, `NoEarlyRepeat`, `OkMeansExecuted`, `LaneInOrder` (frames in sequence, requests that succeed executed in order unless the earlier was turned away by a full table), `NothingLeaks` |
| `election` | 3 nodes, 2 terms, one change of the network or restart, symmetric nodes | `ElectionSafe` (types, one leader in every term no restart has forgotten, followers only of the elected) |
| `services` | hub, files, uploads, calls, group, sessions, queue and proxy, one per behaviour | `ServicesTypeOK`, `HubSafe`, `FileSafe`, `UploadSafe`, `CallSafe`, `GroupSafe`, `OwnerIsKept`, `SessionsSafe`, `QueueSafe`, `ProxySafe` |
| `progress` | control plane, outbox, schedule, files and cache, one per behaviour, with fairness | `ProgressTypeOK`, `OutboxSafe`, `ScheduleSafe`, `CacheSafe`, `Converges`, `OutboxDrains`, `DueIsHandled`, `FileIsSettled`, `ReceiptIsPushed` |
| `drain_lost`, `old_owner`, `stuck`, `lane_drain` | see Findings | one property each, violated |

What the properties of the services say:

* `HubSafe`: of two running instances one is inactive (`OneActiveInstance`); a request under way is
  held by someone who will answer it, and session and active topic agree on who is attached, up to a
  detach message that the session has not taken yet, so that none of these is late and ends a newer
  subscription (`SessionsAreServed`); nobody waits for an instance or a Hub that is gone (`WaitsAreHeard`).
* `ProxySafe`: the master never counts a user online more often than multiplex sessions hold the
  user, and exactly as often unless the user was evicted while held twice (`OnlineIsHeld`), and the proxy keeps no session that has ended, unless its leave is queued, or
  the message of an earlier eviction took the subscription it had made since (`lateDetached`)
  (`EndedIsLeaving`).
* `SessionsSafe`: whoever was logged in when the user was evicted is on the way out
  (`EvictedIsStopped`), and what has been cleaned up is forgotten by store and topics
  (`GoneIsForgotten`). `EvictedIsGone` is its liveness side.
* `QueueSafe`: the byte count is the sum of what is under way (`PendingIsSum`), and the client gets
  messages in the order in which they were queued, without a gap (`WireInOrder`).
* `FileSafe`: a job is completed only by an attempt since it was last queued, and a file in which
  malware was found stays out of reach until it is released. `FileIsSettled`: a queued job is
  completed or dead in the end.
* `UploadSafe`: one writer within its lease (`OneWriter`). Every chunk of the saved session is
  readable until there is a result, unless a deletion failed halfway, a request outlived its lease, or
  a failed save had been committed (`ChunksAreKept`, `upTorn`). No file is removed whose address a
  client was given (`ResultIsKept`): of chunks and in the object store always; on the file system and
  of a direct upload if the result was saved (`upUnsaved`), and no request worked beside another
  (`upTorn`) or with a session that had changed (`upStale`).
* `CallSafe`: the states saved for a call tell one story, a call is ended by its own members, and a
  call that goes on has its timer, or was accepted and has parties; of these, who has credentials is
  attached, unless evicted or joined after leaving (`stray`).
* `GroupSafe`, `OwnerIsKept`: who is attached may join, unless the session asked again for a mode that
  may not (`slipped`); a ban keeps the given mode empty whatever the banned user does,
  and no step leaves the group without an owner.
* `OutboxSafe`, `OutboxDrains`: no accepted job is lost, however often dead letters are replayed, unless
  a burial and a replay of that very job were under way at once; no attempt is made by two
  workers, and every job leaves the outbox.
* `ScheduleSafe`, `DueIsHandled`: an accepted message is in the table until it exists, was cancelled,
  refused for good or dropped (`dropped`: by a topic that is being unloaded, or that could not read an
  official channel's members), and handed over once per claim; a due row leaves the table.
* `CacheSafe`, `ReceiptIsPushed`: updates wait exactly while a read is under way, receipts are
  counted right, and every receipt is pushed, unless a read fails.

`KeepsPath` is the action property that a step of the server is a step of `FencedTopics` or changes
nothing it knows. It is what makes the split between control plane and publish path an abstraction
of the code and not an assumption: `FencedTopics` allows a publish whenever a view is in force and
no other is being applied, and `core` checks that leases, late Watches, failing databases and
pauses never let `writeFenceToken` through at another time, nor move the ring or the epoch under a
publish in an order the fence does not allow.

Where a property excepts a case (a history variable such as `overlapped`, `stolen`, `stranded`,
`halfDone`, `twice`, `mixed`, `crossed`, `lapsed`, `dropped`, `slipped`, `stray`, `lateDetached`,
`upStale`, `upUnsaved`, `upTorn`), that case is one of the observations below: the exception is as
narrow as TLC allowed.

Bounds. `MaxRev` caps the revision after which no member or topology event happens; three to
five events beyond the initial state are enough for expire, re-register, drain, and a change
racing any of these, and the marker may still move after it. `Disturbed` names the processes
that meet crashes, pauses, lost leases and database errors: one is enough to have a disturbed
and an undisturbed side in every pair. `MaxEpoch`, `MaxGen`, `MaxLost` bound view switches,
instances per process and lost answers; two epochs have an old and a new owner, with an instance
of each beside the other. In `core` the new owner's view is the last one (`MaxRev` is the revision
of the expired lease), each process loads the topic once and one client id is published: the run is
about the steps between the two halves, and each half has its own runs. Runs that start in the middle of the cluster's life start from
states the control plane reaches by the sequence of writes their comment gives. `topics` has one
topic instance per process at a time; successors of an instance are covered by the theorems,
which hold for every `MaxGen`. In the lane, capacities that the configuration keeps in the
hundreds or more are scaled down to 1 or 2 so that the limits are met; two streams have a handler
of the former beside that of the current one, and two requests are what order needs.

In the services, two workers or two requests are what a lease that runs out needs, one fault
places a crash or an error at any step, and every queue has room for one or two so that it is
met full. `HubLifecycle`: one session, three instances (one dying, one active, one to come) and
one change of the ring; two sessions of one user, where one puts out the other, are left to the
theorem. `Uploads`: two requests, two parts, four leases, one fault, in each of the four kinds. `ProxyTopics`: two sessions of two users, a multiplex session and its
successor, two requests, one eviction, one failed call. `Sessions`: one session of each kind, two
evictions for safety (the second finds the channel that the first has filled), one for liveness,
because with two the property does not hold (see `StoreIsReleased`). `SessionQueue`: two
producers, three messages, a limit of bytes below their sum. `ScheduledMessages`: two nodes, one
row, two faults (a claim that expires and a crash). `UserCache`: two users, two receipts, two
loads. `Calls`: three sessions of two users and two calls, the second for what was meant for the
first. `GroupMembers`: founder and one member at the limit of two. `LeaderElection`: three nodes,
the smallest cluster that can be partitioned with a majority; two terms. Deadlock is
not checked: with the bounds exhausted and every process stopped the system rests.

Fairness. `Converges` assumes weak fairness of the Watch, of refreshLoop's tick and of the
progress of a refreshView for the undisturbed processes: goroutines, a ticker, and calls with
deadlines. The disturbed process has none. `RetriesSucceed` assumes a client that retries
(strong fairness of the attempt, since the topic may be busy with others), a topic goroutine
that runs, and a database and control plane that let an attempt through again and again. The
services assume weak fairness of their goroutines and of time: a worker, scheduler, updater or
write loop that can go on does, a lease or a retry time comes (these are ticker loops and
timers). What users, administrators and the network do is never fair, and faults are bounded.
`EvictedIsGone` assumes that a read loop whose connection the write loop has closed returns.

## Findings

* `drain_lost`: a lease that expires while BeginDrain runs is re-registered from a
  control.member that is not draining yet; BeginDrain reports success and the node serves on.
* `old_owner`: writeFenceToken loads ring and epoch separately, so the former owner can obtain
  a token of the new epoch, save under it and own the row for that epoch. The log stays
  consistent (`ImplementsLog`, `WritersAreFenced`), but the rightful owner is refused until the
  next epoch.
* `lane_drain`: a request taken from the reliable queue is counted in inFlight only when its
  first frame is made. While ensureStream waits for the peer it is counted nowhere,
  waitForReliableDrain sees zero and the shutdown goes on to close the lane under it.
* `stuck`: a commit whose answer is lost is acknowledged as a duplicate without advancing
  `t.lastID`; the instance then proposes a taken sequence number for ever. With `MaxGen = 2` TLC
  finds a second way there without any lost answer: the Hub drops an idle instance whose last
  publish is still in its transaction, the successor reads the row before that commit, and its
  cursor stays behind. `retries` has one instance per process and no lost answer for this reason:
  it shows that nothing else keeps a retry from being acknowledged.

### Observations

These were met while modelling. Most are stated as definitions of the modules that TLC refutes;
they are no runs of their own.

* `MasterSurvives` (`ProxyTopics`; topic_proxy.go:227): for a session that ended while its join was
  answered the proxy sends a leave with no session, "主动向 Master 发送 ProxyReqLeave 以清理 Master
  节点上的失效订阅"; `remSession` (topic.go:681) dereferences it and the process of the master ends.
* `GoneIsCleanedUp` (cluster_handlers.go:37): a proxy that is unloaded and made again at once shares
  the multiplex session its predecessor's notice has just told to stop; an old one can remain
  attached. A stop that arrives between the last look of the write loop and the clearing of its
  mark is not seen until the next message (cluster_sessions.go:115 looks at `send` only).
* `OneRequestAtATime` (sessionstore.go:90): a proxied join counts as done once it has been handed
  on, so a join and a leave of one session can be queued at the master in either order; swapped,
  the session is left deaf. Requests in the queue of a proxy that exits are lost, and
  `inflightReqs` is never released.
* `evictUser` (topic_sub_leave.go:125) takes one of the places a multiplex session holds for a user
  who has two, and sets `online` to 0; the later leave makes it -1.
* `StoreIsReleased` (sessionstore.go:84, "缓冲大小 1 保证非阻塞关机"): a second eviction, or an eviction
  after the clean-up's own stop, finds the channel full with nobody to empty it: an expired
  polling session stays in `uidCache`. The lock of the store is then held for ever. An evicted
  polling session is deleted but never cleaned up, so its topics keep it.
* `SuspendedIsOut` (user.go:344): a login that was checked before the state is written ends after
  the eviction.
* The count of `SessionQueue` drifts when framing is negotiated while messages are queued, since
  they are given back at another size than they were counted at.
* `LeaveIsAnswered` (session_dispatch.go:309) and `ShutdownIsAnswered`: a leave queued at an instance
  that takes its exit first is not answered; a `topicInit` that sees the shutdown flag after its
  instance was asked to report never does. A `topicInit` that fails after its instance was taken
  down removes another instance from the map and blocks on a nil channel (init_topic.go:106). An
  invalid name ends the Hub's loop (hub.go:292 returns). Read, not modelled: when the last member of
  a P2P topic unsubscribes, the topic asks the Hub to delete it without a request
  (topic_sub_leave.go:84, `pkt: nil`); if the instance has left the map by then, `topicUnreg`
  dereferences the request (hub.go:526).
* `EndedIsLeaving` without `lateDetached` (topic_proxy.go:294 and 102, hdl_websock.go:229): the message
  by which a proxy detaches a session names the topic only. A session whose join was under way when it
  was evicted is added again; its write loop then comes to the message of the eviction and deletes
  the new subscription. The session is deaf to its own leave, ends without one, and
  stays with the proxy.
* A leave that a client sends while its subscription still names a proxy that has ended is read by
  nobody (session_dispatch.go:309): `inflightReqs` is never released (`lost` of `ProxyTopics`).
* `DeliveredAtLeastOnce` (push/outbox.go:97): a replay that finds the row of the burial still in
  place takes the duplicate for success (598) and deletes the dead letter; then the row goes. So may
  the row a replay puts in before a slow burial writes its dead letter, which the replay then deletes.
  `crossed` marks such jobs.
* `ScheduledIsNotDropped` (topic_msg.go:12, "临时存储或 Hub 错误不会调用它，记录将保留到下一次扫描"): a topic
  that is only being unloaded is marked deleted and drops the rows in its queue as refused for good
  (topic_msg.go:300). So does a topic of an official channel (topic_msg.go:313) when the store fails
  for a moment: `refreshOfficialChannelMember` returns that error (official_topics.go:157), and every
  error of it is taken for a refusal.
* `NobodySlipsIn` (topic_sub_self.go:327, topic_sub.go:330): a user whose wanted mode has no right to
  join and who asks for that mode again changes nothing, so nobody is evicted and the reply, which
  looks at the mode only when it changed, attaches the session. A banned user can do the same; the
  given mode stays empty.
* Uploads. With the local file system `AbortMultipartUpload` succeeds after the upload was completed
  (filesys.go:302), so the DELETE or the expiry of a session whose result was told but not saved
  deletes the record of the file (hdl_file_resumable.go:77). With the object store the same abort
  fails for ever: the record stays and the session can never be deleted. Two completions of one
  direct upload, or its expiry beside a completion, may use a session that another has changed
  (`upStale`). A save of a chunk that is committed but reported as failed has its chunk deleted
  (hdl_file_resumable.go:347), and the session can then not be put together (`upTorn`).
* `UnreadIsRight` (push/push.go:32): an update that is buffered during a read which already contains
  it is counted twice.
* `OutcomeIsShown`: a job that is queued before its state is written may be finished first and then
  shown as pending; a worker that lost its lease writes its old copy.
* `CallEndsWithTheLast` (topic_sub.go:18): the session of a caller or answerer that ends
  before it joined the channel stays a party, so an accepted call remains open with nobody connected.
  Two more ways lead there: an eviction removes sessions from the topic and does not tell the call
  (topic_sub_leave.go:124), and calls.go:180 does not ask whether the session of an event is attached,
  so a join that is handled after its session left adds it again, and an accept even reaches the topic
  from a session that is not attached (session_topic_ops.go:194). No timer runs any more; the call
  ends when somebody hangs up. An owner whose {leave unsub} is refused has lost its
  party all the same (topic_sub.go:20 comes before the refusal).
* `OneOwner` (docs/planning/product-gap.md:237, "只能通过所有权转移产生"): a member who asked for the owner's
  mode when subscribing holds it as soon as the owner offers it; acceptance came first, so no transfer
  is made, `t.owner` stays and two members have the bit.
* `CacheIsStored` (hub.go:872), `OfflineKeepsOwner` (hub.go:930): a change made offline by a goroutine
  that read the row earlier is written behind a topic that was loaded since, and puts the old owner
  bit back or takes the new one away.
* `NoWrongLeader` (cluster_leader.go:306): a voter that restarts votes again in its term, so two
  leaders of one term can meet. `lapsed` is the latest term that a restart has made a process forget.
* Two instances of one node can write a topic in one epoch (cluster_membership.go:64). The fence row
  compares the node's name, not its instance (`ServerCore`, where `proc` tells the instances apart):
  a publish of the old instance that passed `AllowsWrites` before its lease ran out reads ring and
  `viewEpoch` of the view its successor is in and saves under the same name and epoch. `ImplementsLog` still
  holds: the row counts up for both, and a `seqid` is given once.
* `FollowerIsNotPartitioned` (cluster_routing.go:59, "当前节点是否属于较小分区"): `isPartitioned` counts
  `fo.activeNodes`, which only a leader writes (cluster_leader.go:192). A leader that was cut off writes a
  list of itself alone; when it is back, follows the new leader and has taken the ring from it, it
  still refuses writes until it leads again. `MCElection` refutes it with `MaxTrouble = 2`.

* The order of the lane (docs/planning/roadmap.md:104, "同一 Topic 固定映射到同一传输 Lane，保持有序") is not
  kept when the table of executed requests is full. Request 1 meets a full table
  (`errClusterDedupeWindowFull`) and request 2 behind it is executed; the stream breaks before the
  answer to 1 is read, 1 is sent again, finds room and is executed after 2. Both calls succeed.
  `ExecutedInOrder` therefore excepts `turnedAway`. It takes three requests: one to fill a table of
  one entry. The attempt to prove the property without the exception met it.

And in the lane, where no document says otherwise: when the ticker finds one
request of the window past its deadline, the reliable requests beside it end with that error,
too, although they may have time left and a retry would be safe (`Tick`).

## Proofs

### Publish path

`FencedTopicsProofs` proves for every set of nodes, processes, topics and client ids, every
assignment `Owner` and every bound:

* `TypeCorrect`: `TypeOK`;
* `NoHoles`: the saved sequence numbers of a topic are exactly 1 .. seqid;
* `FencingOrdersWriters`: epochs never decrease along a topic, one owner name per epoch;
* `AcksAreDurable`: what was acknowledged is saved under that number.

The assumptions are `FenceAssumption`, `OwnerAssumption` and `TopicBoundAssumption`: the types
of the constants, and that a ring names a member of the set it was built from.

None of these is inductive alone. `PublishInv` adds three facts. `CursorsBehindRow`: no cursor
and no publish is ahead of the row, hence a sequence number the unique index accepts is the
one right after the last saved (lemma `NextAfterRow`): this is where contiguity comes from,
although nobody compares the cursor with the row. `OnePubPerInstance`: at most one publish per
instance and none from the future, so the cursor that a commit advances is the one the publish
was numbered from. `RowIsLatest`: the row's epoch and owner are those of the newest message,
so comparing with the row orders the writers. `HubStepInv` and `PubStepInv` treat one action
per step, `NextInv` joins them, `PublishSafe` is the temporal conclusion.

`FencedTopicsProofs` also proves `ImplementsTopicLog`: `Spec => ImplementsLog`. A step is one of
three kinds (`StepKinds`): it commits one message, acknowledges saved ones, or changes nothing
clients see. With the unique indexes as an invariant (`IndexesHold`) the `CHOOSE` of the
refinement mapping is determined (`LogOfMessage`), so a commit appends to the log
(`CommitAppends`) and a repeated acknowledgement tells an existing position
(`PositionsAreSaved`).

### Control plane

`ClusterControlPlaneProofs` proves for every number of processes and node names, every set of
topologies and every bound, under `ProcAssumption`, `TopologyAssumption`, `ScopeAssumption`
and `BoundAssumption` (types of the constants), from an empty etcd:

* `ControlPlaneTypes` (`CPTypeOK`), `FenceFirst` (`FenceCoversViews`), `WritesUnderOneView`
  (`WritesNeedAppliedView`), `NoEpochFallsBack` (`EpochsOnlyGrow`);
* `EpochsIdentifyViews` (`SameEpochViewsAgree`) and `InstancesAreFenced` (`OneReadyInstance`);
* `TopologyChangesAreAdjacent` (`TopologyMovesByTwo`);
* `ImplementsEpochFence` (`ImplementsFence`), a refinement no run repeats, since `KeepsPath`
  contains its steps.

The inductive invariant is `CPInv`. `KeysInOrder` bounds every revision by etcd's, so that a
new key is newer than every view. `ViewsInOrder` says how far a refreshView has come; with
`FenceCoversViews` it gives monotone epochs and the write guard. The heart is `ViewsFit`: the
epoch of a snapshot does not determine the snapshot (a vanished key takes its revision away),
so "same epoch, same view" is neither true nor inductive. What is invariant is that every view
held anywhere still `Fits` etcd - each key not newer than the epoch is as the view saw it - and
that two views of one epoch `Agree` up to members whose key is gone and never hold two
instances of one name. A snapshot read now therefore agrees with every older view of its epoch,
and a new instance, whose key is newer, cannot share an epoch with its predecessor.
`TopologyMovesByTwo` needs `ChangesInOrder` beside it: a change that still finds the topology
it validated asks for an adjacent size. There is one step per action, grouped by what the
actions write: member keys, the topology, the marker, local flags, the refresh.

The module ends with the server as a whole, `ServerCore`, under `CoreAssumption` (types, and that a
ring assigns a topic to one of its members). `CoreInv` is the conjunction of `CPInv` and of the
publish path's `PublishInv`, and the two need each other: `CPInv` makes every step of the server one
of `FencedTopics` (`CoreSteps`: quiet steps of the control plane are view steps or stutters,
`AllowsWrites` implies `MayWrite`), and such steps keep `PublishInv`, which in turn says that every
publish belongs to a process. From it follow

* `ServerControl`: the server is a `ClusterControlPlane`, so all of the above holds of it;
* `ServerKeepsPath` (`KeepsPath`) and `ServerImplementsPath`: it is a `FencedTopics`;
* `ServerPublishes` and `ServerImplementsLog`: from etcd's leases down to the messages table, sequence
  numbers have no gap, writers are ordered, acknowledged messages are saved, and clients see
  `TopicLog`.

The theorems of `FencedTopicsProofs` are taken through an instance of that module (`Proved`), whose
definitions are shown to be those `ServerCore` is made of (`SameInit`, `SameNext`, `SameLog`).

The runs that start in the middle of the cluster's life (`clusters`, `core`, and the control plane in
`progress`) start from states reachable from `CPInit`; the theorems are about `CPSpec`, which
covers them.

### Transport lane

`LaneProofs` proves the five invariants of `ClusterLane` for any number of requests, streams,
restarts and view switches and any limits, under `LaneAssumption` (types; queue, window and table
have room for one): `LaneIsTyped`, `NothingRepeatsEarly` (`NoEarlyRepeat`), `OkIsExecuted`
(`OkMeansExecuted`), `LaneKeepsOrder` (`LaneInOrder`), `NothingIsLeaked` (`NothingLeaks`).

`LaneInv` follows a request on its way. `OnePlaceEach` says that it is in one queue or
carried, once; `AttemptsLeft` that what is ready may still be tried. `TableKnows`: whatever
the present process of the peer has executed has a live entry in the table or an expired deadline,
which is why a retry, or the handler of a stream the client has left, does not execute again.
`ResultsAreTrue`: where there is a result without an error, in the table, in a
handler's hands or under way, there was such an execution. `FramesNumbered` and `FramesInSequence` relate the two counters and the frames between
them. Order is the long part: in each place - queue, carried, on a stream, in the hands of a
handler, in the log - whoever is behind a reliable request came after it, or that request is
settled: executed, failed for its caller or turned away (`KeptOrSettled`, `QueuedInOrder`, `CarriedInOrder`,
`WindowOnItsWay`, `UnderWayInOrder`, `TakenInOrder`, `LoggedInOrder`).

### Leader election

`ElectionIsSafe` (`ElectionSafe`), for every finite set of nodes and number of terms, under
`ElectionAssumption` and `NobodyIsNoNode`. That two nodes are not elected in one term is not visible
in a state: the votes that were counted are gone. `VotesAreExplained` says that there is a set of
ballots - at most one per voter and term - that explains every count, every reply under way and
every leader of the terms that no restart has forgotten (`Explains`); two leaders of such a term
would have majorities of ballots with a voter in common. A restart takes the ballots of the
terms it forgets out of the set (`RestartForgets`) and leaves those of later terms, whose
elections stay safe. `RepliesAreAwaited` and `ChecksFromElected` tie
messages in flight to the election or leader they belong to.

### Sessions, Hub, queue, proxy

`SessionsProofs` treats the four in this order.

* `SessionsAreSafe` (`SessionsSafe`), under `SessionsAssumption`. `LoopFollows`: how far the read loop
  or the clean-up is tells whether the session is stored, indexed, logged in and joined.
  `ToldOrStopped`: while the lock is held by an eviction, each session of the user that it found is
  on the way out or still on the list. `LockerEvicts`, `IndexHolds`: who holds the lock, and that the
  index misses nobody. The list is a `CHOOSE` of an order; that it names each session once is
  the pigeonhole principle.
* `HubIsSafe` (`HubSafe`), under `HubAssumption`. `MarksFit` and `MapFits`: an instance is marked when
  it leaves the map, so of those alive only the one in the map is unmarked. `SessionsFit`: session
  and instance know of each other unless the instance is marked, the session is closing, or a detach
  message is on its way; and there is such a message only while the subscription it is meant for is
  still there, since no join is accepted before that has gone.
  `RequestsFit`: a request without an answer is in a queue that is served, or starts the load.
* `QueueIsSafe` (`QueueSafe`), under `QueueAssumption`. `OnePlaceOnly`: a message is with one producer, in the
  channel or in the write loop's hands, so one action takes out of the count what another put in;
  the sum is stated as the number of byte units (`Units`), since a sum over a set is a recursion.
  `LineFits`: what was written, gathered and waits is one line that grows at its end, and is part
  of what was queued even while the clean-up takes from it.
* `ProxyIsSafe` (`ProxySafe`), under `ProxyAssumption`. A multiplex session holds places 1 .. n for a user
  (`Places`), and every step of the master changes count and places alike, user by user
  (`OnlineFits`); an eviction alone sets the count, to 0, and leaves a place only where a session
  held two.
  `EndedIsLeaving` needs that the proxy's sessions are among those whose subscription names the queues
  of this proxy, but for those that lost it to a late message (`SubbedToo`): the one that ends will
  then send its leave to a queue that is read.

### Files and uploads

`FilesAreSafe` (`FileSafe`) and `UploadsAreSafe` (`UploadSafe`), under `FileAssumption` and
`UploadAssumption`. For a job: whoever is about to complete it ended an attempt of that round
(`CompletingProcessed`), and one worker is at work as long as no job was taken over (`OneAtWork`);
then, where malware was found, the state blocks access in the row, in the copies that will be
written and at every point where a worker may write or die (`ScanFound`, `CopiesFollow`,
`BlockedMeanwhile`). For an upload: a token is used once, and the request whose lease has not run out
has that of the row (`LeasesHeld`). The chunks of the row are stored, by leases before that of the
request at work (`ChunksFollow`), and a request that cleans up has already saved its result. A result
that anybody knows has its record: of chunks and in the object store because nothing deletes it any
more (`ResultsFollow`), on the file system and of a direct upload because, while every result is
saved, the row has it before the client, so that whoever deletes the session sees it (`SavedFollows`).

### Calls and groups

`CallsAreSafe` (`CallSafe`), `GroupsAreSafe` (`GroupSafe`), `OwnersAreKept` (`OwnerIsKept`) with
`CallsAreTyped` and `GroupsAreTyped`, for any sessions and members, under `CallAssumption` (a session
of a call has a user), `GroupAssumption` and `NoUserAssumption`. `LogIsCurrent` ties the last saved
state of a call, and its timer, to `currentCall`; `EndedAsked` says that a call which was ended was
ended by a member of it; `JoinedConnected` that who has credentials is attached or `stray`. `OwnerOwns`: the owner the topic knows is a member with the bit.
`OwnerMeanwhile`: unless a transfer broke off or a late write came, there is an owner and rows and
cache agree on what is given. `BannedGivenNothing`: a banned member's given mode stays empty, in row
and cache.

### Outbox, schedule, unread counters

`OutboxIsSafe` (`OutboxSafe`), `ScheduleIsSafe` (`ScheduleSafe`), `CacheIsSafe` (`CacheSafe`) and
`CountersAreSetOnce`, under `OutboxAssumption`, `SchedAssumption` and `CacheAssumption`. The outbox needs the
generations of its rows: of one generation a worker's copy has made no more attempts than the row
(`Generations`); of a chunk not written yet there is no trace (`NoTrace`). On these rests a second
layer: a job is `Settled` when it was delivered, discarded or crossed; a worker that is about to
delete a row finds the job settled, or its dead letter written and no replay past its put
(`DropsKept`), and every chunk written is settled or accounted for (`CreatedKept`). The schedule needs that
the copies of a row in the queues are covered by its claim and the claims that ran out
(`CopiesClaimed`), and that a row is removed after its message exists (`RemovesPublished`). The cache needs that no two reads of one counter are under way
(`ReadsApart`); `SetOnce` is the double initialisation the code warns of.

### Only model-checked

Liveness (`Converges`, `RetriesSucceed`, `EvictedIsGone`, `OutboxDrains`, `DueIsHandled`,
`FileIsSettled`, `ReceiptIsPushed`): fairness and ENABLED are out of the prover's reach.
`ServicesTypeOK` and `ProgressTypeOK` belong to the harnesses of the runs; each component's theorem
contains the types of its own variables. Every other property of a passing run has a theorem. The
statements the four violation runs and the Observations refute have none, of course; what the
exceptions in the safety properties (`overlapped`, `stolen`, `twice`, `mixed`, `turnedAway`, `stray`, `slipped`,
`lateDetached`, `dropped`, `upStale`, `upUnsaved`, `upTorn`, ...) leave
out is exactly what the theorems do not claim.

## Not modelled

TLS, gRPC, configuration and the dependency probes; publishes without a client id; the
permission, business-policy and compliance checks that refuse a publish before it is numbered;
broadcast and presence after the commit; sys topics; database internals beyond transactions and
unique indexes (external; the other adapters implement the same transactions). Deletion and
suspension of topics and accounts beyond the eviction of sessions; resumed sessions and replay;
metadata requests, background sessions and channels through a proxy, and the reclaim of a lost
node's multiplex sessions; tags, descriptions and deletion of messages; message edits, reactions,
retention and search, which are single statements of the store; official topics, business policy
and administration, which are request handlers over the store; the serving of files; calls to
media stores, validators, translation and push providers.

The repository's lines are for the largest part no control of the server: generated protobuf
code, mocks, four database adapters with one query per method, conversions between wire formats,
HTTP handlers, command line tools. The map covers the concurrent core under `internal/server`, the
outbox and the transactions of one adapter.

## Plan

1. Done: control plane, epoch fence, publish path, client log; their proofs, safety and both
   refinements.
2. Done: the transport lane, the Hub, proxies, sessions, election, and the services above, as
   models with runs.
3. Done: proofs of every safety property of the passing runs, by component, and of the server that
   runs control plane and publish path together.
4. Left as models: presence between user and group topics, resumed sessions, and pure algorithms
   (ring hash, unread ranges, range normalisation) against reference definitions.
