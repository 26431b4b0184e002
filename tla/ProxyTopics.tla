----------------------------- MODULE ProxyTopics -----------------------------
(***************************************************************************)
(* One topic whose sessions are on another node: the proxy topic there,    *)
(* the master topic here, and the multiplex session by which the master    *)
(* knows all the sessions of the proxy.                                    *)
(*                                                                         *)
(* The proxy routes joins and leaves with a call that returns when the     *)
(* master has queued them, joins for the Hub and leaves for the topic, so  *)
(* that the master may handle them in another order. Answers and notices   *)
(* go through the queue of the multiplex session, whose write loop runs    *)
(* while there is something to do. The proxy detaches a session by a       *)
(* message to it: the session gives its subscription up when its own write *)
(* loop comes to that. The master topic stays loaded, and its node is the  *)
(* owner throughout; background sessions, channels, metadata requests and  *)
(* the reclaim of a lost node's sessions are left out.                     *)
(***************************************************************************)
EXTENDS Integers, Sequences, FiniteSets

CONSTANTS
    PxSession, PxUser, \* the sessions on the proxy's node and the user of each
    MaxMux,            \* bound: multiplex sessions
    MaxAsk,            \* bound: requests of the clients to join and to leave
    MaxEvictUser,      \* bound: evictions of a user
    MaxRouteFault      \* bound: calls between the nodes that fail

ASSUME ProxyAssumption ==
    {MaxMux, MaxAsk, MaxEvictUser, MaxRouteFault} \subseteq Nat

User == {PxUser[s] : s \in PxSession}
Mux == 1 .. MaxMux

VARIABLES
    sessState,   \* of a session: live, terminating, or ended (deleted from the store)
    inflight,    \* its request that has not been handed on: none, join, leave, or lost
    subbed,      \* sessions that have the topic among their subscriptions
    oldSub,      \* those of them whose subscription names the queues of a proxy that has ended
    pxDetach,    \* messages in the detach channel of a session
    lateDetached, \* sessions of the proxy that lost their subscription to a message sent before
                 \* they were added again (history)
    proxyUp, proxySess, proxyTimer, \* the proxy topic, its sessions and its timer
    unregDue, goneDue, \* the Hub is asked to unload it; the master is to be told
    proxyUnreg,  \* leave requests for the proxy: of the client, or of a session that ends
    proxyIn,     \* answers and notices for the proxy
    mux, muxMade, \* the multiplex session in the master's store, or 0, and how many were made
    masterReg, masterUnreg, \* the requests queued at the master
    attachedMux, muids, online, \* the master topic: its sessions and the users behind them
    muxSub,      \* multiplex sessions that have the topic among their subscriptions
    muxOut, muxStop, muxDetach, scheduled, \* channels and write loop of a multiplex session
    panicked,    \* the process of the master has panicked
    twice,       \* users evicted when a multiplex session held them more than once (history)
    pxAsks, pxEvicts, pxFaults

clientVars == <<sessState, inflight, subbed, oldSub, pxDetach, lateDetached>>
subVars == <<subbed, oldSub, pxDetach, lateDetached>>
proxyVars == <<proxyUp, proxySess, proxyTimer, unregDue, goneDue, proxyUnreg>>
topicVars == <<attachedMux, muids, online>>
muxVars == <<muxSub, muxOut, muxStop, muxDetach, scheduled>>
masterVars == <<mux, muxMade, masterReg, masterUnreg>>
boundVars == <<pxAsks, pxEvicts, pxFaults>>
proxyTopicVars == <<clientVars, proxyVars, proxyIn, topicVars, muxVars, masterVars, panicked, twice, boundVars>>

NoUsers == [u \in User |-> 0]

-----------------------------------------------------------------------------
(* The client and the session. *)

\* dispatch: the next request waits until the one before has been handed on.
proxiedSubscribe(s) ==
    /\ sessState[s] = "live" /\ inflight[s] = "none" /\ s \notin subbed /\ pxAsks < MaxAsk
    /\ pxAsks' = pxAsks + 1
    /\ inflight' = [inflight EXCEPT ![s] = "join"]
    /\ UNCHANGED <<sessState, subVars, proxyVars, proxyIn, topicVars, muxVars, masterVars, panicked, twice,
                   pxEvicts, pxFaults>>

\* A request put into the queue that the subscription names: nobody reads that of a proxy that
\* has ended.
Asked(s, init) == IF s \in subbed \ oldSub THEN {[sess |-> s, init |-> init]} ELSE {}

proxiedLeave(s) ==
    /\ sessState[s] = "live" /\ inflight[s] = "none" /\ s \in subbed /\ pxAsks < MaxAsk
    /\ pxAsks' = pxAsks + 1
    /\ inflight' = [inflight EXCEPT ![s] = IF s \in oldSub THEN "lost" ELSE "leave"]
    /\ proxyUnreg' = proxyUnreg \cup Asked(s, TRUE)
    /\ UNCHANGED <<sessState, subVars, proxyUp, proxySess, proxyTimer, unregDue, goneDue, proxyIn,
                   topicVars, muxVars, masterVars, panicked, twice, pxEvicts, pxFaults>>

\* The write loop of the session reads its detach channel: whichever subscription it has goes.
proxiedDetach(s) ==
    /\ sessState[s] # "ended" /\ pxDetach[s] > 0
    /\ pxDetach' = [pxDetach EXCEPT ![s] = @ - 1]
    /\ subbed' = subbed \ {s} /\ oldSub' = oldSub \ {s}
    /\ lateDetached' = lateDetached \cup ({s} \cap proxySess)
    /\ UNCHANGED <<sessState, inflight, proxyVars, proxyIn, topicVars, muxVars, masterVars, panicked, twice,
                   boundVars>>

\* cleanUp raises the flag and empties the channels, waits for the request under way, deletes the
\* session and leaves.
terminating(s) ==
    /\ sessState[s] = "live"
    /\ sessState' = [sessState EXCEPT ![s] = "terminating"] /\ pxDetach' = [pxDetach EXCEPT ![s] = 0]
    /\ UNCHANGED <<inflight, subbed, oldSub, lateDetached, proxyVars, proxyIn, topicVars, muxVars, masterVars, panicked, twice, boundVars>>

proxiedCleanUp(s) ==
    /\ sessState[s] = "terminating" /\ inflight[s] = "none"
    /\ sessState' = [sessState EXCEPT ![s] = "ended"]
    /\ proxyUnreg' = proxyUnreg \cup Asked(s, FALSE)
    /\ UNCHANGED <<inflight, subVars, proxyUp, proxySess, proxyTimer, unregDue, goneDue, proxyIn,
                   topicVars, muxVars, masterVars, panicked, twice, boundVars>>

-----------------------------------------------------------------------------
(* Requests of the proxy, as TopicMaster takes them. *)

\* The multiplex session of a request: the one in the store, or a new one.
MuxOf == IF mux = 0 THEN muxMade + 1 ELSE mux
GetMux == MuxOf <= MaxMux /\ mux' = MuxOf /\ muxMade' = IF mux = 0 THEN MuxOf ELSE muxMade

\* scheduleClusterWriteLoop: nothing is done for a write loop that is still marked as scheduled.
Woken(state) == IF state = "no" THEN "yes" ELSE state

\* queueOut to a multiplex session: its write loop is scheduled.
QueueTo(m, msg) ==
    /\ muxOut' = [muxOut EXCEPT ![m] = Append(@, msg)]
    /\ scheduled' = [scheduled EXCEPT ![m] = Woken(@)]

\* The call fails: the master is down, or the transport gives up.
CallFails ==
    /\ \/ panicked /\ UNCHANGED pxFaults
       \/ ~panicked /\ pxFaults < MaxRouteFault /\ pxFaults' = pxFaults + 1
    /\ UNCHANGED <<mux, muxMade, masterReg, masterUnreg, muxOut, scheduled>>

TopicMasterJoin(s) ==
    /\ ~panicked /\ GetMux
    /\ \/ masterReg' = Append(masterReg, [sess |-> s, mux |-> MuxOf]) /\ UNCHANGED <<muxOut, scheduled>>
       \* The queue of the Hub is full.
       \/ UNCHANGED masterReg /\ QueueTo(MuxOf, [kind |-> "join", sess |-> s, ok |-> FALSE])
    /\ UNCHANGED <<masterUnreg, pxFaults>>

\* A leave for the user of a session, or, from proxyMasterResponse, without a session.
TopicMasterLeave(kind, s) ==
    /\ ~panicked /\ GetMux
    /\ masterUnreg' = Append(masterUnreg, [kind |-> kind, sess |-> s, mux |-> MuxOf])
    /\ UNCHANGED <<masterReg, muxOut, scheduled, pxFaults>>

\* runProxy hands a join on. The Hub has created the proxy if there was none. A session that is
\* terminating asks for nothing.
proxyJoin(s) ==
    /\ inflight[s] = "join"
    /\ inflight' = [inflight EXCEPT ![s] = "none"]
    /\ proxyUp' = TRUE
    /\ \/ sessState[s] = "live" /\ (TopicMasterJoin(s) \/ CallFails)
       \/ sessState[s] # "live" /\ UNCHANGED <<masterVars, muxOut, scheduled, pxFaults>>
    /\ UNCHANGED <<sessState, subVars, proxySess, proxyTimer, unregDue, goneDue, proxyUnreg, proxyIn,
                   topicVars, muxSub, muxStop, muxDetach, panicked, twice, pxAsks, pxEvicts>>

\* handleProxyLeaveRequest: the session goes without waiting for the master's answer.
handleProxyLeaveRequest(r) ==
    LET s == r.sess
    IN  /\ proxyUp /\ r \in proxyUnreg
        /\ proxyUnreg' = proxyUnreg \ {r}
        /\ proxySess' = proxySess \ {s}
        /\ LET gone == {s} \cap proxySess
           IN  subbed' = subbed \ gone /\ oldSub' = oldSub \ gone /\ lateDetached' = lateDetached \ gone
        /\ inflight' = IF r.init THEN [inflight EXCEPT ![s] = "none"] ELSE inflight
        /\ IF r.init \/ s \in proxySess
             THEN /\ TopicMasterLeave("leave", s) \/ CallFails
                  /\ proxyTimer' = (proxyTimer \/ proxySess' = {})
             ELSE UNCHANGED <<proxyTimer, masterVars, muxOut, scheduled, pxFaults>>
        /\ UNCHANGED <<sessState, pxDetach, proxyUp, unregDue, goneDue, proxyIn, topicVars, muxSub, muxStop,
                       muxDetach, panicked, twice, pxAsks, pxEvicts>>

\* topicProxyGone: the write loop of the multiplex session is told to stop.
topicProxyGone ==
    /\ goneDue /\ goneDue' = FALSE
    /\ \/ /\ ~panicked /\ mux # 0 /\ ~muxStop[mux]
          /\ muxStop' = [muxStop EXCEPT ![mux] = TRUE]
          /\ scheduled' = [scheduled EXCEPT ![mux] = Woken(@)]
          /\ UNCHANGED <<masterVars, muxOut, pxFaults>>
       \/ ~panicked /\ mux = 0 /\ UNCHANGED <<muxStop, scheduled, masterVars, muxOut, pxFaults>>
       \/ CallFails /\ UNCHANGED muxStop
    /\ UNCHANGED <<clientVars, proxyUp, proxySess, proxyTimer, unregDue, proxyUnreg, proxyIn, topicVars,
                   muxSub, muxDetach, panicked, twice, pxAsks, pxEvicts>>

-----------------------------------------------------------------------------
(* What the proxy does with answers, and its end. *)

\* The session of an answer is in the store.
Found(s) == sessState[s] # "ended"

\* addSession and addSub: the subscription names the queues of this proxy.
Added(s) ==
    /\ proxySess' = proxySess \cup {s} /\ subbed' = subbed \cup {s}
    /\ oldSub' = oldSub \ {s} /\ lateDetached' = lateDetached \ {s}

\* detachSession of the sessions that go: each is sent a message, a session that is terminating
\* only if the flag was read before it was raised.
Dismissed(out) ==
    /\ \E sent \in SUBSET out :
          /\ \A s \in out : /\ sessState[s] = "live" => s \in sent
                           /\ s \in sent => sessState[s] # "ended"
          /\ pxDetach' = [s \in PxSession |-> IF s \in sent THEN pxDetach[s] + 1 ELSE pxDetach[s]]

\* Faulty variant: the session was looked up before, and is added although it has ended.
joinAnsweredStale(s) ==
    /\ Added(s) /\ proxyTimer' = FALSE
    /\ UNCHANGED <<masterVars, muxOut, scheduled, pxFaults>>

\* A join succeeded: the session is added, if it has not ended meanwhile. Otherwise the proxy
\* leaves in its place, without a session.
joinAnswered(s) ==
    /\ proxyTimer' = FALSE
    /\ \/ /\ Found(s)
          /\ Added(s)
          /\ UNCHANGED <<masterVars, muxOut, scheduled, pxFaults>>
       \/ ~Found(s) /\ UNCHANGED <<proxySess, subbed, oldSub, lateDetached>> /\ (TopicMasterLeave("nil", s) \/ CallFails)

\* Any other answer: a failed join, a leave, or the eviction of a user.
otherAnswered(msg) ==
    LET out == CASE msg.kind = "leave" -> {msg.sess} \cap {s \in proxySess : Found(s)}
                 [] msg.kind = "evicted" -> {s \in proxySess : PxUser[s] = msg.user}
                 [] OTHER -> {}
    IN  /\ proxySess' = proxySess \ out /\ lateDetached' = lateDetached \ out
        \* An evicted session is detached; one that left is not.
        /\ IF msg.kind = "evicted" THEN Dismissed(out) ELSE UNCHANGED pxDetach
        /\ UNCHANGED <<subbed, oldSub>>
        /\ proxyTimer' = (proxyTimer \/ (msg.kind # "evicted" /\ proxySess' = {}))

proxyMasterResponse ==
    /\ proxyUp /\ proxyIn # <<>>
    /\ proxyIn' = Tail(proxyIn)
    /\ LET msg == Head(proxyIn)
       IN  IF msg.kind = "join" /\ msg.ok
             THEN joinAnswered(msg.sess) /\ UNCHANGED pxDetach
             ELSE otherAnswered(msg) /\ UNCHANGED <<masterVars, muxOut, scheduled, pxFaults>>
    /\ UNCHANGED <<sessState, inflight, proxyUp, unregDue, goneDue, proxyUnreg, topicVars, muxSub,
                   muxStop, muxDetach, panicked, twice, pxAsks, pxEvicts>>

\* The proxy has been without sessions for a while, and asks the Hub to be unloaded.
proxyTimeout ==
    /\ proxyUp /\ proxyTimer /\ proxyTimer' = FALSE /\ unregDue' = TRUE
    /\ UNCHANGED <<clientVars, proxyUp, proxySess, goneDue, proxyUnreg, proxyIn, topicVars, muxVars,
                   masterVars, panicked, twice, boundVars>>

\* The Hub takes the proxy down, and its loop ends: sessions are detached, and the requests in its
\* queues are not looked at any more, with the joins that the Hub had put there. The subscriptions
\* go on naming them.
proxyExit ==
    /\ proxyUp /\ unregDue
    /\ proxyUp' = FALSE /\ unregDue' = FALSE /\ goneDue' = TRUE /\ proxyTimer' = FALSE
    /\ proxySess' = {} /\ proxyUnreg' = {} /\ proxyIn' = <<>>
    /\ Dismissed(proxySess) /\ oldSub' = subbed /\ lateDetached' = {} /\ UNCHANGED subbed
    /\ \E joins \in SUBSET {s \in PxSession : inflight[s] = "join"} :
          inflight' = [s \in PxSession |->
              IF s \in joins \/ inflight[s] = "leave" THEN "lost" ELSE inflight[s]]
    /\ UNCHANGED <<sessState, topicVars, muxVars, masterVars, panicked, twice, boundVars>>

-----------------------------------------------------------------------------
(* The master topic. *)

\* subscriptionReply, or its refusal.
masterRegister ==
    /\ ~panicked /\ masterReg # <<>>
    /\ masterReg' = Tail(masterReg)
    /\ LET s == Head(masterReg).sess
           m == Head(masterReg).mux
           held == IF m \in attachedMux THEN muids[m] ELSE NoUsers
       IN  \/ /\ attachedMux' = attachedMux \cup {m} /\ muxSub' = muxSub \cup {m}
              /\ muids' = [muids EXCEPT ![m] = [held EXCEPT ![PxUser[s]] = @ + 1]]
              /\ online' = [online EXCEPT ![PxUser[s]] = @ + 1]
              /\ QueueTo(m, [kind |-> "join", sess |-> s, ok |-> TRUE])
           \/ /\ QueueTo(m, [kind |-> "join", sess |-> s, ok |-> FALSE])
              /\ UNCHANGED <<topicVars, muxSub>>
    /\ UNCHANGED <<clientVars, proxyVars, proxyIn, mux, muxMade, masterUnreg, muxStop, muxDetach, panicked,
                   twice, boundVars>>

\* remSession for one user of a multiplex session, which goes with the last of them.
OneFewer(m, u) == [muids[m] EXCEPT ![u] = @ - 1]
Holds(m, u) == m \in attachedMux /\ muids[m][u] > 0
Empties(m, u) == Holds(m, u) /\ OneFewer(m, u) = NoUsers

\* handleLeaveRequest of one session.
leaveOne(m, s) ==
    LET u == PxUser[s]
    IN  \/ /\ Holds(m, u)
           /\ muids' = [muids EXCEPT ![m] = OneFewer(m, u)]
           /\ attachedMux' = IF Empties(m, u) THEN attachedMux \ {m} ELSE attachedMux
           /\ online' = [online EXCEPT ![u] = @ - 1]
           /\ QueueTo(m, [kind |-> "leave", sess |-> s, ok |-> TRUE])
        \/ ~Holds(m, u) /\ UNCHANGED <<topicVars, muxOut, scheduled>>

\* ... and of a multiplex session as a whole.
leaveAll(m) ==
    /\ attachedMux' = attachedMux \ {m} /\ muids' = [muids EXCEPT ![m] = NoUsers]
    /\ muxSub' = IF m \in attachedMux THEN muxSub \ {m} ELSE muxSub
    /\ online' = [u \in User |-> IF m \in attachedMux THEN online[u] - muids[m][u] ELSE online[u]]

\* A leave without a session dereferences nil: the process ends.
masterUnregister ==
    /\ ~panicked /\ masterUnreg # <<>>
    /\ masterUnreg' = Tail(masterUnreg)
    /\ LET r == Head(masterUnreg)
       IN  \/ r.kind = "nil" /\ panicked' = TRUE /\ UNCHANGED <<topicVars, muxSub, muxOut, scheduled>>
           \/ r.kind = "leave" /\ leaveOne(r.mux, r.sess) /\ UNCHANGED <<muxSub, panicked>>
           \/ r.kind = "mux" /\ leaveAll(r.mux) /\ UNCHANGED <<muxOut, scheduled, panicked>>
    /\ UNCHANGED <<clientVars, proxyVars, proxyIn, mux, muxMade, masterReg, muxStop, muxDetach, twice,
                   boundVars>>

\* evictUser takes one of the user's places from each multiplex session.
evictUser(u) ==
    /\ ~panicked /\ pxEvicts < MaxEvictUser /\ pxEvicts' = pxEvicts + 1
    /\ online' = [online EXCEPT ![u] = 0]
    /\ muids' = [m \in Mux |-> IF Holds(m, u) THEN OneFewer(m, u) ELSE muids[m]]
    /\ attachedMux' = {m \in attachedMux : ~Empties(m, u)}
    /\ muxDetach' = [m \in Mux |-> IF Empties(m, u) THEN muxDetach[m] + 1 ELSE muxDetach[m]]
    /\ muxOut' = [m \in Mux |-> IF Holds(m, u) THEN Append(muxOut[m], [kind |-> "evicted", user |-> u])
                                               ELSE muxOut[m]]
    /\ scheduled' = [m \in Mux |-> IF Holds(m, u) THEN Woken(scheduled[m]) ELSE scheduled[m]]
    /\ twice' = IF \E m \in Mux : Holds(m, u) /\ muids[m][u] > 1 THEN twice \cup {u} ELSE twice
    /\ UNCHANGED <<clientVars, proxyVars, proxyIn, masterVars, muxSub, muxStop, panicked, pxAsks, pxFaults>>

\* broadcastToSessions drops a multiplex session whose queue is full.
dropSession(m) ==
    /\ ~panicked /\ m \in attachedMux /\ pxFaults < MaxRouteFault /\ pxFaults' = pxFaults + 1
    /\ leaveAll(m)
    /\ UNCHANGED <<clientVars, proxyVars, proxyIn, masterVars, muxOut, muxStop, muxDetach, scheduled,
                   panicked, twice, pxAsks, pxEvicts>>

-----------------------------------------------------------------------------
(* clusterWriteLoop. *)

\* It ends the session: whichever is in the store under this name, and the subscription.
endMux(m) ==
    /\ mux' = 0 /\ scheduled' = [scheduled EXCEPT ![m] = "no"]
    /\ masterUnreg' = IF m \in muxSub THEN Append(masterUnreg, [kind |-> "mux", mux |-> m]) ELSE masterUnreg

\* TopicProxy puts a message into the queue of the proxy, or fails.
writeOne(m) ==
    /\ muxOut[m] # <<>>
    /\ muxOut' = [muxOut EXCEPT ![m] = Tail(@)]
    /\ \/ /\ proxyUp /\ proxyIn' = Append(proxyIn, Head(muxOut[m]))
          /\ UNCHANGED <<mux, scheduled, masterUnreg, pxFaults>>
       \/ ~proxyUp /\ endMux(m) /\ UNCHANGED <<proxyIn, pxFaults>>
       \/ proxyUp /\ pxFaults < MaxRouteFault /\ pxFaults' = pxFaults + 1 /\ endMux(m) /\ UNCHANGED proxyIn
    /\ UNCHANGED <<muxStop, muxDetach>>

stopOrDetach(m) ==
    /\ \/ muxStop[m] /\ muxStop' = [muxStop EXCEPT ![m] = FALSE] /\ UNCHANGED muxDetach
       \/ muxDetach[m] > 0 /\ muxDetach' = [muxDetach EXCEPT ![m] = @ - 1] /\ UNCHANGED muxStop
    /\ endMux(m)
    /\ UNCHANGED <<muxOut, proxyIn, pxFaults>>

\* Nothing is left to do. What comes before the mark is cleared finds the loop scheduled ...
writeRests(m) ==
    /\ muxOut[m] = <<>> /\ ~muxStop[m] /\ muxDetach[m] = 0
    /\ scheduled' = [scheduled EXCEPT ![m] = "resting"]
    /\ UNCHANGED <<mux, masterUnreg, muxOut, muxStop, muxDetach, proxyIn, pxFaults>>

\* ... and only for messages is the loop scheduled once more.
writeRested(m) ==
    /\ scheduled' = [scheduled EXCEPT ![m] = IF muxOut[m] # <<>> THEN "yes" ELSE "no"]
    /\ UNCHANGED <<mux, masterUnreg, muxOut, muxStop, muxDetach, proxyIn, pxFaults>>

clusterWriteLoop(m) ==
    /\ ~panicked
    /\ \/ scheduled[m] = "yes" /\ (writeOne(m) \/ stopOrDetach(m) \/ writeRests(m))
       \/ scheduled[m] = "resting" /\ writeRested(m)
    /\ UNCHANGED <<clientVars, proxyVars, topicVars, muxSub, muxMade, masterReg, panicked, twice, pxAsks, pxEvicts>>

-----------------------------------------------------------------------------
ProxyInit ==
    /\ sessState = [s \in PxSession |-> "live"] /\ inflight = [s \in PxSession |-> "none"] /\ subbed = {}
    /\ oldSub = {} /\ pxDetach = [s \in PxSession |-> 0] /\ lateDetached = {}
    /\ proxyUp = FALSE /\ proxySess = {} /\ proxyTimer = FALSE /\ unregDue = FALSE /\ goneDue = FALSE
    /\ proxyUnreg = {} /\ proxyIn = <<>>
    /\ mux = 0 /\ muxMade = 0 /\ masterReg = <<>> /\ masterUnreg = <<>>
    /\ attachedMux = {} /\ muids = [m \in Mux |-> NoUsers] /\ online = NoUsers /\ muxSub = {}
    /\ muxOut = [m \in Mux |-> <<>>] /\ muxStop = [m \in Mux |-> FALSE]
    /\ muxDetach = [m \in Mux |-> 0] /\ scheduled = [m \in Mux |-> "no"]
    /\ panicked = FALSE /\ twice = {}
    /\ pxAsks = 0 /\ pxEvicts = 0 /\ pxFaults = 0

ProxyNext ==
    \/ \E s \in PxSession : proxiedSubscribe(s) \/ proxiedLeave(s) \/ proxiedDetach(s)
    \/ \E s \in PxSession : terminating(s) \/ proxiedCleanUp(s) \/ proxyJoin(s)
    \/ \E r \in proxyUnreg : handleProxyLeaveRequest(r)
    \/ topicProxyGone \/ proxyMasterResponse \/ proxyTimeout \/ proxyExit
    \/ masterRegister \/ masterUnregister
    \/ \E u \in User : evictUser(u)
    \/ \E m \in Mux : dropSession(m) \/ clusterWriteLoop(m)

\* The loops of both nodes run; nothing makes a client ask or end.
ProxyFairness ==
    /\ \A s \in PxSession : WF_proxyTopicVars(proxiedCleanUp(s) \/ proxyJoin(s))
    /\ WF_proxyTopicVars(\E r \in proxyUnreg : handleProxyLeaveRequest(r))
    /\ WF_proxyTopicVars(topicProxyGone) /\ WF_proxyTopicVars(proxyMasterResponse)
    /\ WF_proxyTopicVars(proxyTimeout) /\ WF_proxyTopicVars(proxyExit)
    /\ WF_proxyTopicVars(masterRegister) /\ WF_proxyTopicVars(masterUnregister)
    /\ \A m \in Mux : WF_proxyTopicVars(clusterWriteLoop(m))
ProxySpec == ProxyInit /\ [][ProxyNext]_proxyTopicVars /\ ProxyFairness

-----------------------------------------------------------------------------
ProxyTypeOK ==
    /\ sessState \in [PxSession -> {"live", "terminating", "ended"}]
    /\ inflight \in [PxSession -> {"none", "join", "leave", "lost"}]
    /\ subbed \subseteq PxSession /\ oldSub \subseteq subbed /\ pxDetach \in [PxSession -> Nat]
    /\ proxySess \subseteq PxSession /\ lateDetached \subseteq proxySess
    /\ {proxyUp, proxyTimer, unregDue, goneDue, panicked} \subseteq BOOLEAN /\ twice \subseteq User
    /\ proxyUnreg \subseteq [sess : PxSession, init : BOOLEAN]
    /\ mux \in 0 .. MaxMux /\ muxMade \in 0 .. MaxMux /\ attachedMux \subseteq Mux /\ muxSub \subseteq Mux
    /\ \A r \in {masterReg[i] : i \in DOMAIN masterReg} : r.mux \in Mux
    /\ muids \in [Mux -> [User -> Nat]] /\ online \in [User -> Int]
    /\ muxStop \in [Mux -> BOOLEAN] /\ scheduled \in [Mux -> {"no", "yes", "resting"}] /\ muxDetach \in [Mux -> Nat]

\* The places that multiplex sessions hold for a user.
Places(u) == UNION {{m} \X (1 .. muids[m][u]) : m \in attachedMux}

(* The master never counts a user online more often than multiplex sessions hold the user, *)
(* and exactly as often, across joins and leaves that overtake each other, multiplex       *)
(* sessions that end while requests for them are queued, and evictions                     *)
(* (perUserData.online). A user who was held twice and has been evicted may be counted     *)
(* less: evictUser takes only one of the places.                                           *)
OnlineIsHeld ==
    \A u \in User : /\ online[u] <= Cardinality(Places(u))
                    /\ u \notin twice => online[u] = Cardinality(Places(u))

(* The proxy keeps no session that has ended, unless its leave is queued: whichever comes  *)
(* first, the answer to the join or the end of the session, one of the two sees the other  *)
(* (proxyMasterResponse looks the session up again under sessionStoreLock), and a leave    *)
(* never goes to a proxy that has ended. A session that was evicted and, by a join that    *)
(* was under way, added again before its write loop came to the message of the eviction    *)
(* loses the new subscription to it: when it ends it does not leave, and stays.            *)
EndedIsLeaving ==
    \A s \in proxySess \ lateDetached : sessState[s] = "ended" => [sess |-> s, init |-> FALSE] \in proxyUnreg

ProxySafe == OnlineIsHeld /\ EndedIsLeaving

(* The comment in proxyMasterResponse says that the leave sent for a session that ended    *)
(* while it was joining removes its subscription at the master: the master outlives it.    *)
MasterSurvives == ~panicked

(* The comment in TopicMaster says that the sessions of a proxy that is gone are cleaned   *)
(* up at the master, so that its topic can be closed.                                      *)
GoneIsCleanedUp == <>[](~proxyUp) => <>[](attachedMux = {} \/ panicked)

(* The comment in NewSession says that at most one request of a session modifies a topic   *)
(* at a time. A proxied join counts as done once it has been handed on.                    *)
OneRequestAtATime ==
    \A s \in PxSession : Cardinality({i \in DOMAIN masterReg : masterReg[i].sess = s}) <= 1
=============================================================================
