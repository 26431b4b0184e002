---------------------------- MODULE HubLifecycle ----------------------------
(***************************************************************************)
(* The Hub, the instances of one topic name and the sessions that join and *)
(* leave it, on one node: loading, idle time-out, rehashing and shutdown.  *)
(*                                                                         *)
(* The Hub, every topicInit, every topic loop and every session are        *)
(* goroutines that talk through channels. Access checks are a choice; what *)
(* a topic publishes is in FencedTopics. An instance made while the name   *)
(* is remote is a proxy: its loop answers and ends in the same way. The    *)
(* deletion of a topic, also by the last member of a P2P topic, is left    *)
(* out.                                                                    *)
(***************************************************************************)
EXTENDS Naturals, Sequences, FiniteSets

CONSTANTS
    HSession,     \* sessions
    HUser,        \* their users
    MaxTopicInst, \* bound: instances of the topic that are ever made
    HubQueue,     \* capacity of hub.join, hub.unreg, topic.reg and topic.unreg
    MaxRehash     \* bound: changes of the ring

ASSUME HubAssumption ==
    {MaxTopicInst, HubQueue, MaxRehash} \subseteq Nat /\ "none" \notin HSession

Inst == 1 .. MaxTopicInst

VARIABLES
    hubLoop,    \* running, waiting for topics in the shutdown, or done
    hubTopics,  \* the instance in the Hub's map, 0 if none
    hubJoin, hubUnreg,
    hubWaits,   \* instances whose done the Hub counts on
    topics,     \* the instances
    reg, unreg, \* their queues of join and leave requests
    session,    \* the sessions
    remote, rehashes,
    rehashing,  \* applyControlPlaneView is blocked in hub.rehash
    shuttingDown, \* no, the flag is set, or the cluster is closed too
    stranded,   \* sessions whose request is held by an instance that has ended or is stuck
    stolen,     \* a failed topicInit has removed another instance from the map
    forgotten   \* instances that ended with a shutdown request unread

hubVars == <<hubLoop, hubTopics, hubJoin, hubUnreg, hubWaits, topics, reg, unreg, session, remote,
             rehashes, rehashing, shuttingDown, stranded, stolen, forgotten>>
flagVars == <<stranded, stolen, forgotten>>
envVars == <<remote, rehashes, rehashing, shuttingDown>>

NewInst(s) == [pc |-> "init", paused |-> TRUE, deleted |-> FALSE, starter |-> s, proxy |-> remote,
               exit |-> "none", timer |-> FALSE, sessions |-> {}]
NoInst == [pc |-> "none", paused |-> FALSE, deleted |-> FALSE, starter |-> "none", proxy |-> FALSE,
           exit |-> "none", timer |-> FALSE, sessions |-> {}]
isInactive(i) == topics[i].paused \/ topics[i].deleted
Used == Cardinality({i \in Inst : topics[i].pc # "none"})

\* inflightReqs.Done: the request of s is answered.
Answered(ss, s) == IF s \in HSession THEN [ss EXCEPT ![s].request = "none"] ELSE ss

-----------------------------------------------------------------------------
(* Sessions. *)

IsLive(s) == session[s].closing = "no"

subscribe(s) ==
    /\ IsLive(s) /\ session[s].request = "none" /\ session[s].sub = 0 /\ Len(hubJoin) < HubQueue
    /\ hubJoin' = Append(hubJoin, s)
    /\ session' = [session EXCEPT ![s].request = "join"]
    /\ UNCHANGED <<hubLoop, hubTopics, hubUnreg, hubWaits, topics, reg, unreg, envVars, flagVars>>

\* leave sends to the queue of the instance the session knows, whether or not it still runs.
leave(s) ==
    LET i == session[s].sub
    IN  /\ IsLive(s) /\ session[s].request = "none" /\ i # 0 /\ Len(unreg[i]) < HubQueue
        /\ unreg' = [unreg EXCEPT ![i] = Append(@, s)]
        /\ session' = [session EXCEPT ![s].request = "leave"]
        /\ stranded' = IF topics[i].pc = "gone" THEN stranded \cup {s} ELSE stranded
        /\ UNCHANGED <<hubLoop, hubTopics, hubJoin, hubUnreg, hubWaits, topics, reg, envVars, stolen,
                       forgotten>>

\* The write loop takes a detach message: the subscription of that name goes, whichever it is.
detachSession(s) ==
    /\ session[s].detach /\ session[s].closing # "done"
    /\ session' = [session EXCEPT ![s].detach = FALSE, ![s].sub = 0]
    /\ UNCHANGED <<hubLoop, hubTopics, hubJoin, hubUnreg, hubWaits, topics, reg, unreg, envVars, flagVars>>

disconnect(s) ==
    /\ IsLive(s)
    /\ session' = [session EXCEPT ![s].closing = "wait", ![s].detach = FALSE]
    /\ UNCHANGED <<hubLoop, hubTopics, hubJoin, hubUnreg, hubWaits, topics, reg, unreg, envVars, flagVars>>

\* cleanUp has waited for the request under way; unsubAll leaves without asking for an answer.
cleanUp(s) ==
    LET i == session[s].sub
    IN  /\ session[s].closing = "wait" /\ session[s].request = "none"
        /\ i # 0 => Len(unreg[i]) < HubQueue
        /\ unreg' = IF i # 0 THEN [unreg EXCEPT ![i] = Append(@, s)] ELSE unreg
        /\ session' = [session EXCEPT ![s].closing = "done"]
        /\ UNCHANGED <<hubLoop, hubTopics, hubJoin, hubUnreg, hubWaits, topics, reg, envVars, flagVars>>

-----------------------------------------------------------------------------
(* The Hub. *)

\* makeTopic: a paused instance enters the map and topicInit starts.
makeTopic(s) ==
    /\ Used < MaxTopicInst
    /\ hubTopics' = Used + 1
    /\ topics' = [topics EXCEPT ![Used + 1] = NewInst(s)]

\* A join: the instance is made, or gets the request unless it is inactive or its queue full.
hubTakesJoin ==
    LET s == Head(hubJoin)
    IN  /\ hubLoop = "run" /\ hubJoin # <<>>
        /\ hubJoin' = Tail(hubJoin)
        /\ \/ hubTopics = 0 /\ makeTopic(s) /\ UNCHANGED <<session, reg>>
           \/ /\ hubTopics # 0 /\ UNCHANGED <<hubTopics, topics>>
              /\ IF isInactive(hubTopics) \/ Len(reg[hubTopics]) = HubQueue
                   THEN session' = Answered(session, s) /\ UNCHANGED reg
                   ELSE reg' = [reg EXCEPT ![hubTopics] = Append(@, s)] /\ UNCHANGED session
        /\ UNCHANGED <<hubLoop, hubUnreg, hubWaits, unreg, envVars, flagVars>>

\* Faulty variant: the instance leaves the map without being marked.
TakeDownUnmarked(reason) ==
    /\ hubTopics' = 0
    /\ topics' = [topics EXCEPT ![hubTopics].exit = reason]

\* topicUnreg, case 2: whichever instance has the name is marked deleted, leaves the map and
\* is told to exit.
TakeDown(reason) ==
    /\ hubTopics' = 0
    /\ topics' = [topics EXCEPT ![hubTopics].deleted = TRUE, ![hubTopics].exit = reason]

hubTakesUnreg ==
    /\ hubLoop = "run" /\ hubUnreg > 0
    /\ hubUnreg' = hubUnreg - 1
    /\ IF hubTopics # 0 THEN TakeDown("idle") ELSE UNCHANGED <<hubTopics, topics>>
    /\ UNCHANGED <<hubLoop, hubJoin, hubWaits, reg, unreg, session, envVars, flagVars>>

\* Instances on the wrong side of the new ring are taken down.
hubTakesRehash ==
    /\ hubLoop = "run" /\ rehashing
    /\ rehashing' = FALSE
    /\ IF hubTopics # 0 /\ topics[hubTopics].proxy # remote
         THEN TakeDown("rehash") ELSE UNCHANGED <<hubTopics, topics>>
    /\ UNCHANGED <<hubLoop, hubJoin, hubUnreg, hubWaits, reg, unreg, session, remote, rehashes,
                   shuttingDown, flagVars>>

\* The Hub's shutdown: every instance of the map must report.
hubTakesShutdown ==
    /\ hubLoop = "run" /\ shuttingDown = "cluster"
    /\ hubLoop' = "wait"
    /\ IF hubTopics # 0
         THEN /\ topics' = [topics EXCEPT ![hubTopics].exit = "shutdown"]
              /\ hubWaits' = {hubTopics}
         ELSE UNCHANGED <<topics, hubWaits>>
    /\ UNCHANGED <<hubTopics, hubJoin, hubUnreg, reg, unreg, session, envVars, flagVars>>

hubStops ==
    /\ hubLoop = "wait" /\ hubWaits = {}
    /\ hubLoop' = "done"
    /\ UNCHANGED <<hubTopics, hubJoin, hubUnreg, hubWaits, topics, reg, unreg, session, envVars, flagVars>>

-----------------------------------------------------------------------------
(* topicInit. *)

\* It ends without a topic: the answer to the join is the deferred Done.
InitEnds(i) ==
    /\ topics' = [topics EXCEPT ![i].pc = "gone"]
    /\ session' = Answered(session, topics[i].starter)

\* topicDel removes whatever has the name.
topicDel(i) ==
    /\ hubTopics' = 0
    /\ stolen' = (stolen \/ hubTopics \notin {0, i})

\* The store has loaded the topic.
topicInitDone(i) ==
    /\ topics[i].pc = "init"
    /\ \/ /\ shuttingDown # "no"
          /\ InitEnds(i) /\ topicDel(i)
          /\ forgotten' = IF topics[i].exit = "shutdown" THEN forgotten \cup {i} ELSE forgotten
          /\ UNCHANGED reg
       \/ /\ shuttingDown = "no" /\ topics[i].deleted
          /\ InitEnds(i)
          /\ UNCHANGED <<hubTopics, stolen, reg, forgotten>>
       \/ /\ shuttingDown = "no" /\ ~topics[i].deleted
          /\ topics' = [topics EXCEPT ![i].pc = "run", ![i].paused = FALSE]
          /\ reg' = IF topics[i].starter = "none" THEN reg
                    ELSE [reg EXCEPT ![i] = Append(@, topics[i].starter)]
          /\ UNCHANGED <<hubTopics, stolen, session, forgotten>>
    /\ UNCHANGED <<hubLoop, hubJoin, hubUnreg, hubWaits, unreg, envVars, stranded>>

\* The store has failed: the name leaves the map and a request to exit is answered. Only the
\* shutdown has given a channel for the answer: after an idle time-out or a rehash the send
\* blocks for ever and the deferred Done is never reached.
topicInitFails(i) ==
    /\ topics[i].pc = "init" /\ topicDel(i)
    /\ IF topics[i].exit \in {"idle", "rehash"}
         THEN /\ topics' = [topics EXCEPT ![i].pc = "gone"]
              /\ stranded' = stranded \cup ({topics[i].starter} \cap HSession)
              /\ UNCHANGED session
         ELSE InitEnds(i) /\ UNCHANGED stranded
    /\ hubWaits' = hubWaits \ {i}
    /\ UNCHANGED <<hubLoop, hubJoin, hubUnreg, reg, unreg, envVars, forgotten>>

-----------------------------------------------------------------------------
(* The loop of a topic. *)

\* detachSession: a message to the write loop of each that is not about to end.
Detached(S) == [s \in HSession |->
    IF s \in S /\ IsLive(s) THEN [session[s] EXCEPT !.detach = TRUE] ELSE session[s]]

\* The sessions of u that evictUser takes from the topic.
Evicted(i, u) == {s \in topics[i].sessions : HUser[s] = u}

\* registerSession; the subscription may be refused, or be made without the right to join, which
\* puts out the other sessions of a user who has given it up.
registerSession(i) ==
    LET s == Head(reg[i])
    IN  /\ topics[i].pc = "run" /\ reg[i] # <<>>
        /\ reg' = [reg EXCEPT ![i] = Tail(@)]
        /\ \/ /\ isInactive(i) \/ session[s].sub # 0
              /\ session' = Answered(session, s) /\ UNCHANGED topics
           \/ /\ ~isInactive(i) /\ session[s].sub = 0
              /\ session' = Answered([session EXCEPT ![s].sub = i], s)
              /\ topics' = [topics EXCEPT ![i].sessions = @ \cup {s}, ![i].timer = FALSE]
           \/ /\ ~isInactive(i) /\ session[s].sub = 0
              /\ session' = Answered(session, s)
              /\ topics' = [topics EXCEPT ![i].timer = topics[i].sessions = {}]
           \/ /\ ~isInactive(i) /\ session[s].sub = 0
              /\ \E out \in {{}, Evicted(i, HUser[s])} :
                    /\ session' = Answered(Detached(out), s)
                    /\ topics' = [topics EXCEPT ![i].sessions = @ \ out, ![i].timer = FALSE]
        /\ UNCHANGED <<hubLoop, hubTopics, hubJoin, hubUnreg, hubWaits, unreg, envVars, flagVars>>

\* unregisterSession, asked by the client or by unsubAll. An inactive topic removes nothing. Who
\* leaves loses the subscription at once; with unsub, which only a client asks for, all sessions
\* of the user leave the topic and lose theirs when their write loops get to it, or, refused,
\* nothing changes.
unregisterSession(i) ==
    LET s == Head(unreg[i])
        Leave(out, ss) ==
            /\ session' = Answered(ss, s)
            /\ topics' = [topics EXCEPT ![i].sessions = @ \ out,
                                       ![i].timer = @ \/ topics[i].sessions \ out = {}]
        unsub == session[s].request = "leave"
    IN  /\ topics[i].pc = "run" /\ unreg[i] # <<>>
        /\ unreg' = [unreg EXCEPT ![i] = Tail(@)]
        /\ \/ /\ isInactive(i) \/ s \notin topics[i].sessions \/ unsub
              /\ Leave({}, session)
           \/ /\ ~isInactive(i) /\ s \in topics[i].sessions
              /\ Leave({s}, [session EXCEPT ![s].sub = 0])
           \/ /\ ~isInactive(i) /\ unsub
              /\ Leave(Evicted(i, HUser[s]), Detached(Evicted(i, HUser[s])))
        /\ UNCHANGED <<hubLoop, hubTopics, hubJoin, hubUnreg, hubWaits, reg, envVars, flagVars>>

\* evictUser for a request of somebody else, or of the user for metadata.
topicEvicts(i, u) ==
    /\ topics[i].pc = "run" /\ Evicted(i, u) # {}
    /\ session' = Detached(Evicted(i, u))
    /\ topics' = [topics EXCEPT ![i].sessions = @ \ Evicted(i, u)]
    /\ UNCHANGED <<hubLoop, hubTopics, hubJoin, hubUnreg, hubWaits, reg, unreg, envVars, flagVars>>

\* handleTopicTimeout.
killTimer(i) ==
    /\ topics[i].pc = "run" /\ topics[i].timer /\ hubUnreg < HubQueue
    /\ topics' = [topics EXCEPT ![i].timer = FALSE]
    /\ hubUnreg' = hubUnreg + 1
    /\ UNCHANGED <<hubLoop, hubTopics, hubJoin, hubWaits, reg, unreg, session, envVars, flagVars>>

\* handleTopicTermination: sessions are detached, the Hub is told. Select may choose the exit
\* while requests wait in the other queues.
topicExits(i) ==
    LET waiting == {s \in HSession : session[s].request # "none" /\
                       \E q \in {reg[i], unreg[i]} : \E k \in 1 .. Len(q) : q[k] = s}
    IN  /\ topics[i].pc = "run" /\ topics[i].exit # "none"
        /\ topics' = [topics EXCEPT ![i].pc = "gone"]
        /\ session' = Detached(topics[i].sessions)
        /\ stranded' = stranded \cup waiting
        /\ hubWaits' = hubWaits \ {i}
        /\ UNCHANGED <<hubLoop, hubTopics, hubJoin, hubUnreg, reg, unreg, envVars, stolen, forgotten>>

-----------------------------------------------------------------------------
(* The control plane and the main goroutine. *)

\* applyControlPlaneView has changed the ring and sends to the unbuffered hub.rehash.
ringChanges ==
    /\ ~rehashing /\ rehashes < MaxRehash /\ shuttingDown # "cluster"
    /\ remote' = ~remote /\ rehashes' = rehashes + 1 /\ rehashing' = TRUE
    /\ UNCHANGED <<hubLoop, hubTopics, hubJoin, hubUnreg, hubWaits, topics, reg, unreg, session,
                   shuttingDown, flagVars>>

\* A signal has come: the flag is set.
beginShutdown ==
    /\ shuttingDown = "no" /\ shuttingDown' = "flag"
    /\ UNCHANGED <<hubLoop, hubTopics, hubJoin, hubUnreg, hubWaits, topics, reg, unreg, session, remote,
                   rehashes, rehashing, flagVars>>

\* Cluster.shutdown: Close waits until no view is being applied.
closeCluster ==
    /\ shuttingDown = "flag" /\ ~rehashing /\ shuttingDown' = "cluster"
    /\ UNCHANGED <<hubLoop, hubTopics, hubJoin, hubUnreg, hubWaits, topics, reg, unreg, session, remote,
                   rehashes, rehashing, flagVars>>

-----------------------------------------------------------------------------
HubInit ==
    /\ hubLoop = "run" /\ hubTopics = 0 /\ hubJoin = <<>> /\ hubUnreg = 0 /\ hubWaits = {}
    /\ topics = [i \in Inst |-> NoInst]
    /\ reg = [i \in Inst |-> <<>>] /\ unreg = [i \in Inst |-> <<>>]
    /\ session = [s \in HSession |->
          [request |-> "none", sub |-> 0, detach |-> FALSE, closing |-> "no"]]
    /\ remote = FALSE /\ rehashes = 0 /\ rehashing = FALSE /\ shuttingDown = "no"
    /\ stranded = {} /\ stolen = FALSE /\ forgotten = {}

hubStep == hubTakesJoin \/ hubTakesUnreg \/ hubTakesRehash \/ hubTakesShutdown \/ hubStops
topicInit(i) == topicInitDone(i) \/ topicInitFails(i)
topicLoop(i) == registerSession(i) \/ unregisterSession(i) \/ topicExits(i)
                \/ \E s \in HSession : topicEvicts(i, HUser[s])

HubNext ==
    \/ \E s \in HSession : subscribe(s) \/ leave(s) \/ detachSession(s) \/ disconnect(s) \/ cleanUp(s)
    \/ hubStep
    \/ \E i \in Inst : topicInit(i) \/ topicLoop(i) \/ killTimer(i)
    \/ ringChanges \/ beginShutdown \/ closeCluster

HubSpec == HubInit /\ [][HubNext]_hubVars

-----------------------------------------------------------------------------
InstType == [pc : {"none", "init", "run", "gone"}, paused : BOOLEAN, deleted : BOOLEAN,
             starter : HSession \cup {"none"}, proxy : BOOLEAN,
             exit : {"none", "idle", "rehash", "shutdown"}, timer : BOOLEAN,
             sessions : SUBSET HSession]

\* Type invariant; no queue outgrows its capacity.
HubTypeOK ==
    /\ hubLoop \in {"run", "wait", "done"} /\ hubTopics \in Inst \cup {0}
    /\ Len(hubJoin) <= HubQueue /\ hubUnreg \in 0 .. HubQueue /\ hubWaits \subseteq Inst
    /\ topics \in [Inst -> InstType]
    /\ session \in [HSession -> [request : {"none", "join", "leave"}, sub : Inst \cup {0},
                                 detach : BOOLEAN, closing : {"no", "wait", "done"}]]
    /\ remote \in BOOLEAN /\ rehashing \in BOOLEAN /\ stolen \in BOOLEAN
    /\ shuttingDown \in {"no", "flag", "cluster"}
    /\ rehashes \in 0 .. MaxRehash /\ stranded \subseteq HSession /\ forgotten \subseteq Inst

\* Two loops never accept publications for one topic at a time, although instances are loaded,
\* taken down and replaced without waiting for each other; unless a topicInit that failed late
\* has removed another instance from the map.
OneActiveInstance ==
    ~stolen => \A i, j \in Inst :
        i # j /\ topics[i].pc = "run" /\ topics[j].pc = "run" => isInactive(i) \/ isInactive(j)

\* A request under way is held by someone who will answer it: the Hub's queue, a topicInit, or
\* a topic that still runs; except for requests stranded at an instance that took its exit
\* first, or whose load failed after it was taken down. Otherwise the session could neither ask again nor be cleaned up.
RequestsAreHeld ==
    \A s \in HSession : session[s].request # "none" /\ s \notin stranded /\ hubLoop = "run" =>
        \/ \E k \in 1 .. Len(hubJoin) : hubJoin[k] = s
        \/ \E i \in Inst :
              \/ topics[i].pc = "init" /\ topics[i].starter = s
              \/ /\ topics[i].pc = "run"
                 /\ \E q \in {reg[i], unreg[i]} : \E k \in 1 .. Len(q) : q[k] = s

\* What leave says of itself: the topic will answer.
LeaveIsAnswered ==
    \A s \in HSession : session[s].request = "leave" =>
        \E i \in Inst : topics[i].pc = "run" /\ \E k \in 1 .. Len(unreg[i]) : unreg[i][k] = s

\* A session and the active topic agree on whether it is attached, up to a detach message that
\* the write loop has not taken yet; so no such message is late and ends a newer subscription,
\* although it names the topic only.
AttachedBothWays ==
    \A i \in Inst, s \in HSession :
        topics[i].pc = "run" /\ ~isInactive(i) /\ IsLive(s) =>
            (session[s].sub = i /\ ~session[s].detach <=> s \in topics[i].sessions)

\* The shutdown waits only for instances that will report, whatever was being loaded, joined
\* or taken down; unless a topicInit saw the flag after its instance was asked to report.
ShutdownIsHeard ==
    \A i \in hubWaits \ forgotten : topics[i].pc \in {"init", "run"} /\ topics[i].exit = "shutdown"

\* What the shutdown relies on: every instance it waits for reports.
ShutdownIsAnswered == forgotten = {}

\* applyControlPlaneView, which holds the refresh lock, never waits for a Hub that has stopped.
RehashIsHeard == rehashing => hubLoop = "run"

\* Whatever is loaded, taken down and replaced under them, sessions are served: a request is
\* held by someone who will answer it, and session and topic agree on who is attached.
SessionsAreServed == RequestsAreHeld /\ AttachedBothWays

\* Neither the Hub's shutdown nor a change of the ring waits for someone who is gone.
WaitsAreHeard == ShutdownIsHeard /\ RehashIsHeard

\* One instance of a topic at a time, which serves its sessions and hears who waits for it.
HubSafe == OneActiveInstance /\ SessionsAreServed /\ WaitsAreHeard
=============================================================================
