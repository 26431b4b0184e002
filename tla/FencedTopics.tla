---------------------------- MODULE FencedTopics ----------------------------
(***************************************************************************)
(* The publish path of a clustered server over the promises of EpochFence: *)
(* the Hub's topic instances, saveAndBroadcastMessage with its fencing     *)
(* token and client-id idempotency, and the database transaction that      *)
(* checks the fence, claims the topic row and inserts the message.         *)
(*                                                                         *)
(* A topic instance runs in a goroutine of its own and handles one publish *)
(* at a time; the Hub drops an instance without waiting for it, so a       *)
(* publish of a dropped instance may still commit while its successor      *)
(* runs. Permissions, policies, presence, broadcast and push follow the    *)
(* same control flow and are left out.                                     *)
(***************************************************************************)
EXTENDS EpochFence

CONSTANTS
    Topic,      \* topic names
    Cid,        \* client ids; a client retries with the same one
    Owner(_, _),\* Owner(S, t): the ring built from the names S assigns topic t to
    NoNode,     \* the answer of an empty ring
    MaxGen,     \* bound: topic instances per process and topic
    MaxLost     \* bound: database answers lost after the commit

ASSUME OwnerAssumption ==
    /\ NoNode \notin Node
    /\ \A S \in SUBSET Node, t \in Topic : Owner(S, t) \in IF S = {} THEN {NoNode} ELSE S
ASSUME TopicBoundAssumption == MaxGen \in Nat /\ MaxLost \in Nat

VARIABLES
    row,      \* the topics table: seqid, clusterowner, clusterepoch
    messages, \* the messages table of every topic; proc and epoch record who saved it
    topics,   \* Hub.topics of every process
    pubs,     \* the publishes in progress, at most one per topic instance
    acked,    \* the acknowledgements clients have received
    hubBusy,  \* the Hub has received a rehash and has not finished it
    lost      \* number of commits whose answer was lost

topicVars == <<row, messages, topics, pubs, acked, hubBusy, lost>>
vars == <<fenceVars, topicVars>>

NoTopic == [state |-> "none", proxy |-> FALSE, gen |-> 0, lastID |-> 0]

isRemoteTopic(p, t) == Owner(ring[p], t) # NodeOf[p]
Saved(t, c) == {m \in messages[t] : m.cid = c}
Ack(t, c) == acked' = acked \cup {[topic |-> t, cid |-> c, seq |-> m.seq] : m \in Saved(t, c)}
\* The publish u belongs to the instance its Hub still knows.
IsCurrent(u) ==
    /\ topics[u.proc][u.topic].state = "loaded"
    /\ topics[u.proc][u.topic].gen = u.gen

-----------------------------------------------------------------------------
(* Hub: topic instances. *)

\* makeTopic: the ring of the moment decides between master and proxy.
Join(p, t) ==
    /\ alive[p] = "up" /\ ~hubBusy[p]
    /\ topics[p][t].state = "none" /\ topics[p][t].gen < MaxGen
    /\ topics' = [topics EXCEPT ![p][t] =
          [state |-> "loading", proxy |-> isRemoteTopic(p, t), gen |-> @.gen + 1, lastID |-> 0]]
    /\ UNCHANGED <<fenceVars, row, messages, pubs, acked, hubBusy, lost>>

Cursor(x, n) == [state |-> "loaded", proxy |-> x.proxy, gen |-> x.gen, lastID |-> n]

\* topicInit: the cursor is read from the topic row and the topic is un-paused.
Load(p, t) ==
    /\ topics[p][t].state = "loading"
    /\ topics' = [topics EXCEPT ![p][t] = Cursor(@, row[t].seqid)]
    /\ UNCHANGED <<fenceVars, row, messages, pubs, acked, hubBusy, lost>>

Dropped(x) == [state |-> "none", proxy |-> x.proxy, gen |-> x.gen, lastID |-> 0]

\* handleTopicTimeout and topicUnreg(StopNone): an idle topic is taken out of the Hub.
Unload(p, t) ==
    /\ topics[p][t].state = "loaded" /\ ~hubBusy[p]
    /\ topics' = [topics EXCEPT ![p][t] = Dropped(@)]
    /\ UNCHANGED <<fenceVars, row, messages, pubs, acked, hubBusy, lost>>

\* Hub.run, rehash: topics whose role differs from the current ring are unregistered.
HubRehash(p) ==
    /\ hubBusy[p]
    /\ hubBusy' = [hubBusy EXCEPT ![p] = FALSE]
    /\ topics' = [topics EXCEPT ![p] = [t \in Topic |->
          IF topics[p][t].state # "none" /\ topics[p][t].proxy # isRemoteTopic(p, t)
            THEN Dropped(topics[p][t]) ELSE topics[p][t]]]
    /\ UNCHANGED <<fenceVars, row, messages, pubs, acked, lost>>

-----------------------------------------------------------------------------
(* saveAndBroadcastMessage. *)

\* A client sends (or retries) cid c to a loaded master topic, which has seen it before.
PubDuplicate(p, t, c) ==
    /\ topics[p][t].state = "loaded" /\ ~topics[p][t].proxy
    /\ Saved(t, c) # {}
    /\ \A u \in pubs : ~(u.proc = p /\ u.topic = t /\ u.gen = topics[p][t].gen)
    /\ Ack(t, c)
    /\ UNCHANGED <<fenceVars, row, messages, topics, pubs, hubBusy, lost>>

\* The client id is new. The message will follow the last one of this instance.
PubBegin(p, t, c) ==
    /\ topics[p][t].state = "loaded" /\ ~topics[p][t].proxy
    /\ Saved(t, c) = {}
    /\ \A u \in pubs : ~(u.proc = p /\ u.topic = t /\ u.gen = topics[p][t].gen)
    /\ pubs' = pubs \cup {[proc |-> p, topic |-> t, gen |-> topics[p][t].gen, cid |-> c,
                           seq |-> topics[p][t].lastID + 1, pc |-> "begin", epoch |-> 0]}
    /\ UNCHANGED <<fenceVars, row, messages, topics, acked, hubBusy, lost>>

\* writeFenceToken finds writes allowed and the control plane ready ...
PubReady(u) ==
    /\ u.pc = "begin"
    /\ MayWrite(u.proc)
    /\ pubs' = (pubs \ {u}) \cup {[u EXCEPT !.pc = "ready"]}
    /\ UNCHANGED <<fenceVars, row, messages, topics, acked, hubBusy, lost>>

\* ... or not, and the client is told to retry (503).
PubRefused(u) ==
    /\ u.pc = "begin"
    /\ pubs' = pubs \ {u}
    /\ UNCHANGED <<fenceVars, row, messages, topics, acked, hubBusy, lost>>

\* writeFenceToken loads the ring: a topic owned elsewhere is refused (503).
PubOwner(u) ==
    /\ u.pc = "ready"
    /\ pubs' = IF isRemoteTopic(u.proc, u.topic)
                 THEN pubs \ {u}
                 ELSE (pubs \ {u}) \cup {[u EXCEPT !.pc = "owner"]}
    /\ UNCHANGED <<fenceVars, row, messages, topics, acked, hubBusy, lost>>

\* writeFenceToken loads viewEpoch, a separate atomic: the token is complete.
PubEpoch(u) ==
    /\ u.pc = "owner"
    /\ pubs' = (pubs \ {u}) \cup {[u EXCEPT !.pc = "save", !.epoch = viewEpoch[u.proc]]}
    /\ UNCHANGED <<fenceVars, row, messages, topics, acked, hubBusy, lost>>

\* Faulty variants: the row is updated for any owner of the epoch ...
NotFencedAnyOwner(u) == fence = u.epoch /\ row[u.topic].epoch <= u.epoch

\* ... and there is no unique index on the sequence number.
NotDuplicateCid(u) == \A m \in messages[u.topic] : m.cid # u.cid

\* MessageSaveAtomic: the fence equals the token's epoch and the row accepts the owner ...
NotFenced(u) ==
    /\ fence = u.epoch
    /\ \/ row[u.topic].epoch < u.epoch
       \/ row[u.topic].epoch = u.epoch /\ row[u.topic].owner = NodeOf[u.proc]

\* ... and the unique indexes (topic, seqid) and (topic, clientkey) accept the insert.
NotDuplicate(u) == \A m \in messages[u.topic] : m.seq # u.seq /\ m.cid # u.cid

\* Faulty variant: the owner column holds the instance.
InsertByInstance(u) ==
    /\ row' = [row EXCEPT ![u.topic] = [seqid |-> u.seq, owner |-> u.proc, epoch |-> u.epoch]]
    /\ messages' = [messages EXCEPT ![u.topic] =
                  @ \cup {[seq |-> u.seq, cid |-> u.cid, proc |-> u.proc, epoch |-> u.epoch]}]

\* The update of the topic row and the insert of the message.
Insert(u) ==
    /\ row' = [row EXCEPT ![u.topic] =
                  [seqid |-> u.seq, owner |-> NodeOf[u.proc], epoch |-> u.epoch]]
    /\ messages' = [messages EXCEPT ![u.topic] =
                  @ \cup {[seq |-> u.seq, cid |-> u.cid, proc |-> u.proc, epoch |-> u.epoch]}]

\* Faulty variant: the instance forgets to advance its cursor.
SaveCommitsNoCursor(u) ==
    /\ u.pc = "save" /\ NotFenced(u) /\ NotDuplicate(u)
    /\ Insert(u)
    /\ acked' = acked \cup {[topic |-> u.topic, cid |-> u.cid, seq |-> u.seq]}
    /\ pubs' = pubs \ {u}
    /\ UNCHANGED <<fenceVars, topics, hubBusy, lost>>

\* The transaction commits, the instance advances its cursor and the client gets its ack.
SaveCommits(u) ==
    /\ u.pc = "save" /\ NotFenced(u) /\ NotDuplicate(u)
    /\ Insert(u)
    /\ topics' = IF IsCurrent(u)
                   THEN [topics EXCEPT ![u.proc][u.topic] = Cursor(@, @.lastID + 1)]
                   ELSE topics
    /\ acked' = acked \cup {[topic |-> u.topic, cid |-> u.cid, seq |-> u.seq]}
    /\ pubs' = pubs \ {u}
    /\ UNCHANGED <<fenceVars, hubBusy, lost>>

\* The transaction commits but tx.Commit reports an error (connection lost, failover).
SaveCommitsUnheard(u) ==
    /\ u.pc = "save" /\ NotFenced(u) /\ NotDuplicate(u)
    /\ lost < MaxLost
    /\ lost' = lost + 1
    /\ Insert(u)
    /\ pubs' = (pubs \ {u}) \cup {[u EXCEPT !.pc = "lookup"]}
    /\ UNCHANGED <<fenceVars, topics, acked, hubBusy>>

\* Faulty variant: cursor and message are not one transaction, the cursor survives a failure.
SaveFailsHalfway(u) ==
    /\ u.pc = "save"
    /\ row' = [row EXCEPT ![u.topic].seqid = u.seq]
    /\ pubs' = (pubs \ {u}) \cup {[u EXCEPT !.pc = "lookup"]}
    /\ UNCHANGED <<fenceVars, messages, topics, acked, hubBusy, lost>>

\* The transaction rolls back: fenced, a unique index refuses the row, or the database fails.
SaveFails(u) ==
    /\ u.pc = "save"
    /\ pubs' = (pubs \ {u}) \cup {[u EXCEPT !.pc = "lookup"]}
    /\ UNCHANGED <<fenceVars, row, messages, topics, acked, hubBusy, lost>>

\* Faulty variant: an error is answered like a success.
PubLookupAcksAnyway(u) ==
    /\ u.pc = "lookup"
    /\ acked' = acked \cup {[topic |-> u.topic, cid |-> u.cid, seq |-> u.seq]}
    /\ pubs' = pubs \ {u}
    /\ UNCHANGED <<fenceVars, row, messages, topics, hubBusy, lost>>

\* After an error the client id is looked up again: found, the publish is acknowledged as
\* a duplicate; otherwise the client is told to retry. The cursor of the instance stays.
PubLookup(u) ==
    /\ u.pc = "lookup"
    /\ Ack(u.topic, u.cid)
    /\ pubs' = pubs \ {u}
    /\ UNCHANGED <<fenceVars, row, messages, topics, hubBusy, lost>>

-----------------------------------------------------------------------------
(* Composition. *)

\* applyControlPlaneView hands the rehash to the Hub (unbuffered) and the view is published.
Publish(p) ==
    /\ PublishView(p)
    /\ ~hubBusy[p]
    /\ hubBusy' = [hubBusy EXCEPT ![p] = TRUE]
    /\ UNCHANGED <<row, messages, topics, pubs, acked, lost>>

\* The process ends and takes its topics and publishes along.
End(p) ==
    /\ Stop(p)
    /\ topics' = [topics EXCEPT ![p] = [t \in Topic |-> Dropped(topics[p][t])]]
    /\ pubs' = {u \in pubs : u.proc # p}
    /\ hubBusy' = [hubBusy EXCEPT ![p] = FALSE]
    /\ UNCHANGED <<row, messages, acked, lost>>

TopicInit ==
    /\ row = [t \in Topic |-> [seqid |-> 0, owner |-> NoNode, epoch |-> 0]]
    /\ messages = [t \in Topic |-> {}]
    /\ topics = [p \in Proc |-> [t \in Topic |-> NoTopic]]
    /\ pubs = {} /\ acked = {} /\ lost = 0
    /\ hubBusy = [p \in Proc |-> FALSE]

Init == FenceInit /\ TopicInit

HubStep(p) ==
    \/ HubRehash(p)
    \/ \E t \in Topic : Join(p, t) \/ Load(p, t) \/ Unload(p, t)
    \/ \E t \in Topic, c \in Cid : PubDuplicate(p, t, c) \/ PubBegin(p, t, c)

PubStep(u) ==
    \/ PubReady(u) \/ PubRefused(u) \/ PubOwner(u) \/ PubEpoch(u)
    \/ SaveCommits(u) \/ SaveCommitsUnheard(u) \/ SaveFails(u) \/ PubLookup(u)

Next ==
    \/ \E p \in Proc : ViewStep(p) /\ UNCHANGED topicVars
    \/ \E p \in Proc : Publish(p) \/ End(p) \/ HubStep(p)
    \/ \E u \in pubs : PubStep(u)

Spec == Init /\ [][Next]_vars

\* A client retries the client id c on topic t until it is acknowledged, and the topic
\* instance that handles it runs on; the database does not fail for ever.
RetryOn(p, t, c) == PubDuplicate(p, t, c) \/ PubBegin(p, t, c)
Fairness ==
    /\ \A p \in Proc, t \in Topic, c \in Cid : SF_vars(RetryOn(p, t, c))
    /\ \A t \in Topic, c \in Cid :
          /\ WF_vars(\E u \in pubs : u.topic = t /\ u.cid = c /\ PubStep(u))
          /\ SF_vars(\E u \in pubs : u.topic = t /\ u.cid = c /\ PubReady(u))
          /\ SF_vars(\E u \in pubs : u.topic = t /\ u.cid = c /\ SaveCommits(u))

-----------------------------------------------------------------------------
RowType == [seqid : Nat, owner : Node \cup {NoNode}, epoch : Nat]
MessageType == [seq : Nat, cid : Cid, proc : Proc, epoch : Nat]
TopicType == [state : {"none", "loading", "loaded"}, proxy : BOOLEAN, gen : Nat, lastID : Nat]
PubType == [proc : Proc, topic : Topic, gen : Nat, cid : Cid, seq : Nat,
            pc : {"begin", "ready", "owner", "save", "lookup"}, epoch : Nat]

\* Type invariant of the publish path.
TypeOK ==
    /\ FenceTypeOK
    /\ row \in [Topic -> RowType]
    /\ messages \in [Topic -> SUBSET MessageType]
    /\ topics \in [Proc -> [Topic -> TopicType]]
    /\ pubs \in SUBSET PubType
    /\ acked \in SUBSET [topic : Topic, cid : Cid, seq : Nat]
    /\ hubBusy \in [Proc -> BOOLEAN] /\ lost \in Nat

\* The topic cursor and the message commit together: whatever instances, processes and
\* epochs compete, the saved sequence numbers are 1 .. seqid, without gap or regression.
SeqContiguous ==
    \A t \in Topic : {m.seq : m \in messages[t]} = 1 .. row[t].seqid

\* Fencing orders the writers of a topic: later messages bear no older epoch, and within
\* one epoch all messages come from one owner name.
WritersAreFenced ==
    \A t \in Topic : \A m, k \in messages[t] :
        m.seq < k.seq =>
            /\ m.epoch <= k.epoch
            /\ m.epoch = k.epoch => NodeOf[m.proc] = NodeOf[k.proc]

\* An acknowledged publish is in the table under the sequence number the client was told,
\* also when the answer came from the duplicate path of another instance or process.
AckedIsSaved ==
    \A x \in acked : \E m \in messages[x.topic] : m.cid = x.cid /\ m.seq = x.seq

-----------------------------------------------------------------------------
(* The inductive invariant behind these properties (FencedTopicsProofs). *)

\* A topic instance handles one publish at a time, and no publish precedes its instance.
OnePubPerInstance ==
    /\ \A u, v \in pubs : u.proc = v.proc /\ u.topic = v.topic /\ u.gen = v.gen => u = v
    /\ \A u \in pubs :
          /\ u.gen <= topics[u.proc][u.topic].gen
          /\ u.gen = topics[u.proc][u.topic].gen => topics[u.proc][u.topic].state # "loading"

\* Nobody is ahead of the table: neither the cursor of an instance nor a publish, and a
\* publish of a current instance is the next after its cursor.
CursorsBehindRow ==
    /\ \A p \in Proc, t \in Topic : topics[p][t].lastID <= row[t].seqid
    /\ \A u \in pubs :
          /\ u.seq >= 1 /\ u.seq <= row[u.topic].seqid + 1
          /\ IsCurrent(u) => u.seq = topics[u.proc][u.topic].lastID + 1

\* The row remembers the latest writer: no message is of a later epoch, and those of the
\* row's epoch come from the row's owner.
RowIsLatest ==
    \A t \in Topic : \A m \in messages[t] :
        /\ m.epoch <= row[t].epoch
        /\ m.epoch = row[t].epoch => NodeOf[m.proc] = row[t].owner

\* The two unique indexes of the messages table.
IndexesHold ==
    \A t \in Topic : \A m, k \in messages[t] : m.seq = k.seq \/ m.cid = k.cid => m = k

PublishInv ==
    /\ TypeOK /\ OnePubPerInstance /\ CursorsBehindRow /\ RowIsLatest
    /\ SeqContiguous /\ WritersAreFenced /\ AckedIsSaved

-----------------------------------------------------------------------------
(* What the documents say of migration and retries. *)

\* A process that has applied the view of an epoch has saved messages under that epoch
\* only for topics this view assigns to its node.
OldOwnerCannotAdvance ==
    \A t \in Topic : \A m \in messages[t] :
        viewEpoch[m.proc] = m.epoch /\ apply[m.proc].pc = "idle" /\ alive[m.proc] = "up"
            => Owner(ring[m.proc], t) = NodeOf[m.proc]

\* Retrying is idempotent and ends: a client id that is retried on a topic that stays
\* loaded where it may be written is acknowledged.
RetriesSucceed ==
    \A p \in Proc, t \in Topic, c \in Cid :
        <>[](topics[p][t].state = "loaded" /\ ~topics[p][t].proxy /\ MayWrite(p)) =>
            <>(\E x \in acked : x.topic = t /\ x.cid = c)

\* The log of a topic, as the messages table holds it.
LogOf(t) == [i \in 1 .. row[t].seqid |-> (CHOOSE m \in messages[t] : m.seq = i).cid]

Log == INSTANCE TopicLog WITH log <- [t \in Topic |-> LogOf(t)]

\* Clients see one log per topic that only grows at its end and holds each client id once,
\* whatever instances, processes and epochs wrote it.
ImplementsLog == Log!LogSpec

=============================================================================
