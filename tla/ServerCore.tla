----------------------------- MODULE ServerCore -----------------------------
(***************************************************************************)
(* The control plane and the publish path in the same processes.           *)
(* FencedTopics leaves open which views there are and when a process is    *)
(* ready; here the views come from etcd, writeFenceToken asks the health   *)
(* service and with it the control plane, refreshView tells the Hub of a   *)
(* new ring, and the topics of a process end when it closes or dies. The   *)
(* steps of the Hub and of a publish are those of FencedTopics.            *)
(***************************************************************************)
EXTENDS ClusterControlPlane

CONSTANTS
    Topic,      \* topic names
    Cid,        \* client ids
    Owner(_, _),\* Owner(S, t): the ring built from the names S assigns topic t to
    NoNode,     \* the answer of an empty ring
    MaxGen,     \* bound: topic instances per process and topic
    MaxLost     \* bound: database answers lost after the commit

ASSUME CoreAssumption ==
    /\ NoNode \notin Node /\ MaxGen \in Nat /\ MaxLost \in Nat
    /\ \A S \in SUBSET Node, t \in Topic : Owner(S, t) \in IF S = {} THEN {NoNode} ELSE S

VARIABLES row, messages, topics, pubs, acked, hubBusy, lost \* as in FencedTopics

topicVars == <<row, messages, topics, pubs, acked, hubBusy, lost>>
coreVars == <<cpVars, topicVars>>

\* The publish path over the fence, the rings and the epochs of this control plane.
Path == INSTANCE FencedTopics WITH
    Rings <- SUBSET Node, MaxEpoch <- MaxRev,
    alive <- [p \in Proc |-> AliveOf(p)], apply <- [p \in Proc |-> ApplyOf(p)]

\* applyControlPlaneView hands the rehash to the Hub, which takes it when it is done with the
\* last one, and refreshView publishes the view.
Publish(p) ==
    /\ RefreshPublish(p)
    /\ ~hubBusy[p]
    /\ hubBusy' = [hubBusy EXCEPT ![p] = TRUE]
    /\ UNCHANGED <<row, messages, topics, pubs, acked, lost>>

\* The process ends, orderly or not, and takes its topics and publishes along.
End(p) ==
    /\ Close(p) \/ Crash(p)
    /\ topics' = [topics EXCEPT ![p] = [t \in Topic |-> Path!Dropped(topics[p][t])]]
    /\ pubs' = {u \in pubs : u.proc # p}
    /\ hubBusy' = [hubBusy EXCEPT ![p] = FALSE]
    /\ UNCHANGED <<row, messages, acked, lost>>

\* writeFenceToken: the health service lets the process write, this instance is in the view
\* it has published, and a majority with it.
TokenAllowed(u) ==
    /\ u.pc = "begin" /\ AllowsWrites(u.proc)
    /\ pubs' = (pubs \ {u}) \cup {[u EXCEPT !.pc = "ready"]}
    /\ UNCHANGED <<row, messages, topics, acked, hubBusy, lost>>

\* The other steps of a publish know the control plane by ring, viewEpoch and fence only.
PubStep(u) ==
    \/ TokenAllowed(u) \/ Path!PubRefused(u) \/ Path!PubOwner(u) \/ Path!PubEpoch(u)
    \/ Path!SaveCommits(u) \/ Path!SaveCommitsUnheard(u) \/ Path!SaveFails(u) \/ Path!PubLookup(u)

CoreInit == CPInit /\ Path!TopicInit

\* Leases, Watches, refreshes, drains and topology changes that leave the Hub alone.
QuietControl ==
    \/ \E p \in Proc : QuietStep(p)
    \/ \E n \in Node : LeaseExpires(n)

CoreNext ==
    \/ QuietControl /\ UNCHANGED topicVars
    \/ \E p \in Proc : Publish(p) \/ End(p)
    \/ UNCHANGED cpVars /\ \E p \in Proc : Path!HubStep(p)
    \/ UNCHANGED cpVars /\ \E u \in pubs : PubStep(u)

CoreSpec == CoreInit /\ [][CoreNext]_coreVars

-----------------------------------------------------------------------------
\* Every step of the server is one of the publish path over an epoch fence, or none of its
\* business: a publish that has asked the control plane once, and reads ring and epoch
\* afterwards while leases expire and views are applied, never sees a state of fence, ring
\* and epoch that EpochFence does not allow.
KeepsPath == [][Path!Next]_(Path!vars)

\* The server is the publish path over an epoch fence, so all that holds of that one holds
\* of the server with its etcd traffic.
ImplementsPath == Path!Spec
=============================================================================
