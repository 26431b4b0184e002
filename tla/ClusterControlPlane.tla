------------------------ MODULE ClusterControlPlane ------------------------
(***************************************************************************)
(* The etcd control plane of the cluster: registration under a lease, the  *)
(* view-epoch marker, refreshView and the application of a view (database  *)
(* fence, then ring, then viewEpoch), drain, topology changes, shutdown.   *)
(*                                                                         *)
(* A process is one run of the server; several processes may bear the same *)
(* node name (a restart, or a replacement started while the old process is *)
(* cut off), which is what clusterMember.InstanceID tells apart.           *)
(* etcd is external: one linearizable store whose revision grows with      *)
(* every write; a transaction is one step.                                 *)
(***************************************************************************)
EXTENDS Naturals, FiniteSets

CONSTANTS
    Node,           \* the names of the candidate white list
    Proc,           \* server processes (instances)
    NodeOf,         \* the configured name of each process
    NoProc,         \* the value of an absent member key
    InitialMembers, \* cluster.initial_members
    Topologies,     \* the member sets an operator may ask for
    Disturbed,      \* processes hit by crashes, lost leases, pauses, Watch and database errors
    Drainers,       \* processes that are told to drain
    MaxRev          \* bound: revision after which no member or topology event happens

ASSUME ProcAssumption == NodeOf \in [Proc -> Node] /\ NoProc \notin Proc
ASSUME TopologyAssumption ==
    InitialMembers \in SUBSET Node /\ Topologies \in SUBSET SUBSET Node
ASSUME ScopeAssumption == Disturbed \in SUBSET Proc /\ Drainers \in SUBSET Proc
ASSUME BoundAssumption == MaxRev \in Nat

VARIABLES
    \* etcd
    rev,         \* store revision
    member,      \* member key of every node name; mod = 0: no key
    topo,        \* topology key
    marker,      \* value of the view-epoch key; 0: no key
    lastEvent,   \* revision of the latest change a Watch reports
    \* database
    fence,       \* value of the cluster fence row; 0: no row
    \* the control plane and the cluster object of every process
    health,      \* life of the process (serviceHealth.state and the stages around it)
    leaseAlive,  \* control.leaseAlive
    holdsLease,  \* control.leaseID is the lease of the process's member key
    viewApplied, \* control.viewApplied
    fresh,       \* control.lastViewRefresh is within the lease TTL
    view,        \* control.view
    refresh,     \* the refreshView in progress, serialised by refreshLock
    ring,        \* c.ring, as the set of names it was built from
    viewEpoch,   \* c.viewEpoch
    seen,        \* revision up to which the Watch has delivered
    drain,       \* the BeginDrain in progress, and control.member.Draining (done)
    change       \* the ChangeTopology in progress

etcdVars == <<rev, member, topo, marker, lastEvent>>
readyVars == <<leaseAlive, viewApplied, fresh, view>>
routeVars == <<ring, viewEpoch>>
opVars == <<seen, drain, change>>
cpVars == <<etcdVars, fence, health, holdsLease, readyVars, refresh, routeVars, opVars>>

Absent == [proc |-> NoProc, mod |-> 0, draining |-> FALSE]
NoView == [epoch |-> 0, active |-> {}, serving |-> {}]
NoRefresh == [pc |-> "idle", view |-> NoView]
NoDrain == [pc |-> "none", rev |-> 0]
NoChange == [pc |-> "none", mod |-> 0, members |-> {}]

\* The control plane and the Hub of the process run.
Up(p) == health[p] \in {"starting", "serving", "draining"}
\* Start has returned: its first refreshView succeeded.
Started(p) == Up(p) /\ view[p] # NoView
HoldsKey(p) == member[NodeOf[p]].proc = p

-----------------------------------------------------------------------------
(* Views. *)

\* buildClusterView: the registered members that are active and not draining.
ServingMembers(t) ==
    {member[n].proc : n \in {m \in t : member[m].mod > 0 /\ ~member[m].draining}}

\* The revisions refreshView takes the maximum of.
Revisions == {member[n].mod : n \in Node} \cup {topo.mod, marker}

\* Faulty variant: the revision of the topology is left out.
IsEpochOfMembers(e) ==
    LET revisions == {member[n].mod : n \in Node} \cup {marker}
    IN  e \in revisions /\ \A r \in revisions : r <= e

\* refreshView's epoch: the largest member, topology or marker revision.
IsEpoch(e) == e \in Revisions /\ \A r \in Revisions : r <= e

\* Faulty variant: the ring is built from instance ids.
memberNamesById(v) == v.serving

memberNames(v) == {NodeOf[q] : q \in v.serving}

\* Faulty variant: readiness looks for the node name in the view.
ReadyByName(p) ==
    /\ leaseAlive[p] /\ viewApplied[p] /\ fresh[p]
    /\ NodeOf[p] \in memberNames(view[p])
    /\ Cardinality(view[p].serving) >= Cardinality(view[p].active) \div 2 + 1

\* control.Ready: lease, applied view, recent contact, this instance serving, majority.
Ready(p) ==
    /\ leaseAlive[p] /\ viewApplied[p] /\ fresh[p]
    /\ p \in view[p].serving
    /\ Cardinality(view[p].serving) >= Cardinality(view[p].active) \div 2 + 1

\* health.AllowsWrites as far as the control plane decides it.
AllowsWrites(p) == health[p] = "serving" /\ Ready(p) /\ viewEpoch[p] > 0

-----------------------------------------------------------------------------
(* etcd writes. *)

\* A write to the member or the topology key: a new revision that Watches report.
PutMember(n, m) ==
    /\ rev < MaxRev
    /\ rev' = rev + 1
    /\ lastEvent' = rev + 1
    /\ member' = [member EXCEPT ![n] = m]
    /\ UNCHANGED <<topo, marker>>

PutTopology(t) ==
    /\ rev < MaxRev
    /\ rev' = rev + 1
    /\ lastEvent' = rev + 1
    /\ topo' = [members |-> t, mod |-> rev + 1]
    /\ UNCHANGED <<member, marker>>

\* advanceTopologyEpoch: the compare-and-set loop raises the marker to at least e.
AdvanceEpoch(e) ==
    /\ marker' = IF marker < e THEN e ELSE marker
    /\ rev' = IF marker < e THEN rev + 1 ELSE rev
    /\ UNCHANGED <<member, topo, lastEvent>>

-----------------------------------------------------------------------------
(* Start, registration and the lease. *)

\* Start: initializeTopology writes the initial topology if there is none.
Boot(p) ==
    /\ health[p] = "new"
    /\ health' = [health EXCEPT ![p] = "starting"]
    /\ ring' = [ring EXCEPT ![p] = Node]
    /\ IF topo.mod = 0 THEN PutTopology(InitialMembers) ELSE UNCHANGED etcdVars
    /\ UNCHANGED <<fence, holdsLease, readyVars, refresh, viewEpoch, opVars>>

\* register: the member key must be absent; Start and recoverLease both end here.
\* The payload is control.member, which is draining only after BeginDrain returned.
Register(p) ==
    /\ Up(p) /\ ~leaseAlive[p]
    /\ member[NodeOf[p]].mod = 0
    /\ PutMember(NodeOf[p],
                 [proc |-> p, mod |-> rev + 1, draining |-> drain[p].pc = "done"])
    /\ leaseAlive' = [leaseAlive EXCEPT ![p] = TRUE]
    /\ holdsLease' = [holdsLease EXCEPT ![p] = TRUE]
    /\ UNCHANGED <<fence, health, viewApplied, fresh, view, refresh, routeVars, opVars>>

\* register finds the key occupied: Start fails, recoverLease will try again.
RegisterFails(p) ==
    /\ Up(p) /\ ~leaseAlive[p]
    /\ member[NodeOf[p]].mod # 0
    /\ holdsLease' = [holdsLease EXCEPT ![p] = FALSE]
    /\ health' = [health EXCEPT ![p] = IF view[p] = NoView THEN "closing" ELSE @]
    /\ UNCHANGED <<etcdVars, fence, readyVars, refresh, routeVars, opVars>>

\* etcd lets a lease run out (crash, partition or pause of its process).
LeaseExpires(n) ==
    /\ member[n].mod # 0 /\ member[n].proc \in Disturbed
    /\ PutMember(n, Absent)
    /\ UNCHANGED <<fence, health, holdsLease, readyVars, refresh, routeVars, opVars>>

\* keepAliveLoop notices that the renewal channel is closed.
LeaseLost(p) ==
    /\ p \in Disturbed /\ Started(p) /\ leaseAlive[p]
    /\ leaseAlive' = [leaseAlive EXCEPT ![p] = FALSE]
    /\ viewApplied' = [viewApplied EXCEPT ![p] = FALSE]
    /\ UNCHANGED <<etcdVars, fence, health, holdsLease, fresh, view, refresh, routeVars, opVars>>

\* More than a lease TTL passes since the last successful refresh.
RefreshTooOld(p) ==
    /\ p \in Disturbed /\ Started(p) /\ fresh[p]
    /\ fresh' = [fresh EXCEPT ![p] = FALSE]
    /\ UNCHANGED <<etcdVars, fence, health, holdsLease, leaseAlive, viewApplied, view,
                   refresh, routeVars, opVars>>

-----------------------------------------------------------------------------
(* Watch loops. *)

\* Faulty variant: the Watch does not raise the marker.
WatchEventNoMarker(p) ==
    /\ Started(p)
    /\ seen[p] < lastEvent
    /\ seen' = [seen EXCEPT ![p] = lastEvent]
    /\ UNCHANGED <<etcdVars, fence, health, holdsLease, readyVars, refresh, routeVars, drain, change>>

\* watchKeyLoop, for members and topology alike: a response may be late and covers the events
\* up to its header revision; the process raises the marker to that revision.
\* The refreshView that follows is RefreshRead.
WatchEvent(p) ==
    /\ Started(p)
    /\ seen[p] < lastEvent
    /\ \E header \in seen[p] + 1 .. rev :
          /\ header <= MaxRev
          /\ AdvanceEpoch(header)
          /\ seen' = [seen EXCEPT ![p] = header]
    /\ UNCHANGED <<fence, health, holdsLease, readyVars, refresh, routeVars, drain, change>>

\* watchKeyLoop after an error: the Watch resumes behind the epoch of the current view.
WatchRestart(p) ==
    /\ p \in Disturbed /\ Started(p)
    /\ seen[p] # view[p].epoch
    /\ seen' = [seen EXCEPT ![p] = view[p].epoch]
    /\ UNCHANGED <<etcdVars, fence, health, holdsLease, readyVars, refresh, routeVars,
                   drain, change>>

-----------------------------------------------------------------------------
(* refreshView and applyControlPlaneView. *)

\* One read transaction returns members, marker and topology; the view is built from it.
ReadView(p) ==
    /\ Up(p) /\ refresh[p].pc = "idle"
    /\ view[p] = NoView => leaseAlive[p]
    /\ \E e \in Revisions :
          /\ IsEpoch(e)
          /\ refresh' = [refresh EXCEPT ![p] =
                [pc |-> "read",
                 view |-> [epoch |-> e, active |-> topo.members,
                           serving |-> ServingMembers(topo.members)]]]

\* refreshView called by Start, recoverLease, the Watch loops, the ticker, ChangeTopology.
RefreshRead(p) ==
    /\ ReadView(p)
    /\ UNCHANGED <<etcdVars, fence, health, holdsLease, readyVars, routeVars, opVars>>

\* The epoch is that of the current view: only the contact time is renewed.
RefreshSame(p) ==
    /\ refresh[p].pc = "read"
    /\ view[p] # NoView /\ refresh[p].view.epoch = view[p].epoch
    /\ fresh' = [fresh EXCEPT ![p] = TRUE]
    /\ refresh' = [refresh EXCEPT ![p] = NoRefresh]
    /\ UNCHANGED <<etcdVars, fence, health, holdsLease, leaseAlive, viewApplied, view,
                   routeVars, opVars>>

NewEpoch(p) == view[p] = NoView \/ refresh[p].view.epoch # view[p].epoch

\* Faulty variants: the node stays ready while it switches ...
RefreshFenceStillReady(p) ==
    /\ refresh[p].pc = "read"
    /\ NewEpoch(p)
    /\ refresh[p].view.epoch >= fence
    /\ fence' = refresh[p].view.epoch
    /\ refresh' = [refresh EXCEPT ![p].pc = "fenced"]
    /\ UNCHANGED <<etcdVars, health, holdsLease, readyVars, view, routeVars, opVars>>

\* ... the fence row is overwritten without a comparison ...
RefreshFenceOverwrites(p) ==
    /\ refresh[p].pc = "read"
    /\ NewEpoch(p)
    /\ viewApplied' = [viewApplied EXCEPT ![p] = FALSE]
    /\ fence' = refresh[p].view.epoch
    /\ refresh' = [refresh EXCEPT ![p].pc = "fenced"]
    /\ UNCHANGED <<etcdVars, health, holdsLease, leaseAlive, fresh, view, routeVars, opVars>>

\* ... an error of the database is ignored.
RefreshFenceIgnored(p) ==
    /\ refresh[p].pc = "read"
    /\ NewEpoch(p)
    /\ viewApplied' = [viewApplied EXCEPT ![p] = FALSE]
    /\ refresh' = [refresh EXCEPT ![p].pc = "fenced"]
    /\ UNCHANGED <<etcdVars, fence, health, holdsLease, leaseAlive, fresh, view, routeVars, opVars>>

\* A new epoch: readiness is withdrawn and ClusterFenceAdvance succeeds.
RefreshFence(p) ==
    /\ refresh[p].pc = "read"
    /\ NewEpoch(p)
    /\ refresh[p].view.epoch >= fence
    /\ viewApplied' = [viewApplied EXCEPT ![p] = FALSE]
    /\ fence' = refresh[p].view.epoch
    /\ refresh' = [refresh EXCEPT ![p].pc = "fenced"]
    /\ UNCHANGED <<etcdVars, health, holdsLease, leaseAlive, fresh, view, routeVars, opVars>>

\* ClusterFenceAdvance refuses an older epoch, or the database fails before or after
\* its commit; Start gives up, everyone else keeps the old view and is not ready.
RefreshFenceFails(p) ==
    /\ refresh[p].pc = "read"
    /\ NewEpoch(p)
    /\ p \in Disturbed \/ refresh[p].view.epoch < fence
    /\ viewApplied' = [viewApplied EXCEPT ![p] = FALSE]
    /\ fence' \in {fence, IF fence < refresh[p].view.epoch THEN refresh[p].view.epoch ELSE fence}
    /\ refresh' = [refresh EXCEPT ![p] = NoRefresh]
    /\ health' = [health EXCEPT ![p] = IF view[p] = NoView THEN "closing" ELSE @]
    /\ drain' = [drain EXCEPT ![p] = IF @.pc = "refresh" THEN NoDrain ELSE @]
    /\ UNCHANGED <<etcdVars, holdsLease, leaseAlive, fresh, view, routeVars, seen, change>>

\* applyControlPlaneView: c.rehash(view.memberNames()).
RefreshRing(p) ==
    /\ refresh[p].pc = "fenced"
    /\ ring' = [ring EXCEPT ![p] = memberNames(refresh[p].view)]
    /\ refresh' = [refresh EXCEPT ![p].pc = "ring"]
    /\ UNCHANGED <<etcdVars, fence, health, holdsLease, readyVars, viewEpoch, opVars>>

\* applyControlPlaneView: c.viewEpoch.Store(view.Epoch).
RefreshEpoch(p) ==
    /\ refresh[p].pc = "ring"
    /\ viewEpoch' = [viewEpoch EXCEPT ![p] = refresh[p].view.epoch]
    /\ refresh' = [refresh EXCEPT ![p].pc = "epoch"]
    /\ UNCHANGED <<etcdVars, fence, health, holdsLease, readyVars, ring, opVars>>

\* The Hub receives the rehash signal (FencedTopics); refreshView publishes the view and
\* becomes ready again. The first publication also
\* starts the Watch loops, which begin behind its epoch.
RefreshPublish(p) ==
    /\ refresh[p].pc = "epoch"
    /\ view' = [view EXCEPT ![p] = refresh[p].view]
    /\ viewApplied' = [viewApplied EXCEPT ![p] = TRUE]
    /\ fresh' = [fresh EXCEPT ![p] = TRUE]
    /\ seen' = [seen EXCEPT ![p] = IF view[p] = NoView THEN refresh[p].view.epoch ELSE @]
    /\ refresh' = [refresh EXCEPT ![p] = NoRefresh]
    /\ UNCHANGED <<etcdVars, fence, health, holdsLease, leaseAlive, routeVars, drain, change>>

-----------------------------------------------------------------------------
(* Life of the process, drain, topology change. *)

MarkServing(p) ==
    /\ Started(p) /\ health[p] = "starting"
    /\ health' = [health EXCEPT ![p] = "serving"]
    /\ UNCHANGED <<etcdVars, fence, holdsLease, readyVars, refresh, routeVars, opVars>>

\* serviceHealth.BeginDrain: the drain endpoint or a termination signal.
HealthDrain(p) ==
    /\ p \in Drainers /\ health[p] = "serving"
    /\ health' = [health EXCEPT ![p] = "draining"]
    /\ UNCHANGED <<etcdVars, fence, holdsLease, readyVars, refresh, routeVars, opVars>>

\* control.BeginDrain rewrites the member key if it still bears this lease.
DrainPut(p) ==
    /\ health[p] = "draining" /\ drain[p].pc = "none"
    /\ holdsLease[p] /\ HoldsKey(p)
    /\ PutMember(NodeOf[p], [proc |-> p, mod |-> rev + 1, draining |-> TRUE])
    /\ drain' = [drain EXCEPT ![p] = [pc |-> "put", rev |-> rev + 1]]
    /\ UNCHANGED <<fence, health, holdsLease, readyVars, refresh, routeVars, seen, change>>

\* ... advances the marker to the revision of that write ...
DrainMark(p) ==
    /\ Up(p) /\ drain[p].pc = "put"
    /\ AdvanceEpoch(drain[p].rev)
    /\ drain' = [drain EXCEPT ![p].pc = "marked"]
    /\ UNCHANGED <<fence, health, holdsLease, readyVars, refresh, routeVars, seen, change>>

\* ... calls refreshView, whose failure is its own ...
DrainRefresh(p) ==
    /\ drain[p].pc = "marked"
    /\ ReadView(p)
    /\ drain' = [drain EXCEPT ![p].pc = "refresh"]
    /\ UNCHANGED <<etcdVars, fence, health, holdsLease, readyVars, routeVars, seen, change>>

\* ... and keeps Draining in control.member when that has succeeded.
DrainDone(p) ==
    /\ Up(p) /\ drain[p].pc = "refresh" /\ refresh[p].pc = "idle"
    /\ drain' = [drain EXCEPT ![p].pc = "done"]
    /\ UNCHANGED <<etcdVars, fence, health, holdsLease, readyVars, refresh, routeVars, seen, change>>

\* A step of BeginDrain fails: control.draining is reset and it may be called again.
DrainFails(p) ==
    /\ drain[p].pc \in {"put", "marked"}
    /\ drain' = [drain EXCEPT ![p] = NoDrain]
    /\ UNCHANGED <<etcdVars, fence, health, holdsLease, readyVars, refresh, routeVars, seen, change>>

\* ChangeTopology accepts two more or two fewer members.
Expanding(from, to) == from \subseteq to /\ Cardinality(to) = Cardinality(from) + 2
Shrinking(from, to) == to \subseteq from /\ Cardinality(to) + 2 = Cardinality(from)
\* normalizeClusterTopology: an odd number of at least three members.
ValidTopology(t) == Cardinality(t) >= 3 /\ Cardinality(t) % 2 = 1

\* ChangeTopology reads topology and members in one transaction and validates the request.
ChangeRead(p, t) ==
    /\ Up(p) /\ change[p].pc = "none"
    /\ Ready(p)
    /\ ValidTopology(t)
    /\ Expanding(topo.members, t) \/ Shrinking(topo.members, t)
    /\ \A n \in t : member[n].mod # 0 /\ ~member[n].draining
    /\ Shrinking(topo.members, t) =>
          \A n \in topo.members \ t : member[n].mod # 0 /\ member[n].draining
    /\ change' = [change EXCEPT ![p] = [pc |-> "read", mod |-> topo.mod, members |-> t]]
    /\ UNCHANGED <<etcdVars, fence, health, holdsLease, readyVars, refresh, routeVars, seen, drain>>

\* Faulty variant: the topology is written unconditionally.
ChangePutAnyway(p) ==
    /\ Up(p) /\ change[p].pc = "read"
    /\ PutTopology(change[p].members)
    /\ change' = [change EXCEPT ![p] = [pc |-> "put", mod |-> rev + 1, members |-> @.members]]
    /\ UNCHANGED <<fence, health, holdsLease, readyVars, refresh, routeVars, seen, drain>>

\* The write is conditional on the revision of the topology key alone.
ChangePut(p) ==
    /\ Up(p) /\ change[p].pc = "read"
    /\ topo.mod = change[p].mod
    /\ PutTopology(change[p].members)
    /\ change' = [change EXCEPT ![p] = [pc |-> "put", mod |-> rev + 1, members |-> @.members]]
    /\ UNCHANGED <<fence, health, holdsLease, readyVars, refresh, routeVars, seen, drain>>

\* The marker follows; the refreshView at the end is RefreshRead.
ChangeMark(p) ==
    /\ Up(p) /\ change[p].pc = "put"
    /\ AdvanceEpoch(change[p].mod)
    /\ change' = [change EXCEPT ![p] = NoChange]
    /\ UNCHANGED <<fence, health, holdsLease, readyVars, refresh, routeVars, seen, drain>>

\* The transaction loses against another change, or a step of ChangeTopology fails.
ChangeFails(p) ==
    /\ change[p].pc # "none"
    /\ change' = [change EXCEPT ![p] = NoChange]
    /\ UNCHANGED <<etcdVars, fence, health, holdsLease, readyVars, refresh, routeVars, seen, drain>>

\* The in-memory state of a process that is gone.
Forget(p) ==
    /\ leaseAlive' = [leaseAlive EXCEPT ![p] = FALSE]
    /\ holdsLease' = [holdsLease EXCEPT ![p] = FALSE]
    /\ viewApplied' = [viewApplied EXCEPT ![p] = FALSE]
    /\ fresh' = [fresh EXCEPT ![p] = FALSE]
    /\ view' = [view EXCEPT ![p] = NoView]
    /\ refresh' = [refresh EXCEPT ![p] = NoRefresh]
    /\ ring' = [ring EXCEPT ![p] = {}]
    /\ viewEpoch' = [viewEpoch EXCEPT ![p] = 0]
    /\ seen' = [seen EXCEPT ![p] = 0]
    /\ drain' = [drain EXCEPT ![p] = NoDrain]
    /\ change' = [change EXCEPT ![p] = NoChange]

\* Graceful shutdown after the drain, whether or not BeginDrain succeeded: Close cancels
\* the control context.
BeginClose(p) ==
    /\ health[p] = "draining"
    /\ health' = [health EXCEPT ![p] = "closing"]
    /\ UNCHANGED <<etcdVars, fence, holdsLease, readyVars, refresh, routeVars, opVars>>

\* Close has waited for the background goroutines and revokes the lease; the same
\* revocation ends a failed Start.
Close(p) ==
    /\ health[p] = "closing" /\ refresh[p].pc = "idle"
    /\ health' = [health EXCEPT ![p] = "stopped"]
    /\ IF holdsLease[p] /\ HoldsKey(p)
         THEN PutMember(NodeOf[p], Absent)
         ELSE UNCHANGED etcdVars
    /\ Forget(p)
    /\ UNCHANGED fence

\* The context of a closing process is cancelled, so its read transaction fails.
RefreshCancelled(p) ==
    /\ health[p] = "closing" /\ refresh[p].pc = "read"
    /\ refresh' = [refresh EXCEPT ![p] = NoRefresh]
    /\ UNCHANGED <<etcdVars, fence, health, holdsLease, readyVars, routeVars, opVars>>

\* The process dies; its member key stays until the lease expires.
Crash(p) ==
    /\ p \in Disturbed
    /\ health[p] \in {"starting", "serving", "draining", "closing"}
    /\ health' = [health EXCEPT ![p] = "stopped"]
    /\ Forget(p)
    /\ UNCHANGED <<etcdVars, fence>>

-----------------------------------------------------------------------------
CPInit ==
    /\ rev = 0 /\ marker = 0 /\ lastEvent = 0 /\ fence = 0
    /\ member = [n \in Node |-> Absent]
    /\ topo = [members |-> {}, mod |-> 0]
    /\ health = [p \in Proc |-> "new"]
    /\ leaseAlive = [p \in Proc |-> FALSE]
    /\ holdsLease = [p \in Proc |-> FALSE]
    /\ viewApplied = [p \in Proc |-> FALSE]
    /\ fresh = [p \in Proc |-> FALSE]
    /\ view = [p \in Proc |-> NoView]
    /\ refresh = [p \in Proc |-> NoRefresh]
    /\ ring = [p \in Proc |-> {}]
    /\ viewEpoch = [p \in Proc |-> 0]
    /\ seen = [p \in Proc |-> 0]
    /\ drain = [p \in Proc |-> NoDrain]
    /\ change = [p \in Proc |-> NoChange]

\* The steps that leave the Hub and its topics alone ...
QuietStep(p) ==
    \/ Boot(p) \/ Register(p) \/ RegisterFails(p) \/ LeaseLost(p) \/ RefreshTooOld(p)
    \/ WatchEvent(p) \/ WatchRestart(p)
    \/ RefreshRead(p) \/ RefreshSame(p) \/ RefreshFence(p) \/ RefreshFenceFails(p)
    \/ RefreshRing(p) \/ RefreshEpoch(p) \/ RefreshCancelled(p)
    \/ MarkServing(p) \/ HealthDrain(p) \/ BeginClose(p)
    \/ DrainPut(p) \/ DrainMark(p) \/ DrainRefresh(p) \/ DrainDone(p) \/ DrainFails(p)
    \/ (\E t \in Topologies : ChangeRead(p, t)) \/ ChangePut(p) \/ ChangeMark(p) \/ ChangeFails(p)

\* ... and those that signal a rehash or end the process.
ProcStep(p) == QuietStep(p) \/ RefreshPublish(p) \/ Close(p) \/ Crash(p)

CPNext ==
    \/ \E p \in Proc : ProcStep(p)
    \/ \E n \in Node : LeaseExpires(n)

CPSpec == CPInit /\ [][CPNext]_cpVars

\* The refreshView in progress goes on: every call in it is bounded or returns.
RefreshGoesOn(p) ==
    \/ RefreshSame(p) \/ RefreshFence(p) \/ RefreshFenceFails(p)
    \/ RefreshRing(p) \/ RefreshEpoch(p) \/ RefreshPublish(p)

\* Scheduling of a process that keeps contact with etcd and the database: its Watch
\* delivers and refreshLoop ticks every third of the lease TTL.
Fairness(p) ==
    WF_cpVars(WatchEvent(p)) /\ WF_cpVars(RefreshRead(p)) /\ WF_cpVars(RefreshGoesOn(p))

-----------------------------------------------------------------------------
View == [epoch : Nat, active : SUBSET Node, serving : SUBSET Proc]

\* Type invariant of the control plane's state.
CPTypeOK ==
    /\ rev \in Nat /\ marker \in Nat /\ lastEvent \in Nat /\ fence \in Nat
    /\ member \in [Node -> [proc : Proc \cup {NoProc}, mod : Nat, draining : BOOLEAN]]
    /\ topo \in [members : SUBSET Node, mod : Nat]
    /\ health \in [Proc -> {"new", "starting", "serving", "draining", "closing", "stopped"}]
    /\ leaseAlive \in [Proc -> BOOLEAN] /\ holdsLease \in [Proc -> BOOLEAN]
    /\ viewApplied \in [Proc -> BOOLEAN] /\ fresh \in [Proc -> BOOLEAN]
    /\ view \in [Proc -> View]
    /\ refresh \in [Proc -> [pc : {"idle", "read", "fenced", "ring", "epoch"}, view : View]]
    /\ ring \in [Proc -> SUBSET Node] /\ viewEpoch \in [Proc -> Nat]
    /\ seen \in [Proc -> Nat]
    /\ drain \in [Proc -> [pc : {"none", "put", "marked", "refresh", "done"}, rev : Nat]]
    /\ change \in [Proc -> [pc : {"none", "read", "put"}, mod : Nat, members : SUBSET Node]]

\* applyControlPlaneView advances the shared fence before it touches the ring: whatever
\* epoch a process routes, reports or is about to publish, the database already refuses
\* every older one.
FenceCoversViews ==
    \A p \in Proc :
        /\ viewEpoch[p] <= fence
        /\ view[p].epoch <= fence
        /\ refresh[p].pc \in {"fenced", "ring", "epoch"} => refresh[p].view.epoch <= fence

\* The epoch of a view is computed from a snapshot that may already miss members whose
\* lease expired later than the epoch. Two processes that hold views of one epoch still
\* agree on the topology, and differ only in members whose key is gone from etcd: the
\* deletion will raise the epoch and nobody can be served by both sides for long.
SameEpochViewsAgree ==
    \A p, q \in Proc :
        view[p].epoch = view[q].epoch =>
            /\ view[p].active = view[q].active
            /\ \A r \in view[p].serving \ view[q].serving :
                  ~(member[NodeOf[r]].proc = r /\ member[NodeOf[r]].mod <= view[p].epoch)

\* Two instances of one node name are never both ready under one epoch, although the
\* database compares owner names only: register waits for the old key to vanish, the new
\* key raises the epoch, and Ready compares the instance.
OneReadyInstance ==
    \A p, q \in Proc :
        p # q /\ NodeOf[p] = NodeOf[q] /\ Ready(p) /\ Ready(q) => view[p].epoch # view[q].epoch

\* The snapshot epoch can fall when the newest member key disappears before the marker
\* caught up; ClusterFenceAdvance rejects it, so no running process ever routes under an
\* older epoch than before, and the committed fence never moves back.
EpochsOnlyGrow ==
    [][ /\ fence' >= fence
        /\ \A p \in Proc : health'[p] # "stopped" =>
              viewEpoch'[p] >= viewEpoch[p] /\ view'[p].epoch >= view[p].epoch ]_cpVars

\* ChangeTopology moves between adjacent odd sizes although any node may ask for a change:
\* the write is conditional on the topology its validation has read, so a committed
\* topology is always two members larger or two smaller than the one it replaces.
TopologyMovesByTwo ==
    [][ topo.mod # 0 /\ topo' # topo =>
          Expanding(topo.members, topo'.members) \/ Shrinking(topo.members, topo'.members) ]_cpVars

\* Once members and topology stop changing, every process that keeps its contacts ends up
\* with the view etcd has now, applied: deletions carry no revision of their own in the
\* member keys, so this needs the marker the Watch loops raise, and it needs the fence
\* not to stay above the epoch that everyone computes.
Converges ==
    \A p \in Proc \ Disturbed :
        <>[](health[p] = "serving" =>
               /\ viewApplied[p] /\ fresh[p]
               /\ view[p].active = topo.members
               /\ view[p].serving = ServingMembers(topo.members)
               /\ ring[p] = memberNames(view[p])
               /\ viewEpoch[p] = fence)

\* What BeginDrain's comment says of its success: the process keeps its lease, and its key
\* no longer offers it to the ring.
DrainedLeavesRing ==
    \A p \in Proc : drain[p].pc = "done" /\ HoldsKey(p) => member[NodeOf[p]].draining

\* The state EpochFence speaks about: closing still runs, a view is being applied from the
\* moment its fence is committed.
AliveOf(p) == CASE health[p] = "new" -> "new"
                [] health[p] = "stopped" -> "stopped"
                [] OTHER -> "up"
ApplyOf(p) == IF refresh[p].pc \in {"idle", "read"}
                THEN [pc |-> "idle", epoch |-> 0, names |-> {}]
                ELSE [pc |-> refresh[p].pc, epoch |-> refresh[p].view.epoch,
                      names |-> memberNames(refresh[p].view)]

Fence == INSTANCE EpochFence WITH
    Rings <- SUBSET Node, MaxEpoch <- MaxRev,
    alive <- [p \in Proc |-> AliveOf(p)], apply <- [p \in Proc |-> ApplyOf(p)]

\* The control plane keeps the promises the publish path is built on: fence before ring,
\* ring before epoch, no new fence while a view is being applied, whatever Watches, leases,
\* drains and topology changes do meanwhile.
ImplementsFence == Fence!FenceSpec

\* Writes are allowed only while no view is being applied: AllowsWrites implies the
\* abstract MayWrite, and the epoch writes are fenced with is that of the published view.
WritesNeedAppliedView ==
    \A p \in Proc : AllowsWrites(p) => Fence!MayWrite(p) /\ viewEpoch[p] = view[p].epoch

-----------------------------------------------------------------------------
(* The inductive invariant behind these properties (ClusterControlPlaneProofs). *)

Gone(p) == health[p] \in {"new", "stopped"}

\* No key, and no revision a process remembers, is newer than etcd; a member key names a
\* process of its node; the processes that run have found or written a topology.
KeysInOrder ==
    /\ marker <= rev /\ marker <= MaxRev
    /\ topo.mod <= rev /\ topo.mod <= MaxRev
    /\ \A n \in Node :
          /\ member[n].mod <= rev /\ member[n].mod <= MaxRev
          /\ IF member[n].mod = 0 THEN member[n].proc = NoProc
             ELSE member[n].proc \in Proc /\ NodeOf[member[n].proc] = n
    /\ \A p \in Proc :
          /\ drain[p].rev <= rev /\ drain[p].rev <= MaxRev
          /\ change[p].mod <= rev /\ change[p].mod <= MaxRev
          /\ ~Gone(p) => topo.mod > 0

\* How far a view has been applied: memory follows the published view until the epoch is
\* stored, and nobody is ready between the fence and the publication.
ViewsInOrder ==
    \A p \in Proc :
        /\ viewApplied[p] => refresh[p].pc \in {"idle", "read"}
        /\ refresh[p].pc = "idle" <=> refresh[p].view = NoView
        /\ refresh[p].pc # "epoch" => viewEpoch[p] = view[p].epoch
        /\ refresh[p].pc = "epoch" => viewEpoch[p] = refresh[p].view.epoch
        /\ refresh[p].pc \in {"fenced", "ring", "epoch"} => view[p].epoch <= refresh[p].view.epoch
        /\ Gone(p) => refresh[p].pc = "idle" /\ view[p] = NoView

\* The views in use: published, or read and not published yet.
Held == {view[p] : p \in Proc} \cup {refresh[p].view : p \in Proc}

\* A view still fits what etcd holds: every key not newer than its epoch is as it saw it.
Fits(v) ==
    v # NoView =>
        /\ v.epoch > 0 /\ v.epoch <= rev /\ v.epoch <= MaxRev
        /\ topo.mod <= v.epoch => v.active = topo.members
        /\ \A r \in v.serving :
              /\ NodeOf[r] \in v.active
              /\ member[NodeOf[r]].mod \in 1 .. v.epoch =>
                    member[NodeOf[r]].proc = r /\ ~member[NodeOf[r]].draining
        /\ \A n \in v.active :
              member[n].mod \in 1 .. v.epoch /\ ~member[n].draining => member[n].proc \in v.serving

\* Two views of one epoch have one topology, differ only in members whose key is gone, and
\* do not hold two instances of one name.
Agree(v, w) ==
    v.epoch = w.epoch =>
        /\ v.active = w.active
        /\ \A r \in v.serving \ w.serving :
              ~(member[NodeOf[r]].proc = r /\ member[NodeOf[r]].mod <= v.epoch)
        /\ \A r \in v.serving, s \in w.serving : NodeOf[r] = NodeOf[s] => r = s

ViewsFit == (\A v \in Held : Fits(v)) /\ (\A v, w \in Held : Agree(v, w))

\* A change whose topology is still the committed one asks for an adjacent size.
ChangesInOrder ==
    \A p \in Proc : change[p].pc = "read" /\ change[p].mod = topo.mod =>
        Expanding(topo.members, change[p].members) \/ Shrinking(topo.members, change[p].members)

CPInv == CPTypeOK /\ KeysInOrder /\ ViewsInOrder /\ FenceCoversViews /\ ViewsFit

=============================================================================
