--------------------- MODULE ClusterControlPlaneProofs ---------------------
(***************************************************************************)
(* Theorems about ClusterControlPlane, and about ServerCore, which runs    *)
(* the publish path over it, for every set of node names, processes and    *)
(* topologies.                                                             *)
(***************************************************************************)
EXTENDS ServerCore, TLAPS

-----------------------------------------------------------------------------
(* What a step does to etcd and to the views in use. *)

\* The record a registration or a drain writes for process p.
Entry(p, d) == [proc |-> p, mod |-> rev + 1, draining |-> d]

\* The writes the control planes make.
EtcdStep ==
    \/ UNCHANGED etcdVars
    \/ \E n \in Node : PutMember(n, Absent)
    \/ \E p \in Proc, d \in BOOLEAN : PutMember(NodeOf[p], Entry(p, d))
    \/ \E t \in SUBSET Node : PutTopology(t)
    \/ \E x \in Nat : x <= rev /\ x <= MaxRev /\ AdvanceEpoch(x)

\* The steps that read no view.
OtherStep(p) ==
    \/ Boot(p) \/ Register(p) \/ RegisterFails(p) \/ LeaseLost(p) \/ RefreshTooOld(p)
    \/ WatchEvent(p) \/ WatchRestart(p)
    \/ RefreshSame(p) \/ RefreshFence(p) \/ RefreshFenceFails(p)
    \/ RefreshRing(p) \/ RefreshEpoch(p) \/ RefreshCancelled(p)
    \/ MarkServing(p) \/ HealthDrain(p) \/ BeginClose(p)
    \/ DrainPut(p) \/ DrainMark(p) \/ DrainDone(p) \/ DrainFails(p)
    \/ (\E t \in Topologies : ChangeRead(p, t)) \/ ChangePut(p) \/ ChangeMark(p) \/ ChangeFails(p)
    \/ RefreshPublish(p) \/ Close(p) \/ Crash(p)

\* Every process step of the control plane other than refreshView's read is an OtherStep.
LEMMA ProcStepCases ==
    ASSUME NEW p \in Proc, ProcStep(p)
    PROVE  RefreshRead(p) \/ DrainRefresh(p) \/ OtherStep(p)
  BY DEF ProcStep, QuietStep, OtherStep

\* Every etcd write of the control plane (registration, drain, lease, topology, marker) is of
\* one of these kinds.
LEMMA OtherStepEtcd ==
    ASSUME CPTypeOK, KeysInOrder, NEW p \in Proc, OtherStep(p)
    PROVE  EtcdStep
  <1>0. NodeOf[p] \in Node
    BY ProcAssumption
  <1>1. CASE Boot(p)
    BY <1>1, TopologyAssumption DEF Boot, EtcdStep
  <1>2. CASE Register(p)
    <2>1. PutMember(NodeOf[p], Entry(p, drain[p].pc = "done"))
      BY <1>2 DEF Register, Entry
    <2> QED BY <2>1 DEF EtcdStep
  <1>3. CASE DrainPut(p)
    <2>1. PutMember(NodeOf[p], Entry(p, TRUE))
      BY <1>3 DEF DrainPut, Entry
    <2> QED BY <2>1 DEF EtcdStep
  <1>4. CASE WatchEvent(p)
    <2>1. PICK header \in seen[p] + 1 .. rev : header <= MaxRev /\ AdvanceEpoch(header)
      BY <1>4 DEF WatchEvent
    <2>2. header \in Nat /\ header <= rev
      BY <2>1 DEF CPTypeOK
    <2> QED BY <2>1, <2>2 DEF EtcdStep
  <1>5. CASE DrainMark(p)
    BY <1>5 DEF DrainMark, EtcdStep, KeysInOrder, CPTypeOK
  <1>6. CASE ChangeMark(p)
    BY <1>6 DEF ChangeMark, EtcdStep, KeysInOrder, CPTypeOK
  <1>7. CASE ChangePut(p)
    BY <1>7 DEF ChangePut, EtcdStep, CPTypeOK
  <1>8. CASE Close(p)
    BY <1>0, <1>8 DEF Close, EtcdStep
  <1>9. CASE RegisterFails(p) \/ LeaseLost(p) \/ RefreshTooOld(p) \/ WatchRestart(p)
    BY <1>9 DEF EtcdStep, RegisterFails, LeaseLost, RefreshTooOld, WatchRestart
  <1>10. CASE RefreshSame(p) \/ RefreshFence(p) \/ RefreshFenceFails(p) \/ RefreshRing(p)
              \/ RefreshEpoch(p) \/ RefreshPublish(p) \/ RefreshCancelled(p)
    BY <1>10 DEF EtcdStep, RefreshSame, RefreshFence, RefreshFenceFails, RefreshRing,
                 RefreshEpoch, RefreshPublish, RefreshCancelled
  <1>11. CASE MarkServing(p) \/ HealthDrain(p) \/ BeginClose(p) \/ Crash(p)
    BY <1>11 DEF EtcdStep, MarkServing, HealthDrain, BeginClose, Crash
  <1>12. CASE DrainDone(p) \/ DrainFails(p) \/ ChangeFails(p) \/ \E t \in Topologies : ChangeRead(p, t)
    BY <1>12 DEF EtcdStep, DrainDone, DrainFails, ChangeFails, ChangeRead
  <1> QED
    BY <1>1, <1>2, <1>3, <1>4, <1>5, <1>6, <1>7, <1>8, <1>9, <1>10, <1>11, <1>12 DEF OtherStep

\* buildClusterView over a well-formed member table lists processes of the cluster.
LEMMA ServingType ==
    ASSUME CPTypeOK, KeysInOrder, NEW t \in SUBSET Node
    PROVE  ServingMembers(t) \in SUBSET Proc
  <1> SUFFICES ASSUME NEW n \in t, member[n].mod > 0
               PROVE  member[n].proc \in Proc
    BY DEF ServingMembers
  <1>1. n \in Node /\ member[n].mod # 0
    BY DEF CPTypeOK
  <1> QED BY <1>1 DEF KeysInOrder

-----------------------------------------------------------------------------
(* Types. *)

MemberType == [proc : Proc \cup {NoProc}, mod : Nat, draining : BOOLEAN]
HealthType == {"new", "starting", "serving", "draining", "closing", "stopped"}
RefreshType == [pc : {"idle", "read", "fenced", "ring", "epoch"}, view : View]
DrainType == [pc : {"none", "put", "marked", "refresh", "done"}, rev : Nat]
ChangeType == [pc : {"none", "read", "put"}, mod : Nat, members : SUBSET Node]

EtcdTypeOK ==
    /\ rev \in Nat /\ marker \in Nat /\ lastEvent \in Nat
    /\ member \in [Node -> MemberType]
    /\ topo \in [members : SUBSET Node, mod : Nat]

\* The writes of the control plane keep the types of the etcd keys.
LEMMA EtcdStepType ==
    ASSUME EtcdTypeOK, EtcdStep
    PROVE  EtcdTypeOK'
  <1>1. ASSUME NEW n \in Node, NEW m \in MemberType, PutMember(n, m)
        PROVE  EtcdTypeOK'
    BY <1>1 DEF EtcdTypeOK, PutMember
  <1>2. Absent \in MemberType
    BY DEF Absent, MemberType
  <1>3. ASSUME NEW p \in Proc, NEW d \in BOOLEAN
        PROVE  Entry(p, d) \in MemberType /\ NodeOf[p] \in Node
    BY ProcAssumption DEF Entry, MemberType, EtcdTypeOK
  <1>4. CASE UNCHANGED etcdVars
    BY <1>4 DEF etcdVars, EtcdTypeOK
  <1>5. CASE \E t \in SUBSET Node : PutTopology(t)
    BY <1>5 DEF PutTopology, EtcdTypeOK
  <1>6. CASE \E x \in Nat : x <= rev /\ x <= MaxRev /\ AdvanceEpoch(x)
    BY <1>6 DEF AdvanceEpoch, EtcdTypeOK
  <1> QED
    BY <1>1, <1>2, <1>3, <1>4, <1>5, <1>6 DEF EtcdStep

LocalTypeOK ==
    /\ fence \in Nat
    /\ health \in [Proc -> HealthType]
    /\ leaseAlive \in [Proc -> BOOLEAN] /\ holdsLease \in [Proc -> BOOLEAN]
    /\ viewApplied \in [Proc -> BOOLEAN] /\ fresh \in [Proc -> BOOLEAN]
    /\ view \in [Proc -> View]
    /\ refresh \in [Proc -> RefreshType]
    /\ ring \in [Proc -> SUBSET Node] /\ viewEpoch \in [Proc -> Nat]
    /\ seen \in [Proc -> Nat]
    /\ drain \in [Proc -> DrainType]
    /\ change \in [Proc -> ChangeType]

\* The type invariant speaks of etcd and of the processes.
LEMMA TypeParts == CPTypeOK <=> EtcdTypeOK /\ LocalTypeOK
  BY DEF CPTypeOK, EtcdTypeOK, LocalTypeOK, MemberType, HealthType, RefreshType, DrainType,
         ChangeType

\* The same after a step of the control plane.
LEMMA TypePartsNext == EtcdTypeOK' /\ LocalTypeOK' => CPTypeOK'
  BY DEF CPTypeOK, EtcdTypeOK, LocalTypeOK, MemberType, HealthType, RefreshType, DrainType,
         ChangeType

\* The records of a process that has nothing under way.
LEMMA InitialRecords ==
    /\ NoView \in View /\ NoRefresh \in RefreshType
    /\ NoDrain \in DrainType /\ NoChange \in ChangeType
  BY DEF NoView, View, NoRefresh, RefreshType, NoDrain, DrainType, NoChange, ChangeType

\* A process that is gone has forgotten everything.
LEMMA ForgetType ==
    ASSUME LocalTypeOK, NEW p \in Proc, Forget(p), UNCHANGED fence,
           health' = [health EXCEPT ![p] = "stopped"]
    PROVE  LocalTypeOK'
  BY InitialRecords DEF Forget, LocalTypeOK, HealthType

\* The ring of a view consists of configured names.
LEMMA NamesType ==
    ASSUME NEW v \in View
    PROVE  memberNames(v) \in SUBSET Node
  BY ProcAssumption DEF memberNames, View

\* refreshView's read keeps the types of the processes' state.
LEMMA ReadViewType ==
    ASSUME CPTypeOK, KeysInOrder, NEW p \in Proc, ReadView(p)
    PROVE  refresh' \in [Proc -> RefreshType]
  <1>1. PICK e \in Revisions :
          refresh' = [refresh EXCEPT ![p] = [pc |-> "read",
                 view |-> [epoch |-> e, active |-> topo.members,
                           serving |-> ServingMembers(topo.members)]]]
    BY DEF ReadView
  <1>2. e \in Nat
    BY DEF Revisions, CPTypeOK
  <1>3. topo.members \in SUBSET Node
    BY DEF CPTypeOK
  <1>4. ServingMembers(topo.members) \in SUBSET Proc
    BY <1>3, ServingType
  <1>5. [epoch |-> e, active |-> topo.members, serving |-> ServingMembers(topo.members)] \in View
    BY <1>2, <1>3, <1>4 DEF View
  <1> QED
    BY <1>1, <1>5 DEF CPTypeOK, RefreshType

\* Every other step of a process keeps the types of its state.
LEMMA OtherStepType ==
    ASSUME CPTypeOK, NEW p \in Proc, OtherStep(p)
    PROVE  LocalTypeOK'
  <1> USE DEF readyVars, routeVars, opVars
  <1>0. EtcdTypeOK /\ LocalTypeOK
    BY TypeParts
  <1>1. CASE Boot(p)
    BY <1>0, <1>1 DEF Boot, LocalTypeOK, HealthType
  <1>2. CASE Register(p) \/ RegisterFails(p)
    BY <1>0, <1>2 DEF Register, RegisterFails, LocalTypeOK, HealthType
  <1>3. CASE LeaseLost(p) \/ RefreshTooOld(p)
    BY <1>0, <1>3 DEF LeaseLost, RefreshTooOld, LocalTypeOK
  <1>4. CASE WatchEvent(p)
    BY <1>0, <1>4 DEF WatchEvent, LocalTypeOK, EtcdTypeOK
  <1>5. CASE WatchRestart(p)
    BY <1>0, <1>5 DEF WatchRestart, LocalTypeOK, View
  <1>6. CASE RefreshSame(p) \/ RefreshCancelled(p)
    BY <1>0, <1>6, InitialRecords DEF RefreshSame, RefreshCancelled, LocalTypeOK
  <1>7. CASE RefreshFence(p)
    BY SMTT(30), <1>0, <1>7 DEF RefreshFence, LocalTypeOK, RefreshType, View
  <1>8. CASE RefreshFenceFails(p)
    <2>1. fence' \in Nat
      BY <1>0, <1>8 DEF RefreshFenceFails, LocalTypeOK, RefreshType, View
    <2>2. health' \in [Proc -> HealthType] /\ drain' \in [Proc -> DrainType]
      BY <1>0, <1>8, InitialRecords DEF RefreshFenceFails, LocalTypeOK, HealthType
    <2> QED
      BY <1>0, <1>8, <2>1, <2>2, InitialRecords DEF RefreshFenceFails, LocalTypeOK
  <1>9. CASE RefreshRing(p)
    <2>1. refresh[p].view \in View
      BY <1>0 DEF LocalTypeOK, RefreshType
    <2> QED BY <1>0, <1>9, <2>1, NamesType DEF RefreshRing, LocalTypeOK, RefreshType
  <1>10. CASE RefreshEpoch(p)
    BY <1>0, <1>10 DEF RefreshEpoch, LocalTypeOK, RefreshType, View
  <1>11. CASE RefreshPublish(p)
    <2>1. refresh[p].view \in View /\ refresh[p].view.epoch \in Nat
      BY <1>0 DEF LocalTypeOK, RefreshType, View
    <2> QED BY <1>0, <1>11, <2>1, InitialRecords DEF RefreshPublish, LocalTypeOK
  <1>12. CASE MarkServing(p) \/ HealthDrain(p) \/ BeginClose(p)
    BY <1>0, <1>12 DEF MarkServing, HealthDrain, BeginClose, LocalTypeOK, HealthType
  <1>13. CASE DrainPut(p) \/ DrainMark(p) \/ DrainDone(p) \/ DrainFails(p)
    BY <1>0, <1>13, InitialRecords
       DEF DrainPut, DrainMark, DrainDone, DrainFails, LocalTypeOK, EtcdTypeOK, DrainType
  <1>14. CASE \E t \in Topologies : ChangeRead(p, t)
    BY <1>0, <1>14, TopologyAssumption DEF ChangeRead, LocalTypeOK, EtcdTypeOK, ChangeType
  <1>15. CASE ChangePut(p) \/ ChangeMark(p) \/ ChangeFails(p)
    <2>1. [pc |-> "put", mod |-> rev + 1, members |-> change[p].members] \in ChangeType
      BY <1>0 DEF LocalTypeOK, EtcdTypeOK, ChangeType
    <2>2. change' \in [Proc -> ChangeType]
      BY <1>0, <1>15, <2>1, InitialRecords DEF ChangePut, ChangeMark, ChangeFails, LocalTypeOK
    <2> QED BY <1>0, <1>15, <2>2 DEF ChangePut, ChangeMark, ChangeFails, LocalTypeOK
  <1>16. CASE Close(p)
    BY <1>0, <1>16, ForgetType DEF Close
  <1>17. CASE Crash(p)
    BY <1>0, <1>17, ForgetType DEF Crash
  <1> QED
    BY <1>1, <1>2, <1>3, <1>4, <1>5, <1>6, <1>7, <1>8, <1>9, <1>10, <1>11, <1>12, <1>13, <1>14,
       <1>15, <1>16, <1>17 DEF OtherStep

\* Every step of the control plane keeps the type invariant, given keys in order.
LEMMA NextTypeOK ==
    ASSUME CPTypeOK, KeysInOrder, [CPNext]_cpVars
    PROVE  CPTypeOK'
  <1> USE DEF readyVars, routeVars, opVars
  <1>0. EtcdTypeOK /\ LocalTypeOK
    BY TypeParts
  <1>1. ASSUME NEW p \in Proc, OtherStep(p)
        PROVE  CPTypeOK'
    BY <1>0, <1>1, OtherStepEtcd, EtcdStepType, OtherStepType, TypePartsNext
  <1>2. ASSUME NEW p \in Proc, RefreshRead(p) \/ DrainRefresh(p)
        PROVE  CPTypeOK'
    <2>1. refresh' \in [Proc -> RefreshType]
      BY <1>2, ReadViewType DEF RefreshRead, DrainRefresh
    <2>2. EtcdTypeOK'
      BY <1>0, <1>2 DEF RefreshRead, DrainRefresh, etcdVars, EtcdTypeOK
    <2>3. drain' \in [Proc -> DrainType]
      BY <1>0, <1>2 DEF RefreshRead, DrainRefresh, LocalTypeOK, DrainType
    <2>4. LocalTypeOK'
      BY <1>0, <1>2, <2>1, <2>3 DEF RefreshRead, DrainRefresh, LocalTypeOK
    <2> QED BY <2>2, <2>4, TypePartsNext
  <1>3. ASSUME NEW n \in Node, LeaseExpires(n)
        PROVE  CPTypeOK'
    <2>1. EtcdTypeOK'
      BY <1>0, <1>3, EtcdStepType DEF LeaseExpires, EtcdStep
    <2>2. LocalTypeOK'
      BY <1>0, <1>3 DEF LeaseExpires, LocalTypeOK
    <2> QED BY <2>1, <2>2, TypePartsNext
  <1>4. CASE UNCHANGED cpVars
    BY <1>4 DEF cpVars, etcdVars, CPTypeOK
  <1> QED
    BY <1>1, <1>2, <1>3, <1>4, ProcStepCases DEF CPNext

-----------------------------------------------------------------------------
(* Keys. *)

EtcdInOrder ==
    /\ marker <= rev /\ marker <= MaxRev
    /\ topo.mod <= rev /\ topo.mod <= MaxRev
    /\ \A n \in Node :
          /\ member[n].mod <= rev /\ member[n].mod <= MaxRev
          /\ IF member[n].mod = 0 THEN member[n].proc = NoProc
             ELSE member[n].proc \in Proc /\ NodeOf[member[n].proc] = n

OpsInOrder ==
    \A p \in Proc :
        /\ drain[p].rev <= rev /\ drain[p].rev <= MaxRev
        /\ change[p].mod <= rev /\ change[p].mod <= MaxRev
        /\ ~Gone(p) => topo.mod > 0

\* KeysInOrder speaks of etcd and of what BeginDrain and ChangeTopology remember of it ...
LEMMA OrderParts == KeysInOrder <=> EtcdInOrder /\ OpsInOrder
  BY DEF KeysInOrder, EtcdInOrder, OpsInOrder

\* ... also after a step of the control plane.
LEMMA OrderPartsNext == EtcdInOrder' /\ OpsInOrder' => KeysInOrder'
  BY DEF KeysInOrder, EtcdInOrder, OpsInOrder

\* A write to etcd takes the next revision, so keys stay in order and revisions grow.
LEMMA EtcdStepOrder ==
    ASSUME EtcdTypeOK, EtcdInOrder, EtcdStep
    PROVE  EtcdInOrder' /\ rev' \in Nat /\ rev <= rev' /\ topo.mod <= topo'.mod
  <1> USE BoundAssumption
  <1>1. ASSUME NEW n \in Node, PutMember(n, Absent)
        PROVE  EtcdInOrder' /\ rev' \in Nat /\ rev <= rev' /\ topo.mod <= topo'.mod
    BY <1>1 DEF EtcdTypeOK, MemberType, EtcdInOrder, PutMember, Absent
  <1>2. ASSUME NEW p \in Proc, NEW d \in BOOLEAN, PutMember(NodeOf[p], Entry(p, d))
        PROVE  EtcdInOrder' /\ rev' \in Nat /\ rev <= rev' /\ topo.mod <= topo'.mod
    <2>1. NodeOf[p] \in Node /\ Entry(p, d).mod = rev + 1 /\ Entry(p, d).proc = p
      BY ProcAssumption DEF Entry
    <2> QED BY <1>2, <2>1 DEF EtcdTypeOK, MemberType, EtcdInOrder, PutMember
  <1>3. CASE \E t \in SUBSET Node : PutTopology(t)
    BY <1>3 DEF PutTopology, EtcdTypeOK, MemberType, EtcdInOrder
  <1>4. CASE \E x \in Nat : x <= rev /\ x <= MaxRev /\ AdvanceEpoch(x)
    BY <1>4 DEF AdvanceEpoch, EtcdTypeOK, MemberType, EtcdInOrder
  <1>5. CASE UNCHANGED etcdVars
    BY <1>5 DEF etcdVars, EtcdTypeOK, EtcdInOrder
  <1> QED
    BY <1>1, <1>2, <1>3, <1>4, <1>5 DEF EtcdStep

\* What BeginDrain and ChangeTopology remember is the revision of a key they have written
\* or read, and a process runs only under a topology (initializeTopology).
LEMMA OtherStepOrder ==
    ASSUME CPTypeOK, KeysInOrder, ViewsInOrder, NEW p \in Proc, OtherStep(p)
    PROVE  KeysInOrder'
  <1> USE BoundAssumption
  <1> USE DEF readyVars, routeVars, opVars
  <1>0. EtcdTypeOK /\ LocalTypeOK /\ EtcdInOrder /\ OpsInOrder
    BY TypeParts, OrderParts
  <1>1. EtcdInOrder' /\ rev' \in Nat /\ rev <= rev' /\ topo.mod <= topo'.mod
    BY <1>0, OtherStepEtcd, EtcdStepOrder
  <1>2. EtcdTypeOK'
    BY <1>0, OtherStepEtcd, EtcdStepType
  <1>3. SUFFICES OpsInOrder'
    BY <1>1, OrderPartsNext
  <1>4. ASSUME \A q \in Proc : drain'[q].rev \in {drain[q].rev, 0, rev'},
               \A q \in Proc : change'[q].mod \in {change[q].mod, 0, topo.mod, rev'},
               \A q \in Proc : drain'[q].rev = rev' \/ change'[q].mod = rev' => rev' <= MaxRev,
               \A q \in Proc : Gone(q) => Gone(q)' \/ topo'.mod > 0
        PROVE  OpsInOrder'
    <2> SUFFICES ASSUME NEW q \in Proc
                 PROVE  /\ drain'[q].rev <= rev' /\ drain'[q].rev <= MaxRev
                        /\ change'[q].mod <= rev' /\ change'[q].mod <= MaxRev
                        /\ ~Gone(q)' => topo'.mod > 0
      BY DEF OpsInOrder
    <2>1. /\ drain[q].rev \in Nat /\ change[q].mod \in Nat /\ topo.mod \in Nat /\ topo'.mod \in Nat
          /\ rev \in Nat
      BY <1>0, <1>2 DEF LocalTypeOK, EtcdTypeOK, DrainType, ChangeType
    <2>2. /\ drain[q].rev <= rev /\ drain[q].rev <= MaxRev
          /\ change[q].mod <= rev /\ change[q].mod <= MaxRev
          /\ topo.mod <= rev /\ topo.mod <= MaxRev
          /\ ~Gone(q) => topo.mod > 0
      BY <1>0 DEF OpsInOrder, EtcdInOrder
    <2>3. drain'[q].rev <= rev' /\ drain'[q].rev <= MaxRev
      BY <1>1, <1>4, <2>1, <2>2
    <2>4. change'[q].mod <= rev' /\ change'[q].mod <= MaxRev
      BY <1>1, <1>4, <2>1, <2>2
    <2>5. ~Gone(q)' => topo'.mod > 0
      BY <1>1, <1>4, <2>1, <2>2
    <2> QED BY <2>3, <2>4, <2>5
  <1>5. ASSUME \A q \in Proc : drain'[q].rev \in {drain[q].rev, 0},
                \A q \in Proc : change'[q].mod \in {change[q].mod, 0, topo.mod},
                \A q \in Proc : Gone(q) => Gone(q)' \/ topo'.mod > 0
         PROVE  OpsInOrder'
    <2>1. ASSUME NEW q \in Proc, drain'[q].rev = rev' \/ change'[q].mod = rev'
          PROVE  rev' <= MaxRev
      BY <1>0, <1>5, <2>1 DEF OpsInOrder, EtcdInOrder
    <2> QED BY <1>4, <1>5, <2>1
  <1>6. ASSUME UNCHANGED <<drain, change>>, \A q \in Proc : Gone(q) => Gone(q)' \/ topo'.mod > 0
         PROVE  OpsInOrder'
    BY <1>5, <1>6
  <1>7. CASE Boot(p)
    <2>1. topo'.mod > 0
      BY <1>0, <1>7 DEF Boot, PutTopology, etcdVars, EtcdTypeOK
    <2> QED BY <1>6, <1>7, <2>1 DEF Boot
  <1>8. CASE Register(p) \/ RegisterFails(p) \/ LeaseLost(p) \/ RefreshTooOld(p)
             \/ WatchEvent(p) \/ WatchRestart(p)
    BY <1>0, <1>6, <1>8
       DEF Register, RegisterFails, LeaseLost, RefreshTooOld, WatchEvent, WatchRestart, Gone,
           Up, LocalTypeOK
  <1>9. CASE RefreshSame(p) \/ RefreshFence(p) \/ RefreshRing(p) \/ RefreshEpoch(p)
             \/ RefreshPublish(p) \/ RefreshCancelled(p)
    BY <1>0, <1>6, <1>9
       DEF RefreshSame, RefreshFence, RefreshRing, RefreshEpoch, RefreshPublish,
           RefreshCancelled, Gone
  <1>10. CASE MarkServing(p) \/ HealthDrain(p) \/ BeginClose(p)
    BY <1>0, <1>6, <1>10
       DEF MarkServing, Started, Up, HealthDrain, BeginClose, Gone, LocalTypeOK
  <1>11. CASE RefreshFenceFails(p)
    <2>1. ~Gone(p)
      BY <1>11 DEF RefreshFenceFails, ViewsInOrder
    <2>2. \A q \in Proc : drain'[q].rev \in {drain[q].rev, 0} /\ change'[q] = change[q]
      BY <1>0, <1>11 DEF RefreshFenceFails, LocalTypeOK, NoDrain
    <2>3. \A q \in Proc : Gone(q) => Gone(q)'
      BY <1>0, <1>11, <2>1 DEF RefreshFenceFails, Gone, LocalTypeOK
    <2>4. rev' = rev
      BY <1>11 DEF RefreshFenceFails, etcdVars
    <2> QED BY <1>5, <2>2, <2>3, <2>4
  <1>12. CASE DrainPut(p)
    <2>1. rev' <= MaxRev /\ \A q \in Proc : drain'[q].rev \in {drain[q].rev, rev'}
      BY <1>0, <1>12 DEF DrainPut, PutMember, LocalTypeOK, EtcdTypeOK
    <2> QED BY <1>4, <1>12, <2>1 DEF DrainPut, Gone
  <1>13. CASE DrainMark(p) \/ DrainDone(p) \/ DrainFails(p)
    <2>1. \A q \in Proc : drain'[q].rev \in {drain[q].rev, 0} /\ change'[q] = change[q]
      <3>1. CASE DrainMark(p)
        BY <1>0, <3>1 DEF DrainMark, LocalTypeOK, DrainType
      <3>2. CASE DrainDone(p)
        BY <1>0, <3>2 DEF DrainDone, LocalTypeOK, DrainType
      <3>3. CASE DrainFails(p)
        BY <1>0, <3>3 DEF DrainFails, NoDrain, LocalTypeOK, DrainType
      <3> QED BY <1>13, <3>1, <3>2, <3>3
    <2>2. \A q \in Proc : Gone(q) => Gone(q)'
      BY <1>13 DEF DrainMark, DrainDone, DrainFails, Gone
    <2> QED BY <1>5, <2>1, <2>2
  <1>14. CASE ChangePut(p)
    <2>1. rev' <= MaxRev /\ \A q \in Proc : change'[q].mod \in {change[q].mod, rev'}
      BY <1>0, <1>14 DEF ChangePut, PutTopology, LocalTypeOK, EtcdTypeOK
    <2> QED BY <1>4, <1>14, <2>1 DEF ChangePut, Gone
  <1>15. CASE (\E t \in Topologies : ChangeRead(p, t)) \/ ChangeMark(p) \/ ChangeFails(p)
    <2>1. \A q \in Proc : drain'[q] = drain[q] /\ change'[q].mod \in {change[q].mod, topo.mod, 0}
      BY <1>0, <1>15 DEF ChangeRead, ChangeMark, ChangeFails, NoChange, LocalTypeOK
    <2>2. \A q \in Proc : Gone(q) => Gone(q)'
      BY <1>15 DEF ChangeRead, ChangeMark, ChangeFails, Gone
    <2> QED BY <1>5, <2>1, <2>2
  <1>16. CASE Close(p) \/ Crash(p)
    <2>1. /\ drain' = [drain EXCEPT ![p] = NoDrain] /\ change' = [change EXCEPT ![p] = NoChange]
          /\ health' = [health EXCEPT ![p] = "stopped"]
      BY <1>16 DEF Close, Crash, Forget
    <2>2. \A q \in Proc : drain'[q].rev \in {drain[q].rev, 0} /\ change'[q].mod \in {change[q].mod, 0}
      BY <1>0, <2>1 DEF NoDrain, NoChange, LocalTypeOK
    <2>3. \A q \in Proc : Gone(q) => Gone(q)'
      BY <1>0, <2>1 DEF Gone, LocalTypeOK
    <2> QED BY <1>5, <2>2, <2>3
  <1> QED
    BY <1>7, <1>8, <1>9, <1>10, <1>11, <1>12, <1>13, <1>14, <1>15, <1>16 DEF OtherStep

\* Every step of the control plane keeps the keys in order.
LEMMA NextOrder ==
    ASSUME CPTypeOK, KeysInOrder, ViewsInOrder, [CPNext]_cpVars
    PROVE  KeysInOrder'
  <1> USE DEF readyVars, routeVars, opVars
  <1>0. EtcdTypeOK /\ LocalTypeOK /\ EtcdInOrder /\ OpsInOrder
    BY TypeParts, OrderParts
  <1>1. ASSUME NEW p \in Proc, RefreshRead(p) \/ DrainRefresh(p)
        PROVE  KeysInOrder'
    <2>1. UNCHANGED <<etcdVars, health, change>>
      BY <1>1 DEF RefreshRead, DrainRefresh
    <2>2. \A q \in Proc : drain'[q].rev = drain[q].rev
      <3>1. CASE RefreshRead(p)
        BY <3>1 DEF RefreshRead
      <3>2. CASE DrainRefresh(p)
        BY <1>0, <3>2 DEF DrainRefresh, LocalTypeOK, DrainType
      <3> QED BY <1>1, <3>1, <3>2
    <2> QED
      BY <2>1, <2>2 DEF KeysInOrder, Gone, etcdVars
  <1>2. ASSUME NEW n \in Node, LeaseExpires(n)
        PROVE  KeysInOrder'
    <2>1. EtcdInOrder' /\ rev' \in Nat /\ rev <= rev' /\ topo' = topo
      BY <1>0, <1>2, EtcdStepOrder DEF LeaseExpires, EtcdStep, PutMember
    <2>2. OpsInOrder'
      BY <1>0, <1>2, <2>1
         DEF LeaseExpires, OpsInOrder, Gone, LocalTypeOK, EtcdTypeOK, DrainType, ChangeType
    <2> QED BY <2>1, <2>2, OrderPartsNext
  <1>3. CASE UNCHANGED cpVars
    BY <1>3 DEF cpVars, etcdVars, KeysInOrder, Gone
  <1> QED
    BY <1>1, <1>2, <1>3, ProcStepCases, OtherStepOrder DEF CPNext

-----------------------------------------------------------------------------
(* The application of a view. *)

\* ViewsInOrder and FenceCoversViews for one process.
AppliedInOrder(p) ==
    /\ viewApplied[p] => refresh[p].pc \in {"idle", "read"}
    /\ refresh[p].pc = "idle" <=> refresh[p].view = NoView
    /\ refresh[p].pc # "epoch" => viewEpoch[p] = view[p].epoch
    /\ refresh[p].pc = "epoch" => viewEpoch[p] = refresh[p].view.epoch
    /\ refresh[p].pc \in {"fenced", "ring", "epoch"} => view[p].epoch <= refresh[p].view.epoch
    /\ Gone(p) => refresh[p].pc = "idle" /\ view[p] = NoView
    /\ viewEpoch[p] <= fence
    /\ view[p].epoch <= fence
    /\ refresh[p].pc \in {"fenced", "ring", "epoch"} => refresh[p].view.epoch <= fence

\* The invariants of refreshView and applyControlPlaneView hold when they hold of each process ...
LEMMA AppliedParts ==
    ViewsInOrder /\ FenceCoversViews <=> \A p \in Proc : AppliedInOrder(p)
  BY DEF ViewsInOrder, FenceCoversViews, AppliedInOrder

\* ... also after a step.
LEMMA AppliedPartsNext ==
    (\A p \in Proc : AppliedInOrder(p)') => ViewsInOrder' /\ FenceCoversViews'
  BY DEF ViewsInOrder, FenceCoversViews, AppliedInOrder

\* The epochs a process holds are numbers.
LEMMA EpochTypes ==
    ASSUME CPTypeOK, NEW q \in Proc
    PROVE  viewEpoch[q] \in Nat /\ view[q].epoch \in Nat /\ refresh[q].view.epoch \in Nat
           /\ fence \in Nat
  BY DEF CPTypeOK, View

\* Steps that leave the views alone: the fence may rise, readiness may fall, and no process
\* that is gone comes back.
LEMMA AppliedStays ==
    ASSUME CPTypeOK, NEW q \in Proc, AppliedInOrder(q), fence' \in Nat, fence <= fence',
           viewApplied'[q] => viewApplied[q],
           refresh'[q] = refresh[q], view'[q] = view[q], viewEpoch'[q] = viewEpoch[q],
           Gone(q)' => Gone(q)
    PROVE  AppliedInOrder(q)'
  BY EpochTypes DEF AppliedInOrder

\* The steps of a process that publish or switch nothing leave its views in order.
LEMMA PlainStepApplied ==
    ASSUME CPTypeOK, NEW p \in Proc, OtherStep(p), NEW q \in Proc, AppliedInOrder(q),
           ~(RefreshSame(p) \/ RefreshFence(p) \/ RefreshFenceFails(p) \/ RefreshRing(p)
             \/ RefreshEpoch(p) \/ RefreshPublish(p) \/ RefreshCancelled(p)
             \/ Close(p) \/ Crash(p))
    PROVE  AppliedInOrder(q)'
  <1> USE DEF readyVars, routeVars, opVars
  <1>0. LocalTypeOK
    BY TypeParts
  <1>1. UNCHANGED <<refresh, view, viewEpoch, fence>>
    BY DEF OtherStep, Boot, Register, RegisterFails, LeaseLost, RefreshTooOld, WatchEvent,
           WatchRestart, MarkServing, HealthDrain, BeginClose, DrainPut, DrainMark, DrainDone,
           DrainFails, ChangeRead, ChangePut, ChangeMark, ChangeFails
  <1>2. viewApplied'[q] => viewApplied[q]
    BY <1>0 DEF LocalTypeOK,
           OtherStep, Boot, Register, RegisterFails, LeaseLost, RefreshTooOld, WatchEvent,
           WatchRestart, MarkServing, HealthDrain, BeginClose, DrainPut, DrainMark, DrainDone,
           DrainFails, ChangeRead, ChangePut, ChangeMark, ChangeFails
  <1>3. Gone(q)' => Gone(q)
    BY <1>0 DEF LocalTypeOK, Gone,
           OtherStep, Boot, Register, RegisterFails, LeaseLost, RefreshTooOld, WatchEvent,
           WatchRestart, MarkServing, HealthDrain, BeginClose, DrainPut, DrainMark, DrainDone,
           DrainFails, ChangeRead, ChangePut, ChangeMark, ChangeFails
  <1>4. fence' \in Nat /\ fence <= fence'
    BY <1>0, <1>1 DEF LocalTypeOK
  <1> QED
    BY <1>1, <1>2, <1>3, <1>4, AppliedStays

\* refreshView, applyControlPlaneView and the end of a process: fence, ring, epoch and
\* publication follow each other, and the fence never falls.
LEMMA RefreshStepApplied ==
    ASSUME CPTypeOK, KeysInOrder, NEW p \in Proc, \A r \in Proc : AppliedInOrder(r),
           NEW q \in Proc,
           \/ RefreshSame(p) \/ RefreshFence(p) \/ RefreshFenceFails(p) \/ RefreshRing(p)
           \/ RefreshEpoch(p) \/ RefreshPublish(p) \/ RefreshCancelled(p)
           \/ Close(p) \/ Crash(p) \/ RefreshRead(p) \/ DrainRefresh(p)
    PROVE  AppliedInOrder(q)' /\ fence <= fence'
  <1> USE DEF readyVars, routeVars, opVars
  <1>0. LocalTypeOK
    BY TypeParts
  <1>1. /\ viewEpoch[q] \in Nat /\ view[q].epoch \in Nat /\ refresh[q].view.epoch \in Nat
        /\ refresh[p].view.epoch \in Nat /\ fence \in Nat
    BY EpochTypes
  <1>2. AppliedInOrder(q) /\ AppliedInOrder(p)
    OBVIOUS
  <1>3. CASE RefreshSame(p) \/ RefreshCancelled(p)
    <2>1. /\ refresh' = [refresh EXCEPT ![p] = NoRefresh]
          /\ UNCHANGED <<health, fence, viewApplied, view, viewEpoch>>
          /\ refresh[p].pc = "read"
      BY <1>3 DEF RefreshSame, RefreshCancelled
    <2>2. refresh'[q] = IF q = p THEN NoRefresh ELSE refresh[q]
      BY <1>0, <2>1 DEF LocalTypeOK
    <2> QED
      BY <1>1, <1>2, <2>1, <2>2 DEF AppliedInOrder, Gone, NoRefresh
  <1>4. CASE RefreshRead(p) \/ DrainRefresh(p)
    <2>1. /\ UNCHANGED <<health, fence, viewApplied, view, viewEpoch>>
          /\ Up(p) /\ refresh[p].pc = "idle"
      BY <1>4 DEF RefreshRead, DrainRefresh, ReadView
    <2>2. ~Gone(p)'
      BY <2>1 DEF Up, Gone
    <2>3. PICK e \in Revisions : IsEpoch(e) /\
             refresh' = [refresh EXCEPT ![p] = [pc |-> "read",
                 view |-> [epoch |-> e, active |-> topo.members,
                           serving |-> ServingMembers(topo.members)]]]
      BY <1>4 DEF RefreshRead, DrainRefresh, ReadView
    <2>4. e # 0
      <3>1. topo.mod \in Nat /\ topo.mod > 0 /\ topo.mod <= e
        BY <2>1, <2>3 DEF CPTypeOK, KeysInOrder, Up, Gone, IsEpoch, Revisions
      <3> QED BY <3>1
    <2>5. IF q = p THEN refresh'[q].pc = "read" /\ refresh'[q].view.epoch = e
          ELSE refresh'[q] = refresh[q]
      BY <1>0, <2>3 DEF LocalTypeOK
    <2>6. NoView.epoch = 0
      BY DEF NoView
    <2> QED
      BY <1>1, <1>2, <2>1, <2>2, <2>4, <2>5, <2>6 DEF AppliedInOrder, Gone
  <1>5. CASE RefreshFence(p)
    <2>1. /\ UNCHANGED <<health, view, viewEpoch>> /\ fence' = refresh[p].view.epoch
          /\ refresh[p].view.epoch >= fence /\ refresh[p].pc = "read"
      BY <1>5 DEF RefreshFence
    <2>2. /\ refresh'[q].view = refresh[q].view
          /\ refresh'[q].pc = IF q = p THEN "fenced" ELSE refresh[q].pc
          /\ viewApplied'[q] = IF q = p THEN FALSE ELSE viewApplied[q]
      BY <1>0, <1>5 DEF RefreshFence, LocalTypeOK, RefreshType
    <2> QED
      BY <1>1, <1>2, <2>1, <2>2 DEF AppliedInOrder, Gone
  <1>6. CASE RefreshFenceFails(p)
    <2>1. UNCHANGED <<view, viewEpoch>> /\ fence' \in Nat /\ fence <= fence'
          /\ refresh[p].pc = "read"
      BY <1>1, <1>6 DEF RefreshFenceFails
    <2>2. /\ refresh'[q] = IF q = p THEN NoRefresh ELSE refresh[q]
          /\ viewApplied'[q] = IF q = p THEN FALSE ELSE viewApplied[q]
      BY <1>0, <1>6 DEF RefreshFenceFails, LocalTypeOK
    <2>3. Gone(q)' => Gone(q)
      BY <1>0, <1>6 DEF RefreshFenceFails, LocalTypeOK, Gone
    <2> QED
      BY <1>1, <1>2, <2>1, <2>2, <2>3 DEF AppliedInOrder, NoRefresh
  <1>7. CASE RefreshRing(p)
    <2>1. UNCHANGED <<health, fence, viewApplied, view, viewEpoch>> /\ refresh[p].pc = "fenced"
      BY <1>7 DEF RefreshRing
    <2>2. /\ refresh'[q].view = refresh[q].view
          /\ refresh'[q].pc = IF q = p THEN "ring" ELSE refresh[q].pc
      BY <1>0, <1>7 DEF RefreshRing, LocalTypeOK, RefreshType
    <2> QED
      BY <1>1, <1>2, <2>1, <2>2 DEF AppliedInOrder, Gone
  <1>8. CASE RefreshEpoch(p)
    <2>1. UNCHANGED <<health, fence, viewApplied, view>> /\ refresh[p].pc = "ring"
      BY <1>8 DEF RefreshEpoch
    <2>2. /\ refresh'[q].view = refresh[q].view
          /\ refresh'[q].pc = IF q = p THEN "epoch" ELSE refresh[q].pc
          /\ viewEpoch'[q] = IF q = p THEN refresh[p].view.epoch ELSE viewEpoch[q]
      BY <1>0, <1>8 DEF RefreshEpoch, LocalTypeOK, RefreshType
    <2> QED
      BY <1>1, <1>2, <2>1, <2>2 DEF AppliedInOrder, Gone
  <1>9. CASE RefreshPublish(p)
    <2>1. UNCHANGED <<health, fence, viewEpoch>> /\ refresh[p].pc = "epoch"
      BY <1>9 DEF RefreshPublish
    <2>2. /\ refresh'[q] = IF q = p THEN NoRefresh ELSE refresh[q]
          /\ view'[q] = IF q = p THEN refresh[p].view ELSE view[q]
          /\ viewApplied'[q] = IF q = p THEN TRUE ELSE viewApplied[q]
      BY <1>0, <1>9 DEF RefreshPublish, LocalTypeOK
    <2> QED
      BY <1>1, <1>2, <2>1, <2>2 DEF AppliedInOrder, Gone, NoRefresh
  <1>10. CASE Close(p) \/ Crash(p)
    <2>1. Forget(p) /\ UNCHANGED fence /\ health' = [health EXCEPT ![p] = "stopped"]
      BY <1>10 DEF Close, Crash
    <2>2. /\ refresh'[q] = IF q = p THEN NoRefresh ELSE refresh[q]
          /\ view'[q] = IF q = p THEN NoView ELSE view[q]
          /\ viewEpoch'[q] = IF q = p THEN 0 ELSE viewEpoch[q]
          /\ viewApplied'[q] = IF q = p THEN FALSE ELSE viewApplied[q]
          /\ health'[q] = IF q = p THEN "stopped" ELSE health[q]
      BY <1>0, <2>1 DEF Forget, LocalTypeOK
    <2> QED
      BY <1>1, <1>2, <2>1, <2>2 DEF AppliedInOrder, Gone, NoRefresh, NoView
  <1> QED
    BY <1>3, <1>4, <1>5, <1>6, <1>7, <1>8, <1>9, <1>10

\* Every step of the control plane keeps views and fence in order.
LEMMA NextApplied ==
    ASSUME CPTypeOK, KeysInOrder, ViewsInOrder, FenceCoversViews, [CPNext]_cpVars
    PROVE  ViewsInOrder' /\ FenceCoversViews'
  <1> USE DEF readyVars, routeVars, opVars
  <1> SUFFICES ASSUME NEW q \in Proc PROVE AppliedInOrder(q)'
    BY AppliedPartsNext
  <1>0. \A r \in Proc : AppliedInOrder(r)
    BY AppliedParts
  <1>1. ASSUME NEW p \in Proc, ProcStep(p)
        PROVE  AppliedInOrder(q)'
    BY <1>0, <1>1, ProcStepCases, PlainStepApplied, RefreshStepApplied
  <1>2. ASSUME NEW n \in Node, LeaseExpires(n)
        PROVE  AppliedInOrder(q)'
    BY <1>0, <1>2 DEF LeaseExpires, AppliedInOrder, Gone
  <1>3. CASE UNCHANGED cpVars
    BY <1>0, <1>3 DEF cpVars, AppliedInOrder, Gone
  <1> QED BY <1>1, <1>2, <1>3 DEF CPNext

-----------------------------------------------------------------------------
(* Views and the keys they were read from. *)

\* What an etcd write does to the key of a node and to the topology: nothing, or it takes a
\* revision no view has seen, or the key is gone.
LEMMA EtcdStepKeys ==
    ASSUME EtcdTypeOK, EtcdInOrder, EtcdStep
    PROVE  /\ \A n \in Node : \/ member'[n] = member[n]
                              \/ member'[n].mod = rev + 1
                              \/ member'[n].mod = 0 /\ member'[n].proc = NoProc
           /\ topo' = topo \/ topo'.mod = rev + 1
           /\ rev' \in Nat /\ rev <= rev'
  <1>1. ASSUME NEW k \in Node, NEW m, PutMember(k, m), m = Absent \/ m.mod = rev + 1
        PROVE  /\ \A n \in Node : \/ member'[n] = member[n]
                                  \/ member'[n].mod = rev + 1
                                  \/ member'[n].mod = 0 /\ member'[n].proc = NoProc
               /\ topo' = topo
    BY <1>1 DEF PutMember, EtcdTypeOK, Absent
  <1>2. ASSUME NEW p \in Proc, NEW d \in BOOLEAN
        PROVE  Entry(p, d).mod = rev + 1 /\ NodeOf[p] \in Node
    BY ProcAssumption DEF Entry
  <1>3. /\ \A n \in Node : \/ member'[n] = member[n]
                           \/ member'[n].mod = rev + 1
                           \/ member'[n].mod = 0 /\ member'[n].proc = NoProc
        /\ topo' = topo \/ topo'.mod = rev + 1
    <2>1. CASE \E n \in Node : PutMember(n, Absent)
      BY <1>1, <2>1
    <2>2. CASE \E p \in Proc, d \in BOOLEAN : PutMember(NodeOf[p], Entry(p, d))
      BY <1>1, <1>2, <2>2
    <2>3. CASE \E t \in SUBSET Node : PutTopology(t)
      BY <2>3 DEF PutTopology
    <2>4. CASE \E x \in Nat : x <= rev /\ x <= MaxRev /\ AdvanceEpoch(x)
      BY <2>4 DEF AdvanceEpoch
    <2>5. CASE UNCHANGED etcdVars
      BY <2>5 DEF etcdVars
    <2> QED BY <2>1, <2>2, <2>3, <2>4, <2>5 DEF EtcdStep
  <1> QED BY <1>3, EtcdStepOrder

\* A view keeps fitting: later writes are newer than its epoch.
LEMMA EtcdKeepsFit ==
    ASSUME EtcdTypeOK, EtcdInOrder, EtcdStep, NEW v \in View, Fits(v)
    PROVE  Fits(v)'
  <1> SUFFICES ASSUME v # NoView PROVE Fits(v)'
    BY DEF Fits
  <1> USE DEF View
  <1>0. /\ rev \in Nat /\ rev' \in Nat /\ rev <= rev' /\ v.epoch \in Nat
        /\ v.epoch > 0 /\ v.epoch <= rev /\ v.epoch <= MaxRev
    BY EtcdStepKeys DEF EtcdTypeOK, Fits
  <1>1. topo'.mod <= v.epoch => v.active = topo'.members
    BY <1>0, EtcdStepKeys DEF Fits
  <1>2. ASSUME NEW r \in v.serving
        PROVE  /\ NodeOf[r] \in v.active
               /\ member'[NodeOf[r]].mod \in 1 .. v.epoch =>
                    member'[NodeOf[r]].proc = r /\ ~member'[NodeOf[r]].draining
    <2>1. NodeOf[r] \in Node
      BY ProcAssumption
    <2> QED BY <1>0, <2>1, EtcdStepKeys DEF Fits
  <1>3. ASSUME NEW n \in v.active, member'[n].mod \in 1 .. v.epoch, ~member'[n].draining
        PROVE  member'[n].proc \in v.serving
    <2>1. n \in Node
      OBVIOUS
    <2>2. member'[n] = member[n]
      BY <1>0, <1>3, <2>1, EtcdStepKeys
    <2> QED BY <1>3, <2>2 DEF Fits
  <1> QED
    BY <1>0, <1>1, <1>2, <1>3 DEF Fits

\* Two views keep agreeing: a key that comes back is newer than their epoch.
LEMMA EtcdKeepsAgreement ==
    ASSUME EtcdTypeOK, EtcdInOrder, EtcdStep, NEW v \in View, NEW w \in View,
           v = NoView \/ v.epoch <= rev, Agree(v, w)
    PROVE  Agree(v, w)'
  <1> SUFFICES ASSUME v.epoch = w.epoch,
                      NEW r \in v.serving \ w.serving,
                      member'[NodeOf[r]].proc = r, member'[NodeOf[r]].mod <= v.epoch
               PROVE  FALSE
    BY DEF Agree
  <1> USE DEF View
  <1>0. rev \in Nat /\ v.epoch \in Nat /\ v.epoch <= rev
    BY DEF EtcdTypeOK, NoView
  <1>1. NodeOf[r] \in Node /\ r # NoProc
    BY ProcAssumption
  <1>2. member'[NodeOf[r]] = member[NodeOf[r]]
    BY <1>0, <1>1, EtcdStepKeys
  <1> QED
    BY <1>2 DEF Agree

\* What refreshView has just read fits: the epoch is the largest revision of the snapshot.
LEMMA ReadFits ==
    ASSUME EtcdTypeOK, EtcdInOrder, topo.mod > 0, NEW e \in Revisions, IsEpoch(e),
           NEW v \in View, v = [epoch |-> e, active |-> topo.members,
                                serving |-> ServingMembers(topo.members)]
    PROVE  Fits(v)
  <1> USE BoundAssumption
  <1>1. e \in Nat /\ e > 0 /\ e <= rev /\ e <= MaxRev
    BY DEF IsEpoch, Revisions, EtcdTypeOK, EtcdInOrder, MemberType
  <1>2. ASSUME NEW r \in v.serving
        PROVE  NodeOf[r] \in v.active /\ member[NodeOf[r]].proc = r /\ ~member[NodeOf[r]].draining
    <2>1. PICK n \in topo.members : member[n].mod > 0 /\ ~member[n].draining /\ r = member[n].proc
      BY <1>2 DEF ServingMembers
    <2>2. n \in Node /\ member[n].mod # 0
      BY <2>1 DEF EtcdTypeOK
    <2> QED BY <2>1, <2>2 DEF EtcdInOrder
  <1>3. ASSUME NEW n \in v.active, member[n].mod \in 1 .. v.epoch, ~member[n].draining
        PROVE  member[n].proc \in v.serving
    BY <1>1, <1>3 DEF ServingMembers
  <1> QED
    BY <1>1, <1>2, <1>3 DEF Fits

\* It agrees with every view in use that fits: both saw the keys up to their common epoch.
LEMMA ReadAgrees ==
    ASSUME EtcdTypeOK, EtcdInOrder, topo.mod > 0, NEW e \in Revisions, IsEpoch(e),
           NEW v \in View, v = [epoch |-> e, active |-> topo.members,
                                serving |-> ServingMembers(topo.members)],
           NEW w \in View, Fits(w)
    PROVE  Agree(v, w) /\ Agree(w, v)
  <1> SUFFICES ASSUME v.epoch = w.epoch PROVE Agree(v, w) /\ Agree(w, v)
    BY DEF Agree
  <1> USE DEF View
  <1>1. e \in Nat /\ e > 0 /\ topo.mod <= e /\ \A n \in Node : member[n].mod \in Nat /\ member[n].mod <= e
    BY DEF IsEpoch, Revisions, EtcdTypeOK, MemberType
  <1>2. w # NoView /\ w.epoch = e
    BY <1>1 DEF NoView
  <1>3. w.active = topo.members
    BY <1>1, <1>2 DEF Fits
  <1>4. ASSUME NEW r \in v.serving
        PROVE  /\ NodeOf[r] \in Node /\ NodeOf[r] \in topo.members
               /\ member[NodeOf[r]].proc = r /\ ~member[NodeOf[r]].draining
               /\ member[NodeOf[r]].mod \in 1 .. e
    <2>1. PICK n \in topo.members : member[n].mod > 0 /\ ~member[n].draining /\ r = member[n].proc
      BY <1>4 DEF ServingMembers
    <2>2. n \in Node /\ member[n].mod # 0 /\ member[n].mod \in 1 .. e
      BY <1>1, <2>1 DEF EtcdTypeOK
    <2> QED BY <2>1, <2>2 DEF EtcdInOrder
  <1>5. v.serving \ w.serving = {}
    <2> SUFFICES ASSUME NEW r \in v.serving PROVE r \in w.serving
      OBVIOUS
    <2> QED BY <1>2, <1>3, <1>4 DEF Fits
  <1>6. ASSUME NEW r \in w.serving \ v.serving, member[NodeOf[r]].proc = r,
               member[NodeOf[r]].mod <= e
        PROVE  FALSE
    <2>1. NodeOf[r] \in Node /\ r \in Proc /\ NodeOf[r] \in topo.members
      BY <1>2, <1>3, <1>6, ProcAssumption DEF Fits
    <2>2. member[NodeOf[r]].mod \in 1 .. e
      BY <1>1, <1>6, <2>1, ProcAssumption DEF EtcdInOrder
    <2>3. ~member[NodeOf[r]].draining
      BY <1>2, <1>6, <2>2 DEF Fits
    <2>4. r \in ServingMembers(topo.members)
      BY <1>6, <2>1, <2>2, <2>3 DEF ServingMembers
    <2> QED BY <1>6, <2>4
  <1>7. ASSUME NEW r \in v.serving, NEW x \in w.serving, NodeOf[r] = NodeOf[x]
        PROVE  r = x
    BY <1>2, <1>4, <1>7 DEF Fits
  <1> QED
    BY <1>2, <1>3, <1>5, <1>6, <1>7 DEF Agree

\* The absence of a view agrees with every view that fits.
LEMMA NoViewAgrees ==
    ASSUME NEW w \in View, Fits(w)
    PROVE  Fits(NoView) /\ Agree(NoView, w) /\ Agree(w, NoView)
  <1>1. CASE w = NoView
    BY <1>1 DEF Fits, Agree, NoView
  <1>2. CASE w # NoView
    BY <1>2 DEF Fits, Agree, NoView, View
  <1> QED BY <1>1, <1>2

\* The views in use are views.
LEMMA HeldTypes ==
    ASSUME CPTypeOK
    PROVE  Held \in SUBSET View
  BY DEF Held, CPTypeOK

\* Only refreshView's read brings a new view into use.
LEMMA OtherStepHeld ==
    ASSUME CPTypeOK, NEW p \in Proc, OtherStep(p)
    PROVE  Held' \subseteq Held \cup {NoView}
  <1> USE DEF readyVars, routeVars, opVars
  <1>0. LocalTypeOK
    BY TypeParts
  <1>1. SUFFICES ASSUME NEW q \in Proc
                 PROVE  view'[q] \in {view[q], refresh[q].view, NoView}
                        /\ refresh'[q].view \in {refresh[q].view, NoView}
    BY DEF Held
  <1>2. CASE RefreshSame(p) \/ RefreshCancelled(p) \/ RefreshFenceFails(p)
    BY <1>0, <1>2 DEF RefreshSame, RefreshCancelled, RefreshFenceFails, LocalTypeOK, NoRefresh
  <1>3. CASE RefreshFence(p) \/ RefreshRing(p) \/ RefreshEpoch(p)
    <2>1. view' = view /\ \E x : refresh' = [refresh EXCEPT ![p].pc = x]
      BY <1>3 DEF RefreshFence, RefreshRing, RefreshEpoch
    <2>2. PICK x : refresh' = [refresh EXCEPT ![p].pc = x]
      BY <2>1
    <2>3. refresh'[q].view = refresh[q].view
      BY <1>0, <2>2 DEF LocalTypeOK, RefreshType
    <2> QED BY <2>1, <2>3
  <1>4. CASE RefreshPublish(p)
    BY <1>0, <1>4 DEF RefreshPublish, LocalTypeOK, NoRefresh
  <1>5. CASE Close(p) \/ Crash(p)
    BY <1>0, <1>5 DEF Close, Crash, Forget, LocalTypeOK, NoRefresh
  <1>6. CASE ~(RefreshSame(p) \/ RefreshFence(p) \/ RefreshFenceFails(p) \/ RefreshRing(p)
               \/ RefreshEpoch(p) \/ RefreshPublish(p) \/ RefreshCancelled(p)
               \/ Close(p) \/ Crash(p))
    <2>1. UNCHANGED <<refresh, view>>
      BY <1>6
         DEF OtherStep, Boot, Register, RegisterFails, LeaseLost, RefreshTooOld, WatchEvent,
             WatchRestart, MarkServing, HealthDrain, BeginClose, DrainPut, DrainMark, DrainDone,
             DrainFails, ChangeRead, ChangePut, ChangeMark, ChangeFails
    <2> QED BY <2>1
  <1> QED
    BY <1>2, <1>3, <1>4, <1>5, <1>6

\* Steps that write etcd, or drop and publish views already in use, keep the views fitting.
LEMMA EtcdStepViewsFit ==
    ASSUME CPTypeOK, KeysInOrder, ViewsFit, EtcdStep, Held' \subseteq Held \cup {NoView}
    PROVE  ViewsFit'
  <1>0. EtcdTypeOK /\ EtcdInOrder /\ Held \in SUBSET View /\ NoView \in View
    BY TypeParts, OrderParts, HeldTypes, InitialRecords
  <1>1. ASSUME NEW v \in Held \cup {NoView}
        PROVE  v \in View /\ Fits(v) /\ Fits(v)' /\ (v = NoView \/ v.epoch <= rev)
    <2>1. v \in View /\ Fits(v)
      BY <1>0 DEF ViewsFit, Fits
    <2> QED BY <1>0, <2>1, EtcdKeepsFit DEF Fits
  <1>2. ASSUME NEW v \in Held \cup {NoView}, NEW w \in Held \cup {NoView}
        PROVE  Agree(v, w)'
    <2>1. Agree(v, w)
      BY <1>1, NoViewAgrees DEF ViewsFit
    <2> QED BY <1>0, <1>1, <2>1, EtcdKeepsAgreement
  <1>3. ASSUME NEW v \in Held' PROVE Fits(v)'
    BY <1>1, <1>3
  <1>4. ASSUME NEW v \in Held', NEW w \in Held' PROVE Agree(v, w)'
    BY <1>2, <1>4
  <1> QED BY <1>3, <1>4 DEF ViewsFit

\* refreshView's read keeps the views fitting.
LEMMA ReadViewsFit ==
    ASSUME CPTypeOK, KeysInOrder, ViewsFit, NEW p \in Proc,
           RefreshRead(p) \/ DrainRefresh(p)
    PROVE  ViewsFit'
  <1>0. EtcdTypeOK /\ EtcdInOrder /\ OpsInOrder /\ LocalTypeOK /\ Held \in SUBSET View
    BY TypeParts, OrderParts, HeldTypes
  <1>1. ReadView(p) /\ UNCHANGED etcdVars /\ UNCHANGED view
    BY DEF RefreshRead, DrainRefresh, readyVars
  <1>2. topo.mod > 0
    BY <1>0, <1>1 DEF ReadView, Up, OpsInOrder, Gone
  <1>3. PICK e \in Revisions :
          /\ IsEpoch(e)
          /\ refresh' = [refresh EXCEPT ![p] = [pc |-> "read",
                 view |-> [epoch |-> e, active |-> topo.members,
                           serving |-> ServingMembers(topo.members)]]]
    BY <1>1 DEF ReadView
  <1> DEFINE new == [epoch |-> e, active |-> topo.members, serving |-> ServingMembers(topo.members)]
  <1>4. new \in View
    <2>1. e \in Nat /\ topo.members \in SUBSET Node
      BY <1>0 DEF Revisions, EtcdTypeOK, MemberType
    <2>2. ServingMembers(topo.members) \in SUBSET Proc
      BY <2>1, ServingType
    <2> QED BY <2>1, <2>2 DEF View
  <1>5. Held' \subseteq Held \cup {new}
    BY <1>0, <1>1, <1>3 DEF Held, LocalTypeOK
  <1> HIDE DEF new
  <1>6. Fits(new)
    BY <1>0, <1>2, <1>3, <1>4, ReadFits DEF new
  <1>7. \A v \in Held \cup {new} : v \in View /\ Fits(v)
    BY <1>0, <1>4, <1>6 DEF ViewsFit
  <1>8. \A w \in Held \cup {new} : Agree(new, w) /\ Agree(w, new)
    BY <1>0, <1>2, <1>3, <1>4, <1>7, ReadAgrees DEF new
  <1>9. \A v, w \in Held \cup {new} : Agree(v, w)
    BY <1>8 DEF ViewsFit
  <1>10. ASSUME NEW v \in Held' PROVE Fits(v)'
    <2>1. Fits(v)
      BY <1>5, <1>7, <1>10
    <2> QED BY <1>1, <2>1 DEF Fits, etcdVars
  <1>11. ASSUME NEW v \in Held', NEW w \in Held' PROVE Agree(v, w)'
    <2>1. Agree(v, w)
      BY <1>5, <1>9, <1>11
    <2> QED BY <1>1, <2>1 DEF Agree, etcdVars
  <1> QED BY <1>10, <1>11 DEF ViewsFit

\* Every step of the control plane keeps the views fitting.
LEMMA NextViewsFit ==
    ASSUME CPTypeOK, KeysInOrder, ViewsFit, [CPNext]_cpVars
    PROVE  ViewsFit'
  <1>1. ASSUME NEW p \in Proc, OtherStep(p)
        PROVE  ViewsFit'
    BY <1>1, OtherStepEtcd, OtherStepHeld, EtcdStepViewsFit
  <1>2. ASSUME NEW n \in Node, LeaseExpires(n)
        PROVE  ViewsFit'
    <2>1. Held' = Held
      BY <1>2 DEF LeaseExpires, Held, readyVars
    <2>2. EtcdStep
      BY <1>2 DEF LeaseExpires, EtcdStep
    <2> QED BY <2>1, <2>2, EtcdStepViewsFit
  <1>3. CASE UNCHANGED cpVars
    <2>1. Held' = Held /\ EtcdStep
      BY <1>3 DEF cpVars, readyVars, Held, EtcdStep
    <2> QED BY <2>1, EtcdStepViewsFit
  <1> QED
    BY <1>1, <1>2, <1>3, ProcStepCases, ReadViewsFit DEF CPNext

-----------------------------------------------------------------------------
(* Theorems. *)

\* Before the first process starts etcd is empty and nobody holds a view.
LEMMA InitCPInv == CPInit => CPInv
  <1> SUFFICES ASSUME CPInit PROVE CPInv
    OBVIOUS
  <1> USE BoundAssumption
  <1>1. CPTypeOK
    <2>1. Absent \in MemberType
      BY DEF Absent, MemberType
    <2> QED BY <2>1, InitialRecords DEF CPInit, CPTypeOK, MemberType, RefreshType, DrainType, ChangeType
  <1>2. KeysInOrder
    BY DEF CPInit, KeysInOrder, Absent, NoDrain, NoChange, Gone
  <1>3. ViewsInOrder /\ FenceCoversViews
    <2>1. ASSUME NEW p \in Proc
          PROVE  /\ ~viewApplied[p] /\ refresh[p] = NoRefresh /\ view[p] = NoView
                 /\ viewEpoch[p] = 0 /\ fence = 0
      BY DEF CPInit
    <2>2. NoRefresh.pc = "idle" /\ NoRefresh.view = NoView /\ NoView.epoch = 0
      BY DEF NoRefresh, NoView
    <2> QED BY <2>1, <2>2 DEF ViewsInOrder, FenceCoversViews
  <1>4. Held \subseteq {NoView}
    BY DEF CPInit, Held, NoRefresh
  <1>5. ViewsFit
    BY <1>4, InitialRecords, NoViewAgrees DEF ViewsFit, Fits, Agree, NoView
  <1> QED
    BY <1>1, <1>2, <1>3, <1>5 DEF CPInv

\* Every step of the control plane preserves the invariant.
LEMMA NextCPInv == CPInv /\ [CPNext]_cpVars => CPInv'
  BY NextTypeOK, NextOrder, NextApplied, NextViewsFit DEF CPInv

\* The control planes, etcd and the fence row, for every cluster and whatever leases, Watches,
\* drains, topology changes and crashes do: the inductive invariant holds.
THEOREM ControlPlaneSafe == CPSpec => []CPInv
  BY InitCPInv, NextCPInv, PTL DEF CPSpec

\* The state of the control plane keeps its types.
THEOREM ControlPlaneTypes == CPSpec => []CPTypeOK
  <1>1. CPInv => CPTypeOK
    BY DEF CPInv
  <1> QED BY <1>1, ControlPlaneSafe, PTL

\* applyControlPlaneView's order: no process routes, reports or publishes an epoch that the
\* database fence does not cover yet.
THEOREM FenceFirst == CPSpec => []FenceCoversViews
  <1>1. CPInv => FenceCoversViews
    BY DEF CPInv
  <1> QED BY <1>1, ControlPlaneSafe, PTL

\* refreshView: views of one epoch agree on the topology and differ only in members whose key
\* is gone, although the epoch is computed from the keys that are left.
THEOREM EpochsIdentifyViews == CPSpec => []SameEpochViewsAgree
  <1>1. CPInv => SameEpochViewsAgree
    BY DEF CPInv, ViewsFit, Held, Agree, SameEpochViewsAgree
  <1> QED BY <1>1, ControlPlaneSafe, PTL

\* register and Ready: two instances of one node name are never ready under one epoch.
THEOREM InstancesAreFenced == CPSpec => []OneReadyInstance
  <1>1. CPInv => OneReadyInstance
    BY DEF CPInv, ViewsFit, Held, Agree, OneReadyInstance, Ready
  <1> QED BY <1>1, ControlPlaneSafe, PTL

\* AllowsWrites: no write is let through between the fence of a new view and its publication,
\* and the epoch it is fenced with is that of the published view.
THEOREM WritesUnderOneView == CPSpec => []WritesNeedAppliedView
  <1>1. CPInv => WritesNeedAppliedView
    <2> SUFFICES ASSUME CPInv, NEW p \in Proc, AllowsWrites(p)
                 PROVE  Fence!MayWrite(p) /\ viewEpoch[p] = view[p].epoch
      BY DEF WritesNeedAppliedView
    <2>1. viewApplied[p] /\ health[p] = "serving" /\ viewEpoch[p] > 0
      BY DEF AllowsWrites, Ready
    <2>2. refresh[p].pc \in {"idle", "read"} /\ viewEpoch[p] = view[p].epoch
      BY <2>1 DEF CPInv, ViewsInOrder
    <2>3. AliveOf(p) = "up" /\ ApplyOf(p).pc = "idle"
      BY <2>1, <2>2 DEF AliveOf, ApplyOf
    <2> QED BY <2>1, <2>2, <2>3 DEF Fence!MayWrite
  <1> QED BY <1>1, ControlPlaneSafe, PTL

\* What a step of refreshView does to the epochs of a process that goes on.
LEMMA EpochsGrowStep ==
    ASSUME CPInv, [CPNext]_cpVars
    PROVE  /\ fence' >= fence
           /\ \A q \in Proc : health'[q] # "stopped" =>
                 viewEpoch'[q] >= viewEpoch[q] /\ view'[q].epoch >= view[q].epoch
  <1> USE DEF readyVars, routeVars, opVars
  <1>0. CPTypeOK /\ LocalTypeOK /\ \A r \in Proc : AppliedInOrder(r)
    BY TypeParts, AppliedParts DEF CPInv
  <1>1. ASSUME NEW q \in Proc
        PROVE  /\ viewEpoch[q] \in Nat /\ view[q].epoch \in Nat /\ refresh[q].view.epoch \in Nat
               /\ fence \in Nat
    BY <1>0, EpochTypes
  <1>2. CASE UNCHANGED <<fence, viewEpoch, view>>
    BY <1>0, <1>1, <1>2 DEF LocalTypeOK
  <1>3. ASSUME NEW p \in Proc, RefreshFence(p) \/ RefreshFenceFails(p)
        PROVE  fence' >= fence /\ UNCHANGED <<viewEpoch, view>>
    BY <1>1, <1>3 DEF RefreshFence, RefreshFenceFails
  <1>4. ASSUME NEW p \in Proc, RefreshEpoch(p), NEW q \in Proc
        PROVE  UNCHANGED <<fence, view>> /\ viewEpoch'[q] >= viewEpoch[q]
    <2>1. refresh[p].pc = "ring"
      BY <1>4 DEF RefreshEpoch
    <2>2. viewEpoch[p] <= refresh[p].view.epoch
      BY <1>0, <1>1, <2>1 DEF AppliedInOrder
    <2> QED BY <1>0, <1>1, <1>4, <2>2 DEF RefreshEpoch, LocalTypeOK
  <1>5. ASSUME NEW p \in Proc, RefreshPublish(p), NEW q \in Proc
        PROVE  UNCHANGED <<fence, viewEpoch>> /\ view'[q].epoch >= view[q].epoch
    <2>1. refresh[p].pc = "epoch"
      BY <1>5 DEF RefreshPublish
    <2>2. view[p].epoch <= refresh[p].view.epoch
      BY <1>0, <2>1 DEF AppliedInOrder
    <2>3. view'[q] = IF q = p THEN refresh[p].view ELSE view[q]
      BY <1>0, <1>5 DEF RefreshPublish, LocalTypeOK
    <2> QED BY <1>1, <1>5, <2>2, <2>3 DEF RefreshPublish
  <1>6. ASSUME NEW p \in Proc, Close(p) \/ Crash(p), NEW q \in Proc, health'[q] # "stopped"
        PROVE  viewEpoch'[q] = viewEpoch[q] /\ view'[q] = view[q]
    BY <1>0, <1>6 DEF Close, Crash, Forget, LocalTypeOK
  <1>7. ASSUME NEW p \in Proc, Close(p) \/ Crash(p)
        PROVE  fence' = fence
    BY <1>7 DEF Close, Crash
  <1>8. ASSUME NEW p \in Proc, ProcStep(p),
               ~(RefreshFence(p) \/ RefreshFenceFails(p) \/ RefreshEpoch(p) \/ RefreshPublish(p)
                 \/ Close(p) \/ Crash(p))
        PROVE  UNCHANGED <<fence, viewEpoch, view>>
    BY <1>8
       DEF ProcStep, QuietStep, Boot, Register, RegisterFails, LeaseLost, RefreshTooOld,
           WatchEvent, WatchRestart, RefreshRead, RefreshSame, RefreshRing, RefreshCancelled,
           MarkServing, HealthDrain, BeginClose, DrainPut, DrainMark, DrainRefresh, DrainDone,
           DrainFails, ChangeRead, ChangePut, ChangeMark, ChangeFails
  <1>9. ASSUME NEW n \in Node, LeaseExpires(n)
        PROVE  UNCHANGED <<fence, viewEpoch, view>>
    BY <1>9 DEF LeaseExpires
  <1>10. CASE UNCHANGED cpVars
    BY <1>2, <1>10 DEF cpVars
  <1>11. fence \in Nat
    BY <1>0 DEF LocalTypeOK
  <1>12. ASSUME NEW p \in Proc, ProcStep(p)
         PROVE  /\ fence' >= fence
                /\ \A q \in Proc : health'[q] # "stopped" =>
                      viewEpoch'[q] >= viewEpoch[q] /\ view'[q].epoch >= view[q].epoch
    <2>1. CASE RefreshFence(p) \/ RefreshFenceFails(p)
      BY <1>1, <1>3, <2>1
    <2>2. CASE RefreshEpoch(p)
      BY <1>1, <1>4, <1>11, <2>2
    <2>3. CASE RefreshPublish(p)
      BY <1>1, <1>5, <1>11, <2>3
    <2>4. CASE Close(p) \/ Crash(p)
      BY <1>1, <1>6, <1>7, <1>11, <2>4
    <2> QED BY <1>2, <1>8, <1>12, <2>1, <2>2, <2>3, <2>4
  <1> QED
    BY <1>2, <1>9, <1>10, <1>12 DEF CPNext

\* ClusterFenceAdvance and refreshView: the committed fence never moves back and no running
\* process goes back to an older epoch, although the epoch of a snapshot may fall.
THEOREM NoEpochFallsBack == CPSpec => EpochsOnlyGrow
  <1>1. CPInv /\ [CPNext]_cpVars =>
          [ /\ fence' >= fence
            /\ \A p \in Proc : health'[p] # "stopped" =>
                  viewEpoch'[p] >= viewEpoch[p] /\ view'[p].epoch >= view[p].epoch ]_cpVars
    BY EpochsGrowStep
  <1> QED BY <1>1, ControlPlaneSafe, PTL DEF CPSpec, EpochsOnlyGrow

-----------------------------------------------------------------------------
(* Topology changes. *)

\* ChangeTopology's compare on the revision of the topology key keeps its validation valid:
\* whoever writes the key takes a revision that no pending change has read.
LEMMA NextChanges ==
    ASSUME CPInv, ChangesInOrder, [CPNext]_cpVars
    PROVE  ChangesInOrder'
  <1> USE DEF readyVars, routeVars, opVars
  <1>0. LocalTypeOK /\ EtcdTypeOK /\ EtcdInOrder /\ CPTypeOK /\ KeysInOrder
    BY TypeParts, OrderParts DEF CPInv
  <1> SUFFICES ASSUME NEW q \in Proc, change'[q].pc = "read", change'[q].mod = topo'.mod
               PROVE  \/ Expanding(topo'.members, change'[q].members)
                      \/ Shrinking(topo'.members, change'[q].members)
    BY DEF ChangesInOrder, Expanding, Shrinking
  <1>1. change[q].mod \in Nat /\ change[q].mod <= rev /\ rev \in Nat
    BY <1>0 DEF KeysInOrder, LocalTypeOK, EtcdTypeOK, ChangeType
  <1>2. ASSUME change'[q] = change[q], topo' = topo \/ topo'.mod = rev + 1
        PROVE  \/ Expanding(topo'.members, change'[q].members)
               \/ Shrinking(topo'.members, change'[q].members)
    BY <1>1, <1>2 DEF ChangesInOrder
  <1>3. ASSUME NEW p \in Proc, ProcStep(p)
        PROVE  topo' = topo \/ topo'.mod = rev + 1
    <2>1. CASE OtherStep(p)
      BY <1>0, <2>1, OtherStepEtcd, EtcdStepKeys
    <2>2. CASE RefreshRead(p) \/ DrainRefresh(p)
      BY <2>2 DEF RefreshRead, DrainRefresh, etcdVars
    <2> QED BY <1>3, <2>1, <2>2, ProcStepCases
  <1>4. ASSUME NEW p \in Proc, ProcStep(p),
               ~((\E t \in Topologies : ChangeRead(p, t)) \/ ChangePut(p) \/ ChangeMark(p)
                 \/ ChangeFails(p) \/ Close(p) \/ Crash(p))
        PROVE  change' = change
    BY <1>4
       DEF ProcStep, QuietStep, Boot, Register, RegisterFails, LeaseLost, RefreshTooOld,
           WatchEvent, WatchRestart, RefreshRead, RefreshSame, RefreshFence, RefreshFenceFails,
           RefreshRing, RefreshEpoch, RefreshPublish, RefreshCancelled,
           MarkServing, HealthDrain, BeginClose, DrainPut, DrainMark, DrainRefresh, DrainDone,
           DrainFails
  <1>5. ASSUME NEW p \in Proc, ChangePut(p) \/ ChangeMark(p) \/ ChangeFails(p) \/ Close(p) \/ Crash(p)
        PROVE  change'[q] = change[q]
    <2>1. \E x \in {[pc |-> "put", mod |-> rev + 1, members |-> change[p].members], NoChange} :
             change' = [change EXCEPT ![p] = x]
      BY <1>5 DEF ChangePut, ChangeMark, ChangeFails, Close, Crash, Forget
    <2> QED BY <1>0, <2>1 DEF LocalTypeOK, NoChange
  <1>6. ASSUME NEW p \in Proc, NEW t \in Topologies, ChangeRead(p, t)
        PROVE  \/ Expanding(topo'.members, change'[q].members)
               \/ Shrinking(topo'.members, change'[q].members)
    <2>1. /\ topo' = topo
          /\ change'[q] = IF q = p THEN [pc |-> "read", mod |-> topo.mod, members |-> t]
                          ELSE change[q]
      BY <1>0, <1>6 DEF ChangeRead, etcdVars, LocalTypeOK
    <2>2. CASE q = p
      BY <1>6, <2>1, <2>2 DEF ChangeRead
    <2> QED BY <1>2, <2>1, <2>2
  <1>7. ASSUME NEW n \in Node, LeaseExpires(n)
        PROVE  change' = change /\ topo' = topo
    BY <1>7 DEF LeaseExpires, PutMember
  <1>8. CASE UNCHANGED cpVars
    BY <1>2, <1>8 DEF cpVars, etcdVars
  <1> QED
    BY <1>2, <1>3, <1>4, <1>5, <1>6, <1>7, <1>8 DEF CPNext

\* ChangeTopology: a committed topology is two members larger or smaller than the one it
\* replaces, however many nodes ask for changes at once.
THEOREM TopologyChangesAreAdjacent == CPSpec => TopologyMovesByTwo
  <1>1. CPInit => ChangesInOrder
    BY DEF CPInit, ChangesInOrder, NoChange
  <1>2. CPInv /\ ChangesInOrder /\ [CPNext]_cpVars => ChangesInOrder'
    BY NextChanges
  <1>3. CPInv /\ ChangesInOrder /\ [CPNext]_cpVars =>
          [ topo.mod # 0 /\ topo' # topo =>
              Expanding(topo.members, topo'.members) \/ Shrinking(topo.members, topo'.members) ]_cpVars
    <2> SUFFICES ASSUME CPInv, ChangesInOrder, [CPNext]_cpVars, topo.mod # 0, topo' # topo
                 PROVE  Expanding(topo.members, topo'.members) \/ Shrinking(topo.members, topo'.members)
      OBVIOUS
    <2>1. \E p \in Proc : ChangePut(p)
      <3>1. ASSUME NEW n \in Node, LeaseExpires(n) PROVE topo' = topo
        BY <3>1 DEF LeaseExpires, PutMember
      <3>2. ASSUME NEW p \in Proc,
                   \/ Boot(p) \/ Register(p) \/ RegisterFails(p) \/ LeaseLost(p) \/ RefreshTooOld(p)
                   \/ WatchEvent(p) \/ WatchRestart(p) \/ MarkServing(p) \/ HealthDrain(p)
                   \/ BeginClose(p) \/ Close(p) \/ Crash(p)
            PROVE  topo' = topo
        BY <3>2 DEF Boot, Register, RegisterFails, LeaseLost, RefreshTooOld, WatchEvent,
             WatchRestart, MarkServing, HealthDrain, BeginClose, Close, Crash, PutMember, etcdVars,
             AdvanceEpoch
      <3>3. ASSUME NEW p \in Proc,
                   \/ RefreshRead(p) \/ RefreshSame(p) \/ RefreshFence(p) \/ RefreshFenceFails(p)
                   \/ RefreshRing(p) \/ RefreshEpoch(p) \/ RefreshCancelled(p) \/ RefreshPublish(p)
            PROVE  topo' = topo
        BY <3>3 DEF RefreshRead, RefreshSame, RefreshFence, RefreshFenceFails, RefreshRing,
             RefreshEpoch, RefreshCancelled, RefreshPublish, etcdVars
      <3>4. ASSUME NEW p \in Proc,
                   \/ DrainPut(p) \/ DrainMark(p) \/ DrainRefresh(p) \/ DrainDone(p) \/ DrainFails(p)
                   \/ (\E t \in Topologies : ChangeRead(p, t)) \/ ChangeMark(p) \/ ChangeFails(p)
            PROVE  topo' = topo
        BY <3>4 DEF DrainPut, DrainMark, DrainRefresh, DrainDone, DrainFails, ChangeRead,
             ChangeMark, ChangeFails, PutMember, etcdVars, AdvanceEpoch
      <3>5. cpVars' # cpVars
        BY DEF cpVars, etcdVars
      <3> QED BY <3>1, <3>2, <3>3, <3>4, <3>5 DEF CPNext, ProcStep, QuietStep
    <2>2. PICK p \in Proc : ChangePut(p)
      BY <2>1
    <2> QED BY <2>2 DEF ChangePut, PutTopology, ChangesInOrder
  <1> QED
    BY <1>1, <1>2, <1>3, ControlPlaneSafe, PTL DEF CPSpec, TopologyMovesByTwo

-----------------------------------------------------------------------------
(* ClusterControlPlane implements EpochFence. *)

\* A step that moves neither the fence nor what a process routes by is a stutter.
LEMMA FenceStutters ==
    ASSUME UNCHANGED <<fence, ring, viewEpoch>>,
           \A q \in Proc : AliveOf(q)' = AliveOf(q) /\ ApplyOf(q)' = ApplyOf(q)
    PROVE  UNCHANGED Fence!fenceVars
  BY DEF Fence!fenceVars

\* A process whose health and refreshView rest looks the same to the publish path.
LEMMA SameMapping ==
    ASSUME NEW q \in Proc
    PROVE  /\ health'[q] = health[q] => AliveOf(q)' = AliveOf(q)
           /\ ~Gone(q) /\ ~Gone(q)' => AliveOf(q) = "up" /\ AliveOf(q)' = "up"
           /\ refresh'[q] = refresh[q] => ApplyOf(q)' = ApplyOf(q)
           /\ refresh[q].pc \in {"idle", "read"} => ApplyOf(q) = Fence!Idle
           /\ refresh'[q].pc \in {"idle", "read"} => ApplyOf(q)' = Fence!Idle
  BY DEF AliveOf, ApplyOf, Gone, memberNames, Fence!Idle, Fence!Applying

\* The steps of registration, lease, Watch, drain and topology change ...
PlainStep(p) ==
    \/ Register(p) \/ RegisterFails(p) \/ LeaseLost(p) \/ RefreshTooOld(p)
    \/ WatchEvent(p) \/ WatchRestart(p)
    \/ RefreshRead(p) \/ RefreshSame(p) \/ RefreshCancelled(p)
    \/ MarkServing(p) \/ HealthDrain(p) \/ BeginClose(p)
    \/ DrainPut(p) \/ DrainMark(p) \/ DrainRefresh(p) \/ DrainDone(p) \/ DrainFails(p)
    \/ (\E t \in Topologies : ChangeRead(p, t)) \/ ChangePut(p) \/ ChangeMark(p) \/ ChangeFails(p)

\* ... are stutters.
LEMMA PlainStepStutters ==
    ASSUME CPInv, NEW p \in Proc, PlainStep(p)
    PROVE  UNCHANGED Fence!fenceVars
  <1> USE DEF readyVars, routeVars, opVars
  <1>0. LocalTypeOK
    BY TypeParts DEF CPInv
  <1>1. UNCHANGED <<fence, ring, viewEpoch>>
    BY DEF PlainStep, Register, RegisterFails, LeaseLost, RefreshTooOld,
           WatchEvent, WatchRestart, RefreshRead, RefreshSame, RefreshCancelled,
           MarkServing, HealthDrain, BeginClose, DrainPut, DrainMark, DrainRefresh, DrainDone,
           DrainFails, ChangeRead, ChangePut, ChangeMark, ChangeFails
  <1>2. ASSUME NEW q \in Proc
        PROVE  health'[q] = health[q] \/ (~Gone(q) /\ ~Gone(q)')
    BY <1>0
       DEF LocalTypeOK, Gone, Up, Started, PlainStep, Register, RegisterFails,
           LeaseLost, RefreshTooOld,
           WatchEvent, WatchRestart, RefreshRead, RefreshSame, RefreshCancelled,
           MarkServing, HealthDrain, BeginClose, DrainPut, DrainMark, DrainRefresh, DrainDone,
           DrainFails, ChangeRead, ChangePut, ChangeMark, ChangeFails
  <1>3. ASSUME NEW q \in Proc
        PROVE  \/ refresh'[q] = refresh[q]
               \/ refresh[q].pc \in {"idle", "read"} /\ refresh'[q].pc \in {"idle", "read"}
    BY <1>0
       DEF LocalTypeOK, NoRefresh, PlainStep, Register, RegisterFails, LeaseLost,
           RefreshTooOld, WatchEvent, WatchRestart, RefreshRead, ReadView, RefreshSame,
           RefreshCancelled, MarkServing, HealthDrain, BeginClose, DrainPut, DrainMark,
           DrainRefresh, DrainDone, DrainFails, ChangeRead, ChangePut, ChangeMark, ChangeFails
  <1> QED
    BY <1>1, <1>2, <1>3, SameMapping, FenceStutters

\* A view that is being applied has an epoch within the bound, newer than the one in force.
LEMMA ReadEpoch ==
    ASSUME CPInv, NEW p \in Proc, refresh[p].pc = "read"
    PROVE  /\ ~Gone(p)
           /\ refresh[p].view \in View /\ refresh[p].view.epoch \in 1 .. MaxRev
           /\ NewEpoch(p) => refresh[p].view.epoch # viewEpoch[p]
  <1>1. ~Gone(p) /\ refresh[p].view # NoView /\ viewEpoch[p] = view[p].epoch
    BY DEF CPInv, ViewsInOrder
  <1>2. refresh[p].view \in View /\ Fits(refresh[p].view)
    BY DEF CPInv, CPTypeOK, ViewsFit, Held
  <1>3. refresh[p].view.epoch \in 1 .. MaxRev
    BY <1>1, <1>2, BoundAssumption DEF Fits, View
  <1>4. NoView.epoch = 0
    BY DEF NoView
  <1> QED
    BY <1>1, <1>2, <1>3, <1>4 DEF NewEpoch

\* Start, ClusterFenceAdvance (heard or unheard), rehash, the store of the epoch, publication
\* and the end of a process are the steps of EpochFence of the same name.
LEMMA FenceSteps ==
    ASSUME CPInv, NEW p \in Proc
    PROVE  /\ Boot(p) => Fence!Start(p)
           /\ RefreshFence(p) => Fence!AdvanceFence(p)
           /\ RefreshFenceFails(p) => Fence!AdvanceUnheard(p) \/ UNCHANGED Fence!fenceVars
           /\ RefreshRing(p) => Fence!SwitchRing(p)
           /\ RefreshEpoch(p) => Fence!StoreEpoch(p)
           /\ RefreshPublish(p) => Fence!PublishView(p)
           /\ Close(p) \/ Crash(p) => Fence!Stop(p)
  <1> USE DEF readyVars, routeVars, opVars
  <1>0. LocalTypeOK
    BY TypeParts DEF CPInv
  <1>1. ASSUME Boot(p) PROVE Fence!Start(p)
    <2>1. /\ AliveOf(p) = "new"
          /\ \A q \in Proc : AliveOf(q)' = IF q = p THEN "up" ELSE AliveOf(q)
          /\ \A q \in Proc : ApplyOf(q)' = ApplyOf(q)
      BY <1>0, <1>1, SameMapping DEF Boot, AliveOf, LocalTypeOK
    <2> QED BY <1>1, <2>1 DEF Boot, Fence!Start
  <1>2. ASSUME RefreshFence(p) PROVE Fence!AdvanceFence(p)
    <2>1. /\ AliveOf(p) = "up" /\ ApplyOf(p).pc = "idle"
          /\ refresh[p].view.epoch \in 1 .. MaxRev /\ refresh[p].view.epoch # viewEpoch[p]
          /\ memberNames(refresh[p].view) \in SUBSET Node
      BY <1>2, ReadEpoch, NamesType DEF RefreshFence, AliveOf, ApplyOf, Gone
    <2>2. /\ refresh'[p].pc = "fenced" /\ refresh'[p].view = refresh[p].view
          /\ \A q \in Proc \ {p} : refresh'[q] = refresh[q]
      BY <1>0, <1>2 DEF RefreshFence, LocalTypeOK, RefreshType
    <2>3. /\ \A q \in Proc \ {p} : ApplyOf(q)' = ApplyOf(q)
          /\ ApplyOf(p)' = [pc |-> "fenced", epoch |-> refresh[p].view.epoch,
                            names |-> memberNames(refresh[p].view)]
      BY <2>2, SameMapping DEF ApplyOf, memberNames
    <2>4. \A q \in Proc : AliveOf(q)' = AliveOf(q)
      BY <1>2, SameMapping DEF RefreshFence
    <2> QED BY <1>2, <2>1, <2>3, <2>4 DEF RefreshFence, Fence!AdvanceFence, Fence!Applying
  <1>3. ASSUME RefreshFenceFails(p)
        PROVE  Fence!AdvanceUnheard(p) \/ UNCHANGED Fence!fenceVars
    <2>1. /\ AliveOf(p) = "up" /\ ApplyOf(p).pc = "idle" /\ ~Gone(p)
          /\ refresh[p].view.epoch \in 1 .. MaxRev
      BY <1>3, ReadEpoch DEF RefreshFenceFails, AliveOf, ApplyOf, Gone
    <2>2. /\ \A q \in Proc \ {p} : refresh'[q] = refresh[q] /\ health'[q] = health[q]
          /\ refresh[p].pc = "read" /\ refresh'[p] = NoRefresh
          /\ ~Gone(p)'
      BY <1>0, <1>3, <2>1 DEF RefreshFenceFails, LocalTypeOK, Gone
    <2>3. \A q \in Proc : AliveOf(q)' = AliveOf(q) /\ ApplyOf(q)' = ApplyOf(q)
      BY <2>1, <2>2, SameMapping DEF NoRefresh
    <2>4. UNCHANGED <<ring, viewEpoch>>
      BY <1>3 DEF RefreshFenceFails
    <2>5. CASE fence' = fence
      BY <2>3, <2>4, <2>5, FenceStutters
    <2>6. CASE fence' # fence
      <3>1. fence' = refresh[p].view.epoch /\ refresh[p].view.epoch > fence
        BY <1>0, <1>3, <2>1, <2>6 DEF RefreshFenceFails, LocalTypeOK
      <3> QED BY <2>1, <2>3, <2>4, <3>1 DEF Fence!AdvanceUnheard
    <2> QED BY <2>5, <2>6
  <1>4. ASSUME RefreshRing(p) PROVE Fence!SwitchRing(p)
    <2>1. /\ refresh[p].pc = "fenced" /\ refresh'[p].pc = "ring"
          /\ refresh'[p].view = refresh[p].view
          /\ \A q \in Proc \ {p} : refresh'[q] = refresh[q]
      BY <1>0, <1>4 DEF RefreshRing, LocalTypeOK, RefreshType
    <2>2. /\ \A q \in Proc \ {p} : ApplyOf(q)' = ApplyOf(q)
          /\ ApplyOf(p) = [pc |-> "fenced", epoch |-> refresh[p].view.epoch,
                           names |-> memberNames(refresh[p].view)]
          /\ ApplyOf(p)' = [pc |-> "ring", epoch |-> refresh[p].view.epoch,
                            names |-> memberNames(refresh[p].view)]
      BY <2>1, SameMapping DEF ApplyOf, memberNames
    <2>3. \A q \in Proc : AliveOf(q)' = AliveOf(q)
      BY <1>4, SameMapping DEF RefreshRing
    <2>4. ApplyOf(p).pc = "fenced" /\ ring' = [ring EXCEPT ![p] = ApplyOf(p).names]
      BY <1>4, <2>2 DEF RefreshRing
    <2>5. ApplyOf(p)' = Fence!Applying("ring", ApplyOf(p).epoch, ApplyOf(p).names)
      BY <2>2 DEF Fence!Applying
    <2>6. UNCHANGED <<fence, viewEpoch>>
      BY <1>4 DEF RefreshRing
    <2>7. [q \in Proc |-> ApplyOf(q)'] = [[q \in Proc |-> ApplyOf(q)] EXCEPT
              ![p] = Fence!Applying("ring", ApplyOf(p).epoch, ApplyOf(p).names)]
      BY <2>2, <2>5
    <2> QED BY <2>3, <2>4, <2>6, <2>7 DEF Fence!SwitchRing
  <1>5. ASSUME RefreshEpoch(p) PROVE Fence!StoreEpoch(p)
    <2>1. /\ refresh[p].pc = "ring" /\ refresh'[p].pc = "epoch"
          /\ refresh'[p].view = refresh[p].view
          /\ \A q \in Proc \ {p} : refresh'[q] = refresh[q]
      BY <1>0, <1>5 DEF RefreshEpoch, LocalTypeOK, RefreshType
    <2>2. /\ \A q \in Proc \ {p} : ApplyOf(q)' = ApplyOf(q)
          /\ ApplyOf(p) = [pc |-> "ring", epoch |-> refresh[p].view.epoch,
                           names |-> memberNames(refresh[p].view)]
          /\ ApplyOf(p)' = [pc |-> "epoch", epoch |-> refresh[p].view.epoch,
                            names |-> memberNames(refresh[p].view)]
      BY <2>1, SameMapping DEF ApplyOf, memberNames
    <2>3. \A q \in Proc : AliveOf(q)' = AliveOf(q)
      BY <1>5, SameMapping DEF RefreshEpoch
    <2>4. ApplyOf(p).pc = "ring" /\ viewEpoch' = [viewEpoch EXCEPT ![p] = ApplyOf(p).epoch]
      BY <1>5, <2>2 DEF RefreshEpoch
    <2>5. ApplyOf(p)' = Fence!Applying("epoch", ApplyOf(p).epoch, ApplyOf(p).names)
      BY <2>2 DEF Fence!Applying
    <2>6. UNCHANGED <<fence, ring>>
      BY <1>5 DEF RefreshEpoch
    <2>7. [q \in Proc |-> ApplyOf(q)'] = [[q \in Proc |-> ApplyOf(q)] EXCEPT
              ![p] = Fence!Applying("epoch", ApplyOf(p).epoch, ApplyOf(p).names)]
      BY <2>2, <2>5
    <2> QED BY <2>3, <2>4, <2>6, <2>7 DEF Fence!StoreEpoch
  <1>6. ASSUME RefreshPublish(p) PROVE Fence!PublishView(p)
    <2>1. /\ refresh[p].pc = "epoch" /\ refresh'[p] = NoRefresh
          /\ \A q \in Proc \ {p} : refresh'[q] = refresh[q]
      BY <1>0, <1>6 DEF RefreshPublish, LocalTypeOK
    <2>2. /\ \A q \in Proc \ {p} : ApplyOf(q)' = ApplyOf(q)
          /\ ApplyOf(p).pc = "epoch" /\ ApplyOf(p)' = Fence!Idle
      <3>1. NoRefresh.pc = "idle"
        BY DEF NoRefresh
      <3>2. ApplyOf(p).pc = "epoch"
        BY <2>1 DEF ApplyOf
      <3> QED BY <2>1, <3>1, <3>2, SameMapping
    <2>3. \A q \in Proc : AliveOf(q)' = AliveOf(q)
      BY <1>6, SameMapping DEF RefreshPublish
    <2> QED BY <1>6, <2>2, <2>3 DEF RefreshPublish, Fence!PublishView
  <1>7. ASSUME Close(p) \/ Crash(p) PROVE Fence!Stop(p)
    <2>1. /\ Forget(p) /\ UNCHANGED fence /\ health' = [health EXCEPT ![p] = "stopped"]
          /\ ~Gone(p)
      BY <1>7 DEF Close, Crash, Gone
    <2>2. /\ refresh'[p] = NoRefresh /\ health'[p] = "stopped"
          /\ \A q \in Proc \ {p} : refresh'[q] = refresh[q] /\ health'[q] = health[q]
      BY <1>0, <2>1 DEF Forget, LocalTypeOK
    <2>3. /\ AliveOf(p) = "up" /\ AliveOf(p)' = "stopped" /\ ApplyOf(p)' = Fence!Idle
          /\ \A q \in Proc \ {p} : AliveOf(q)' = AliveOf(q) /\ ApplyOf(q)' = ApplyOf(q)
      BY <2>1, <2>2, SameMapping DEF AliveOf, Gone, NoRefresh
    <2> QED BY <2>1, <2>3 DEF Forget, Fence!Stop
  <1> QED
    BY <1>1, <1>2, <1>3, <1>4, <1>5, <1>6, <1>7

\* The control plane, its etcd traffic hidden, is an epoch fence: the publish path may be
\* reasoned about over EpochFence alone.
THEOREM ImplementsEpochFence == CPSpec => ImplementsFence
  <1>1. CPInit => Fence!FenceInit
    <2> SUFFICES ASSUME CPInit PROVE Fence!FenceInit
      OBVIOUS
    <2>1. \A p \in Proc : AliveOf(p) = "new" /\ ApplyOf(p) = Fence!Idle
      BY DEF CPInit, AliveOf, ApplyOf, NoRefresh, Fence!Idle, Fence!Applying
    <2> QED BY <2>1 DEF CPInit, Fence!FenceInit
  <1>2. CPInv /\ [CPNext]_cpVars => [Fence!FenceNext]_(Fence!fenceVars)
    <2> SUFFICES ASSUME CPInv, [CPNext]_cpVars
                 PROVE  Fence!FenceNext \/ UNCHANGED Fence!fenceVars
      OBVIOUS
    <2>1. ASSUME NEW p \in Proc, ProcStep(p)
          PROVE  Fence!FenceNext \/ UNCHANGED Fence!fenceVars
      BY <2>1, PlainStepStutters, FenceSteps
         DEF ProcStep, QuietStep, PlainStep, Fence!FenceNext, Fence!ViewStep
    <2>2. ASSUME NEW n \in Node, LeaseExpires(n)
          PROVE  UNCHANGED Fence!fenceVars
      BY <2>2, SameMapping, FenceStutters DEF LeaseExpires, routeVars
    <2>3. CASE UNCHANGED cpVars
      BY <2>3, SameMapping, FenceStutters DEF cpVars, routeVars
    <2> QED BY <2>1, <2>2, <2>3 DEF CPNext
  <1> QED
    BY <1>1, <1>2, ControlPlaneSafe, PTL DEF CPSpec, ImplementsFence, Fence!FenceSpec

-----------------------------------------------------------------------------
(* The server: the control plane and the publish path together. *)

\* The publish path once more, with the theorems about it.
Proved == INSTANCE FencedTopicsProofs WITH
    Rings <- SUBSET Node, MaxEpoch <- MaxRev,
    alive <- [p \in Proc |-> AliveOf(p)], apply <- [p \in Proc |-> ApplyOf(p)]

\* The control plane meets what the publish path assumes of its constants.
LEMMA PathAssumptions ==
    /\ NodeOf \in [Proc -> Node] /\ SUBSET Node \subseteq SUBSET Node /\ MaxRev \in Nat
    /\ NoNode \notin Node
    /\ \A S \in SUBSET Node, t \in Topic : Owner(S, t) \in IF S = {} THEN {NoNode} ELSE S
    /\ MaxGen \in Nat /\ MaxLost \in Nat
  BY ProcAssumption, CoreAssumption, BoundAssumption

\* The instance the theorems of FencedTopicsProofs are taken from is the one ServerCore is made
\* of: the variables, ...
LEMMA SameVars == (UNCHANGED Path!vars) <=> (UNCHANGED Proved!vars)
  BY DEF Path!vars, Path!fenceVars, Path!topicVars, Proved!vars, Proved!fenceVars, Proved!topicVars

\* ... the initial states, ...
LEMMA SameInit == Path!Init <=> Proved!Init
  BY DEF Path!Init, Path!FenceInit, Path!TopicInit, Path!NoTopic, Path!Idle, Path!Applying,
         Proved!Init, Proved!FenceInit, Proved!TopicInit, Proved!NoTopic, Proved!Idle, Proved!Applying

\* ... the steps of the Hub, ...
LEMMA SameHub ==
    ASSUME NEW p
    PROVE  Path!HubStep(p) <=> Proved!HubStep(p)
  BY DEF Path!HubStep, Path!HubRehash, Path!Join, Path!Load, Path!Unload, Path!PubDuplicate,
         Path!PubBegin, Path!isRemoteTopic, Path!Dropped, Path!Cursor, Path!Saved, Path!Ack, Path!fenceVars,
         Proved!HubStep, Proved!HubRehash, Proved!Join, Proved!Load, Proved!Unload,
         Proved!PubDuplicate, Proved!PubBegin, Proved!isRemoteTopic, Proved!Dropped, Proved!Cursor, Proved!Saved, Proved!Ack, Proved!fenceVars

\* ... of a publish, ...
LEMMA SamePub ==
    ASSUME NEW u
    PROVE  /\ Path!PubReady(u) <=> Proved!PubReady(u)
           /\ Path!PubRefused(u) <=> Proved!PubRefused(u)
           /\ Path!PubOwner(u) <=> Proved!PubOwner(u)
           /\ Path!PubEpoch(u) <=> Proved!PubEpoch(u)
           /\ Path!SaveCommits(u) <=> Proved!SaveCommits(u)
           /\ Path!SaveCommitsUnheard(u) <=> Proved!SaveCommitsUnheard(u)
           /\ Path!SaveFails(u) <=> Proved!SaveFails(u)
           /\ Path!PubLookup(u) <=> Proved!PubLookup(u)
  BY DEF Path!PubReady, Path!PubRefused, Path!PubOwner, Path!PubEpoch, Path!SaveCommits,
         Path!SaveCommitsUnheard, Path!SaveFails, Path!PubLookup, Path!MayWrite, Path!NotFenced,
         Path!NotDuplicate, Path!Insert, Path!IsCurrent, Path!Cursor,
         Path!isRemoteTopic, Path!Saved, Path!Ack, Path!fenceVars,
         Proved!PubReady, Proved!PubRefused, Proved!PubOwner, Proved!PubEpoch, Proved!SaveCommits,
         Proved!SaveCommitsUnheard, Proved!SaveFails, Proved!PubLookup, Proved!MayWrite, Proved!NotFenced,
         Proved!NotDuplicate, Proved!Insert, Proved!IsCurrent, Proved!Cursor,
         Proved!isRemoteTopic, Proved!Saved, Proved!Ack, Proved!fenceVars

\* ... and of the views,
LEMMA SameView ==
    ASSUME NEW p
    PROVE  /\ Path!ViewStep(p) <=> Proved!ViewStep(p)
           /\ Path!Publish(p) <=> Proved!Publish(p)
           /\ Path!End(p) <=> Proved!End(p)
  BY DEF Path!ViewStep, Path!Start, Path!AdvanceFence, Path!AdvanceUnheard, Path!SwitchRing,
         Path!StoreEpoch, Path!PublishView, Path!Stop, Path!Publish, Path!End, Path!Dropped,
         Path!Idle, Path!Applying,
         Proved!ViewStep, Proved!Start, Proved!AdvanceFence, Proved!AdvanceUnheard, Proved!SwitchRing,
         Proved!StoreEpoch, Proved!PublishView, Proved!Stop, Proved!Publish, Proved!End, Proved!Dropped,
         Proved!Idle, Proved!Applying

\* and so every step.
LEMMA SameNext == Path!Next <=> Proved!Next
  BY SameHub, SamePub, SameView
     DEF Path!Next, Path!PubStep, Path!topicVars, Proved!Next, Proved!PubStep, Proved!topicVars

\* The steps of EpochFence that the control plane is shown to make, as the publish path knows them.
LEMMA SameFence ==
    ASSUME NEW p
    PROVE  /\ Fence!ViewStep(p) <=> Path!ViewStep(p)
           /\ Fence!PublishView(p) <=> Path!PublishView(p)
           /\ Fence!Stop(p) <=> Path!Stop(p)
           /\ Fence!MayWrite(p) <=> Path!MayWrite(p)
  BY DEF Fence!ViewStep, Fence!Start, Fence!AdvanceFence, Fence!AdvanceUnheard,
         Fence!SwitchRing, Fence!StoreEpoch, Fence!PublishView, Fence!Stop, Fence!Idle,
         Fence!Applying, Fence!MayWrite,
         Path!ViewStep, Path!Start, Path!AdvanceFence, Path!AdvanceUnheard,
         Path!SwitchRing, Path!StoreEpoch, Path!PublishView, Path!Stop, Path!Idle,
         Path!Applying, Path!MayWrite

\* They are steps over the same variables.
LEMMA SameFenceVars == (UNCHANGED Fence!fenceVars) <=> (UNCHANGED Path!fenceVars)
  BY DEF Fence!fenceVars, Path!fenceVars

\* refreshView, Watch, lease, drain and topology steps away from the Hub are view steps or do not
\* concern the publish path.
LEMMA QuietSteps ==
    ASSUME CPInv, QuietControl
    PROVE  (\E p \in Proc : Path!ViewStep(p)) \/ UNCHANGED Path!fenceVars
  <1>1. ASSUME NEW p \in Proc, QuietStep(p)
        PROVE  Path!ViewStep(p) \/ UNCHANGED Path!fenceVars
    <2>1. CASE PlainStep(p)
      BY <2>1, PlainStepStutters, SameFenceVars
    <2>2. CASE Boot(p) \/ RefreshFence(p) \/ RefreshFenceFails(p) \/ RefreshRing(p) \/ RefreshEpoch(p)
      <3>1. Fence!ViewStep(p) \/ UNCHANGED Fence!fenceVars
        BY <2>2, FenceSteps DEF Fence!ViewStep
      <3> QED BY <3>1, SameFence, SameFenceVars
    <2> QED BY <1>1, <2>1, <2>2 DEF QuietStep, PlainStep
  <1>2. ASSUME NEW n \in Node, LeaseExpires(n)
        PROVE  UNCHANGED Path!fenceVars
    BY <1>2, SameMapping, FenceStutters, SameFenceVars DEF LeaseExpires, routeVars
  <1> QED BY <1>1, <1>2 DEF QuietControl

\* Where the health service allows writes, a view is in force and no other is being applied.
LEMMA AllowedMayWrite ==
    ASSUME CPInv, NEW p \in Proc, AllowsWrites(p)
    PROVE  Path!MayWrite(p)
  <1>1. viewApplied[p] /\ health[p] = "serving" /\ viewEpoch[p] > 0
    BY DEF AllowsWrites, Ready
  <1>2. refresh[p].pc \in {"idle", "read"} /\ viewEpoch[p] = view[p].epoch
    BY <1>1 DEF CPInv, ViewsInOrder
  <1>3. AliveOf(p) = "up" /\ ApplyOf(p).pc = "idle"
    BY <1>1, <1>2 DEF AliveOf, ApplyOf
  <1> QED BY <1>1, <1>2, <1>3 DEF Path!MayWrite

\* While the control plane stands still, so does what the publish path knows of it.
LEMMA StillFence == UNCHANGED cpVars => UNCHANGED Path!fenceVars
  BY SameMapping, FenceStutters, SameFenceVars DEF cpVars, routeVars

\* Every step of the server, by a Hub, a publish, a lease, a Watch or a view, is a step of the
\* publish path or none of its business.
LEMMA CoreSteps ==
    ASSUME CPInv, \A u \in pubs : u.proc \in Proc, [CoreNext]_coreVars
    PROVE  [Path!Next]_(Path!vars)
  <1>1. CASE QuietControl /\ UNCHANGED topicVars
    BY <1>1, QuietSteps DEF Path!Next, Path!vars, Path!topicVars, topicVars
  <1>2. ASSUME NEW p \in Proc, Publish(p)
        PROVE  Path!Next
    BY <1>2, FenceSteps, SameFence DEF Publish, Path!Next, Path!Publish
  <1>3. ASSUME NEW p \in Proc, End(p)
        PROVE  Path!Next
    BY <1>3, FenceSteps, SameFence DEF End, Path!Next, Path!End
  <1>4. ASSUME NEW p \in Proc, Path!HubStep(p)
        PROVE  Path!Next
    BY <1>4 DEF Path!Next
  <1>5. ASSUME NEW u \in pubs, UNCHANGED cpVars, PubStep(u)
        PROVE  Path!Next
    <2>1. CASE TokenAllowed(u)
      <3>1. Path!PubReady(u)
        BY <2>1, <1>5, AllowedMayWrite, StillFence DEF TokenAllowed, Path!PubReady
      <3> QED BY <3>1 DEF Path!Next, Path!PubStep
    <2>2. CASE ~TokenAllowed(u)
      BY <2>2, <1>5 DEF PubStep, Path!Next, Path!PubStep
    <2> QED BY <2>1, <2>2
  <1>6. CASE UNCHANGED coreVars
    BY <1>6, StillFence DEF coreVars, topicVars, Path!vars, Path!topicVars
  <1> QED BY <1>1, <1>2, <1>3, <1>4, <1>5, <1>6 DEF CoreNext

\* For the control plane the Hub and the publishes change nothing.
LEMMA CoreControl == [CoreNext]_coreVars => [CPNext]_cpVars
  BY DEF CoreNext, coreVars, QuietControl, Publish, End, CPNext, ProcStep

\* The inductive invariant of the server: those of its two halves.
CoreInv == CPInv /\ Proved!PublishInv

\* The server starts as an empty control plane and an empty publish path.
LEMMA InitCoreInv == CoreInit => CoreInv /\ Path!Init
  <1> SUFFICES ASSUME CoreInit PROVE CoreInv /\ Path!Init
    OBVIOUS
  <1>1. Path!FenceInit
    <2>1. \A p \in Proc : AliveOf(p) = "new" /\ ApplyOf(p) = Path!Idle
      BY DEF CoreInit, CPInit, AliveOf, ApplyOf, NoRefresh, Path!Idle, Path!Applying
    <2> QED BY <2>1 DEF CoreInit, CPInit, Path!FenceInit
  <1>2. Path!Init
    BY <1>1 DEF CoreInit, Path!Init
  <1>3. Proved!Init
    BY <1>2, SameInit
  <1>4. Proved!PublishInv
    BY <1>3, Proved!InitInv, PathAssumptions
  <1> QED BY <1>2, <1>4, InitCPInv DEF CoreInit, CoreInv

\* A step of the server keeps both invariants: the control plane's makes the step one of the
\* publish path, and the publish path's survives those.
LEMMA NextCoreInv ==
    ASSUME CoreInv, [CoreNext]_coreVars
    PROVE  CoreInv' /\ [Path!Next]_(Path!vars)
  <1>1. CPInv'
    BY CoreControl, NextCPInv DEF CoreInv
  <1>2. \A u \in pubs : u.proc \in Proc
    BY DEF CoreInv, Proved!PublishInv, Proved!TypeOK, Proved!PubType
  <1>3. [Path!Next]_(Path!vars)
    BY <1>2, CoreSteps DEF CoreInv
  <1>4. [Proved!Next]_(Proved!vars)
    BY <1>3, SameNext, SameVars
  <1>5. Proved!PublishInv'
    BY <1>4, Proved!NextInv, PathAssumptions DEF CoreInv
  <1> QED BY <1>1, <1>3, <1>5 DEF CoreInv

\* The server keeps the invariants of both halves, whatever their steps interleave to.
THEOREM ServerSafe == CoreSpec => []CoreInv
  BY InitCoreInv, NextCoreInv, PTL DEF CoreSpec

\* The Hub and the publishes do not disturb the control plane: what is proved of it alone holds
\* in the server.
THEOREM ServerControl == CoreSpec => CPSpec
  <1>1. CoreInit => CPInit
    BY DEF CoreInit
  <1> QED BY <1>1, CoreControl, PTL DEF CoreSpec, CPSpec

\* Every step of the server keeps to the publish path over an epoch fence, although
\* writeFenceToken asks for readiness, ring and epoch one after the other.
THEOREM ServerKeepsPath == CoreSpec => KeepsPath
  BY InitCoreInv, NextCoreInv, PTL DEF CoreSpec, KeepsPath

\* The server with etcd is a publish path over an epoch fence.
THEOREM ServerImplementsPath == CoreSpec => ImplementsPath
  BY InitCoreInv, NextCoreInv, PTL DEF CoreSpec, ImplementsPath, Path!Spec

\* In the server with etcd, whatever leases, Watches, drains, topology changes and crashes do:
\* the sequence numbers of a topic have no gap, later messages bear no older epoch and one epoch
\* has one owner, and what was acknowledged by saveAndBroadcastMessage is in the table.
THEOREM ServerPublishes ==
    CoreSpec => [](Path!SeqContiguous /\ Path!WritersAreFenced /\ Path!AckedIsSaved)
  <1>1. CoreInv => Path!SeqContiguous /\ Path!WritersAreFenced /\ Path!AckedIsSaved
    BY DEF CoreInv, Proved!PublishInv, Proved!SeqContiguous, Proved!WritersAreFenced,
           Proved!AckedIsSaved, Path!SeqContiguous, Path!WritersAreFenced, Path!AckedIsSaved
  <1> QED BY <1>1, ServerSafe, PTL


\* The two instances give clients the same log.
LEMMA SameLog ==
    /\ Proved!Log!LogInit <=> Path!Log!LogInit
    /\ Proved!Log!LogNext <=> Path!Log!LogNext
    /\ (UNCHANGED Proved!Log!logVars) <=> (UNCHANGED Path!Log!logVars)
  BY DEF Path!Log!LogInit, Path!Log!LogNext, Path!Log!logVars, Path!Log!Append1, Path!Log!AckAgain,
         Path!Log!Positions, Path!Log!AckOf, Path!LogOf,
         Proved!Log!LogInit, Proved!Log!LogNext, Proved!Log!logVars, Proved!Log!Append1,
         Proved!Log!AckAgain, Proved!Log!Positions, Proved!Log!AckOf, Proved!LogOf

\* From etcd's leases down to the messages table, what clients see of the server is TopicLog: one
\* log per topic that only grows at its end and holds each client id once.
THEOREM ServerImplementsLog == CoreSpec => Path!ImplementsLog
  <1>1. Path!Spec => Proved!Spec
    <2>1. [Path!Next]_(Path!vars) => [Proved!Next]_(Proved!vars)
      BY SameNext, SameVars
    <2> QED BY <2>1, SameInit, PTL DEF Path!Spec, Proved!Spec
  <1>2. Proved!Spec => Proved!ImplementsLog
    BY Proved!ImplementsTopicLog, PathAssumptions
  <1>3. Proved!ImplementsLog => Path!ImplementsLog
    <2>1. [Proved!Log!LogNext]_(Proved!Log!logVars) => [Path!Log!LogNext]_(Path!Log!logVars)
      BY SameLog
    <2> QED
      BY <2>1, SameLog, PTL
         DEF Proved!ImplementsLog, Path!ImplementsLog, Proved!Log!LogSpec, Path!Log!LogSpec
  <1> QED BY <1>1, <1>2, <1>3, ServerImplementsPath, PTL DEF ImplementsPath

=============================================================================
