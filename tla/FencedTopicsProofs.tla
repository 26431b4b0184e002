------------------------- MODULE FencedTopicsProofs -------------------------
(***************************************************************************)
(* Safety of the publish path for every number of nodes, processes, topics *)
(* and client ids, every assignment of topics to nodes and every bound;    *)
(* and the refinement: what clients see of the fenced, competing topic     *)
(* instances is one log per topic, as TopicLog states it.                  *)
(***************************************************************************)
EXTENDS FencedTopics, Sequences, TLAPS

-----------------------------------------------------------------------------
(* Type correctness. *)

\* EpochFence's part of a step keeps its part of the type invariant: the views, rings,
\* epochs and the fence row stay in their domains.
LEMMA FenceStepType ==
    ASSUME FenceTypeOK, NEW p \in Proc, ViewStep(p) \/ PublishView(p) \/ Stop(p)
    PROVE  FenceTypeOK'
  <1> USE FenceAssumption DEF FenceTypeOK, Idle, Applying
  <1>1. CASE Start(p)
    BY <1>1 DEF Start
  <1>2. CASE AdvanceFence(p)
    <2>1. PICK e \in 1 .. MaxEpoch, S \in Rings :
             /\ fence' = e
             /\ apply' = [apply EXCEPT ![p] = [pc |-> "fenced", epoch |-> e, names |-> S]]
      BY <1>2 DEF AdvanceFence
    <2>2. e \in Nat /\ S \in SUBSET Node
      BY <2>1
    <2> QED
      BY <1>2, <2>1, <2>2 DEF AdvanceFence
  <1>3. CASE AdvanceUnheard(p)
    BY <1>3 DEF AdvanceUnheard
  <1>4. CASE SwitchRing(p)
    BY <1>4 DEF SwitchRing
  <1>5. CASE StoreEpoch(p)
    BY <1>5 DEF StoreEpoch
  <1>6. CASE PublishView(p)
    BY <1>6 DEF PublishView
  <1>7. CASE Stop(p)
    BY <1>7 DEF Stop
  <1> QED
    BY <1>1, <1>2, <1>3, <1>4, <1>5, <1>6, <1>7 DEF ViewStep

\* Unregistering keeps the type of the Hub's entry for the topic.
LEMMA DroppedType ==
    ASSUME NEW x \in TopicType
    PROVE  /\ Dropped(x) \in TopicType
           /\ Dropped(x).state = "none" /\ Dropped(x).lastID = 0 /\ Dropped(x).gen = x.gen
  BY DEF Dropped, TopicType

\* So do loading and the advance of the cursor.
LEMMA CursorType ==
    ASSUME NEW x \in TopicType, NEW n \in Nat
    PROVE  /\ Cursor(x, n) \in TopicType
           /\ Cursor(x, n).state = "loaded" /\ Cursor(x, n).lastID = n /\ Cursor(x, n).gen = x.gen
  BY DEF Cursor, TopicType

\* The acknowledgement of a duplicate names a message of the table.
LEMMA AckType ==
    ASSUME TypeOK, NEW t \in Topic, NEW c \in Cid, Ack(t, c)
    PROVE  acked' \in SUBSET [topic : Topic, cid : Cid, seq : Nat]
  <1>1. \A m \in Saved(t, c) : m.seq \in Nat
    BY DEF Saved, TypeOK, MessageType
  <1> QED
    BY <1>1 DEF Ack, TypeOK

\* The transaction keeps the types of the row and of the messages table.
LEMMA InsertType ==
    ASSUME TypeOK, NEW u \in pubs, Insert(u)
    PROVE  row' \in [Topic -> RowType] /\ messages' \in [Topic -> SUBSET MessageType]
  <1>1. /\ u \in PubType /\ NodeOf[u.proc] \in Node
        /\ u.topic \in Topic /\ u.seq \in Nat /\ u.epoch \in Nat
    BY FenceAssumption DEF TypeOK, PubType
  <1>2. [seqid |-> u.seq, owner |-> NodeOf[u.proc], epoch |-> u.epoch] \in RowType
    BY <1>1 DEF RowType
  <1>3. [seq |-> u.seq, cid |-> u.cid, proc |-> u.proc, epoch |-> u.epoch] \in MessageType
    BY <1>1 DEF MessageType, PubType
  <1> QED
    BY <1>1, <1>2, <1>3 DEF Insert, TypeOK

\* Hub actions (join, load, unload, rehash) and the start of a publish keep the types.
LEMMA HubStepType ==
    ASSUME TypeOK, NEW p \in Proc, HubStep(p)
    PROVE  TypeOK'
  <1> USE DEF TypeOK
  <1>t. \A q \in Proc, t \in Topic : topics[q][t] \in TopicType
    OBVIOUS
  <1>f. FenceTypeOK /\ UNCHANGED fenceVars => FenceTypeOK'
    BY DEF FenceTypeOK, fenceVars
  <1>1. CASE HubRehash(p)
    <2> DEFINE x(t) == IF topics[p][t].state # "none" /\ topics[p][t].proxy # isRemoteTopic(p, t)
                         THEN Dropped(topics[p][t]) ELSE topics[p][t]
    <2>1. \A t \in Topic : x(t) \in TopicType
      BY <1>t, DroppedType
    <2>2. topics' = [topics EXCEPT ![p] = [t \in Topic |-> x(t)]]
      BY <1>1 DEF HubRehash
    <2>3. topics' \in [Proc -> [Topic -> TopicType]]
      BY <2>1, <2>2
    <2> QED
      BY <1>1, <1>f, <2>3 DEF HubRehash
  <1>2. ASSUME NEW t \in Topic, Join(p, t) PROVE TypeOK'
    <2>1. isRemoteTopic(p, t) \in BOOLEAN
      BY DEF isRemoteTopic
    <2> QED
      BY <1>2, <1>f, <1>t, <2>1 DEF Join, TopicType
  <1>3. ASSUME NEW t \in Topic, Load(p, t) PROVE TypeOK'
    <2>1. row[t].seqid \in Nat
      BY DEF RowType
    <2> QED
      BY <1>3, <1>f, <1>t, <2>1, CursorType DEF Load
  <1>4. ASSUME NEW t \in Topic, Unload(p, t) PROVE TypeOK'
    BY <1>4, <1>f, <1>t, DroppedType DEF Unload
  <1>5. ASSUME NEW t \in Topic, NEW c \in Cid, PubDuplicate(p, t, c) PROVE TypeOK'
    BY <1>5, <1>f, AckType DEF PubDuplicate
  <1>6. ASSUME NEW t \in Topic, NEW c \in Cid, PubBegin(p, t, c) PROVE TypeOK'
    BY <1>6, <1>f, <1>t DEF PubBegin, PubType, TopicType
  <1> QED
    BY <1>1, <1>2, <1>3, <1>4, <1>5, <1>6 DEF HubStep

\* The steps of a publish, the database transaction included, keep the types.
LEMMA PubStepType ==
    ASSUME TypeOK, NEW u \in pubs, PubStep(u)
    PROVE  TypeOK'
  <1> USE DEF TypeOK
  <1>t. \A q \in Proc, t \in Topic : topics[q][t] \in TopicType
    OBVIOUS
  <1>f. FenceTypeOK /\ UNCHANGED fenceVars => FenceTypeOK'
    BY DEF FenceTypeOK, fenceVars
  <1>u. u \in PubType /\ u.proc \in Proc /\ u.topic \in Topic /\ u.cid \in Cid /\ u.seq \in Nat
    BY DEF PubType
  <1>1. CASE PubReady(u)
    BY <1>1, <1>f, <1>u DEF PubReady, PubType
  <1>2. CASE PubRefused(u)
    BY <1>2, <1>f DEF PubRefused
  <1>3. CASE PubOwner(u)
    BY <1>3, <1>f, <1>u DEF PubOwner, PubType
  <1>4. CASE PubEpoch(u)
    <2>1. viewEpoch[u.proc] \in Nat
      BY <1>u DEF FenceTypeOK
    <2>2. [u EXCEPT !.pc = "save", !.epoch = viewEpoch[u.proc]] \in PubType
      BY <1>u, <2>1 DEF PubType
    <2> QED
      BY <1>4, <1>f, <2>2 DEF PubEpoch
  <1>5. CASE SaveCommits(u)
    <2>1. topics[u.proc][u.topic].lastID + 1 \in Nat
      BY <1>t, <1>u DEF TopicType
    <2>2. topics' \in [Proc -> [Topic -> TopicType]]
      BY <1>5, <1>t, <1>u, <2>1, CursorType DEF SaveCommits
    <2>3. acked' \in SUBSET [topic : Topic, cid : Cid, seq : Nat]
      BY <1>5, <1>u DEF SaveCommits
    <2> QED
      BY <1>5, <1>f, <2>2, <2>3, InsertType DEF SaveCommits
  <1>6. CASE SaveCommitsUnheard(u)
    <2>1. [u EXCEPT !.pc = "lookup"] \in PubType
      BY <1>u DEF PubType
    <2> QED
      BY <1>6, <1>f, <2>1, InsertType DEF SaveCommitsUnheard
  <1>7. CASE SaveFails(u)
    BY <1>7, <1>f, <1>u DEF SaveFails, PubType
  <1>8. CASE PubLookup(u)
    BY <1>8, <1>f, <1>u, AckType DEF PubLookup
  <1> QED
    BY <1>1, <1>2, <1>3, <1>4, <1>5, <1>6, <1>7, <1>8 DEF PubStep

\* Every step of the publish path keeps the type invariant.
LEMMA NextType == TypeOK /\ [Next]_vars => TypeOK'
  <1> SUFFICES ASSUME TypeOK, [Next]_vars PROVE TypeOK'
    OBVIOUS
  <1>1. ASSUME NEW p \in Proc, ViewStep(p), UNCHANGED topicVars PROVE TypeOK'
    BY <1>1, FenceStepType DEF TypeOK, topicVars
  <1>2. ASSUME NEW p \in Proc, Publish(p) PROVE TypeOK'
    BY <1>2, FenceStepType DEF Publish, TypeOK
  <1>3. ASSUME NEW p \in Proc, End(p) PROVE TypeOK'
    <2>1. \A t \in Topic : Dropped(topics[p][t]) \in TopicType
      BY DroppedType DEF TypeOK
    <2>2. topics' \in [Proc -> [Topic -> TopicType]]
      BY <1>3, <2>1 DEF End, TypeOK
    <2> QED
      BY <1>3, <2>2, FenceStepType DEF End, TypeOK
  <1>4. CASE UNCHANGED vars
    BY <1>4 DEF vars, fenceVars, topicVars, TypeOK, FenceTypeOK
  <1> QED
    BY <1>1, <1>2, <1>3, <1>4, HubStepType, PubStepType DEF Next

-----------------------------------------------------------------------------
(* The table. *)

\* A publish the unique index accepts is the one right after the last saved message,
\* however stale the instance that numbered it.
LEMMA NextAfterRow ==
    ASSUME PublishInv, NEW u \in pubs, NotDuplicate(u)
    PROVE  u.seq = row[u.topic].seqid + 1
  <1>1. u.topic \in Topic /\ u.seq \in Nat /\ row[u.topic].seqid \in Nat
    BY DEF PublishInv, TypeOK, PubType, RowType
  <1>2. u.seq >= 1 /\ u.seq <= row[u.topic].seqid + 1
    BY DEF PublishInv, CursorsBehindRow
  <1>3. u.seq \notin 1 .. row[u.topic].seqid
    BY <1>1 DEF NotDuplicate, PublishInv, SeqContiguous
  <1> QED
    BY <1>1, <1>2, <1>3

\* The committed transaction keeps the table contiguous and its writers ordered.
LEMMA InsertKeepsTable ==
    ASSUME PublishInv, NEW u \in pubs, NotFenced(u), NotDuplicate(u), Insert(u)
    PROVE  /\ SeqContiguous' /\ RowIsLatest' /\ WritersAreFenced'
           /\ \A t \in Topic : row'[t].seqid >= row[t].seqid /\ messages[t] \subseteq messages'[t]
           /\ row'[u.topic].seqid = u.seq
           /\ \E m \in messages'[u.topic] : m.cid = u.cid /\ m.seq = u.seq
  <1> DEFINE new == [seq |-> u.seq, cid |-> u.cid, proc |-> u.proc, epoch |-> u.epoch]
  <1>1. /\ TypeOK /\ u \in PubType
        /\ u.topic \in Topic /\ u.proc \in Proc /\ u.seq \in Nat /\ u.epoch \in Nat
    BY DEF PublishInv, TypeOK, PubType
  <1>2. u.seq = row[u.topic].seqid + 1
    BY NextAfterRow
  <1>3. /\ row'[u.topic] = [seqid |-> u.seq, owner |-> NodeOf[u.proc], epoch |-> u.epoch]
        /\ \A t \in Topic \ {u.topic} : row'[t] = row[t]
        /\ messages'[u.topic] = messages[u.topic] \cup {new}
        /\ \A t \in Topic \ {u.topic} : messages'[t] = messages[t]
    BY <1>1 DEF Insert, TypeOK
  <1>4. \A t \in Topic : row[t].seqid \in Nat /\ row[t].epoch \in Nat
    BY <1>1 DEF TypeOK, RowType
  <1>5. \A t \in Topic : \A m \in messages[t] :
           /\ m.seq \in Nat /\ m.epoch \in Nat /\ m.proc \in Proc
           /\ m.seq \in 1 .. row[t].seqid
    <2> SUFFICES ASSUME NEW t \in Topic, NEW m \in messages[t]
                 PROVE  /\ m.seq \in Nat /\ m.epoch \in Nat /\ m.proc \in Proc
                        /\ m.seq \in 1 .. row[t].seqid
      OBVIOUS
    <2>1. m \in MessageType
      BY <1>1 DEF TypeOK
    <2>2. {k.seq : k \in messages[t]} = 1 .. row[t].seqid
      BY DEF PublishInv, SeqContiguous
    <2> QED
      BY <2>1, <2>2 DEF MessageType
  <1>6. SeqContiguous'
    <2> SUFFICES ASSUME NEW t \in Topic
                 PROVE  {m.seq : m \in messages'[t]} = 1 .. row'[t].seqid
      BY DEF SeqContiguous
    <2>1. {m.seq : m \in messages[t]} = 1 .. row[t].seqid
      BY DEF PublishInv, SeqContiguous
    <2>2. CASE t = u.topic
      <3>1. {m.seq : m \in messages'[t]} = {m.seq : m \in messages[t]} \cup {u.seq}
        <4>1. messages'[t] = messages[t] \cup {new} /\ new.seq = u.seq
          BY <1>3, <2>2
        <4> HIDE DEF new
        <4> QED
          BY <4>1
      <3>2. (1 .. row[t].seqid) \cup {u.seq} = 1 .. u.seq
        BY <1>2, <1>4, <2>2
      <3>3. row'[t].seqid = u.seq
        BY <1>3, <2>2
      <3> QED
        BY <2>1, <3>1, <3>2, <3>3
    <2>3. CASE t # u.topic
      BY <1>3, <2>1, <2>3
    <2> QED
      BY <2>2, <2>3
  <1>7. \A m \in messages[u.topic] :
           m.epoch <= u.epoch /\ (m.epoch = u.epoch => NodeOf[m.proc] = NodeOf[u.proc])
    <2> SUFFICES ASSUME NEW m \in messages[u.topic]
                 PROVE  m.epoch <= u.epoch /\ (m.epoch = u.epoch => NodeOf[m.proc] = NodeOf[u.proc])
      OBVIOUS
    <2>1. /\ m.epoch <= row[u.topic].epoch
          /\ m.epoch = row[u.topic].epoch => NodeOf[m.proc] = row[u.topic].owner
      BY <1>1 DEF PublishInv, RowIsLatest
    <2> QED
      BY <1>1, <1>4, <1>5, <2>1 DEF NotFenced
  <1>8. RowIsLatest'
    <2> SUFFICES ASSUME NEW t \in Topic, NEW m \in messages'[t]
                 PROVE  m.epoch <= row'[t].epoch /\
                        (m.epoch = row'[t].epoch => NodeOf[m.proc] = row'[t].owner)
      BY DEF RowIsLatest
    <2>1. CASE t = u.topic /\ m = new
      BY <1>1, <1>3, <2>1
    <2>2. CASE t = u.topic /\ m \in messages[t]
      BY <1>3, <1>7, <2>2
    <2>3. CASE t # u.topic
      BY <1>3, <2>3 DEF PublishInv, RowIsLatest
    <2> QED
      BY <1>3, <2>1, <2>2, <2>3
  <1>9. WritersAreFenced'
    <2> SUFFICES ASSUME NEW t \in Topic, NEW m \in messages'[t], NEW k \in messages'[t],
                        m.seq < k.seq
                 PROVE  m.epoch <= k.epoch /\ (m.epoch = k.epoch => NodeOf[m.proc] = NodeOf[k.proc])
      BY DEF WritersAreFenced
    <2>1. CASE t # u.topic \/ (m \in messages[t] /\ k \in messages[t])
      BY <1>3, <2>1 DEF PublishInv, WritersAreFenced
    <2>2. CASE t = u.topic /\ m \in messages[t] /\ k = new
      BY <1>7, <2>2
    <2>3. CASE t = u.topic /\ m = new
      <3>1. k = new \/ k.seq \in 1 .. row[t].seqid
        BY <1>3, <1>5, <2>3
      <3> QED
        BY <1>1, <1>2, <1>4, <2>3, <3>1
    <2> QED
      BY <1>3, <2>1, <2>2, <2>3
  <1>10. \A t \in Topic : row'[t].seqid >= row[t].seqid /\ messages[t] \subseteq messages'[t]
    <2> SUFFICES ASSUME NEW t \in Topic
                 PROVE  row'[t].seqid >= row[t].seqid /\ messages[t] \subseteq messages'[t]
      OBVIOUS
    <2> QED
      BY <1>2, <1>3, <1>4
  <1>11. row'[u.topic].seqid = u.seq
    BY <1>3
  <1>12. \E m \in messages'[u.topic] : m.cid = u.cid /\ m.seq = u.seq
    <2>1. new \in messages'[u.topic] /\ new.cid = u.cid /\ new.seq = u.seq
      BY <1>3
    <2> QED
      BY <2>1
  <1> QED
    BY <1>6, <1>8, <1>9, <1>10, <1>11, <1>12

-----------------------------------------------------------------------------
(* Instances and publishes. *)

\* A publish goes on, or ends, while the instances stay as they are and the table grows.
LEMMA PubMoves ==
    ASSUME PublishInv, TypeOK', NEW u \in pubs, NEW v \in PubType,
           v.proc = u.proc, v.topic = u.topic, v.gen = u.gen, v.seq = u.seq,
           pubs' \subseteq (pubs \ {u}) \cup {v}, topics' = topics,
           \A t \in Topic : row'[t].seqid >= row[t].seqid
    PROVE  OnePubPerInstance' /\ CursorsBehindRow'
  <1>1. \A w \in pubs : /\ w \in PubType /\ w.proc \in Proc /\ w.topic \in Topic
                        /\ w.seq \in Nat /\ w.gen \in Nat
    BY DEF PublishInv, TypeOK, PubType
  <1>2. \A t \in Topic : row[t].seqid \in Nat /\ row'[t].seqid \in Nat
    BY DEF PublishInv, TypeOK, RowType
  <1>3. \A p \in Proc, t \in Topic : topics[p][t].lastID \in Nat
    BY DEF PublishInv, TypeOK, TopicType
  <1>4. OnePubPerInstance'
    BY <1>1 DEF PublishInv, OnePubPerInstance
  <1>5. \A p \in Proc, t \in Topic : topics'[p][t].lastID <= row'[t].seqid
    BY <1>2, <1>3 DEF PublishInv, CursorsBehindRow
  <1>6. ASSUME NEW w \in pubs'
        PROVE  /\ w.seq >= 1 /\ w.seq <= row'[w.topic].seqid + 1
               /\ IsCurrent(w)' => w.seq = topics'[w.proc][w.topic].lastID + 1
    <2>1. PICK x \in pubs : /\ x.proc = w.proc /\ x.topic = w.topic
                           /\ x.gen = w.gen /\ x.seq = w.seq
      BY <1>6
    <2>2. x.seq >= 1 /\ x.seq <= row[x.topic].seqid + 1
      BY DEF PublishInv, CursorsBehindRow
    <2>3. IsCurrent(x) => x.seq = topics[x.proc][x.topic].lastID + 1
      BY DEF PublishInv, CursorsBehindRow
    <2>4. IsCurrent(w)' = IsCurrent(x)
      BY <2>1 DEF IsCurrent
    <2> QED
      BY <1>1, <1>2, <2>1, <2>2, <2>3, <2>4
  <1> QED
    BY <1>4, <1>5, <1>6 DEF CursorsBehindRow

\* Instances are dropped and publishes end (unload, rehash, end of the process).
LEMMA TopicsDrop ==
    ASSUME PublishInv, TypeOK', pubs' \subseteq pubs, row' = row,
           \A p \in Proc, t \in Topic : topics'[p][t] \in {topics[p][t], Dropped(topics[p][t])}
    PROVE  OnePubPerInstance' /\ CursorsBehindRow'
  <1>1. \A w \in pubs : w.proc \in Proc /\ w.topic \in Topic
    BY DEF PublishInv, TypeOK, PubType
  <1>2. \A p \in Proc, t \in Topic :
           /\ topics'[p][t].gen = topics[p][t].gen
           /\ \/ /\ topics'[p][t].state = topics[p][t].state
                 /\ topics'[p][t].lastID = topics[p][t].lastID
              \/ topics'[p][t].state = "none" /\ topics'[p][t].lastID = 0
    BY DroppedType DEF PublishInv, TypeOK
  <1>3. \A t \in Topic : row[t].seqid \in Nat
    BY DEF PublishInv, TypeOK, RowType
  <1>4. OnePubPerInstance'
    BY <1>1, <1>2 DEF PublishInv, OnePubPerInstance
  <1>5. CursorsBehindRow'
    BY <1>1, <1>2, <1>3 DEF PublishInv, CursorsBehindRow, IsCurrent
  <1> QED
    BY <1>4, <1>5

\* The cursor of the committing instance follows the row; no other publish sees it move.
LEMMA CommitKeepsCursors ==
    ASSUME PublishInv, TypeOK', NEW u \in pubs, SaveCommits(u)
    PROVE  OnePubPerInstance' /\ CursorsBehindRow'
  <1>1. /\ u.proc \in Proc /\ u.topic \in Topic
        /\ \A w \in pubs : w.proc \in Proc /\ w.topic \in Topic /\ w.seq \in Nat /\ w.gen \in Nat
    BY DEF PublishInv, TypeOK, PubType
  <1>2. \A t \in Topic : row[t].seqid \in Nat /\ row'[t].seqid \in Nat
    BY DEF PublishInv, TypeOK, RowType
  <1>3. /\ \A t \in Topic : row'[t].seqid >= row[t].seqid
        /\ row'[u.topic].seqid = u.seq
    BY InsertKeepsTable DEF SaveCommits
  <1>4. pubs' = pubs \ {u}
    BY DEF SaveCommits
  <1>5. CASE ~IsCurrent(u)
    <2>1. topics' = topics
      BY <1>5 DEF SaveCommits
    <2> QED
      BY <1>3, <1>4, <2>1, PubMoves DEF PublishInv, TypeOK
  <1>6. CASE IsCurrent(u)
    <2> DEFINE x == topics[u.proc][u.topic]
    <2>1. x \in TopicType /\ x.lastID + 1 \in Nat /\ x.lastID + 1 = u.seq
      BY <1>1, <1>6 DEF PublishInv, TypeOK, TopicType, CursorsBehindRow
    <2>2. topics' = [topics EXCEPT ![u.proc][u.topic] = Cursor(x, x.lastID + 1)]
      BY <1>6 DEF SaveCommits
    <2>3. /\ topics'[u.proc][u.topic] = Cursor(x, x.lastID + 1)
          /\ \A p \in Proc, t \in Topic :
                p # u.proc \/ t # u.topic => topics'[p][t] = topics[p][t]
      BY <1>1, <2>2 DEF PublishInv, TypeOK
    <2>4. /\ topics'[u.proc][u.topic].state = "loaded"
          /\ topics'[u.proc][u.topic].lastID = u.seq
          /\ topics'[u.proc][u.topic].gen = x.gen
      <3> HIDE DEF x
      <3>1. /\ Cursor(x, x.lastID + 1).state = "loaded"
            /\ Cursor(x, x.lastID + 1).lastID = x.lastID + 1
            /\ Cursor(x, x.lastID + 1).gen = x.gen
        BY <2>1, CursorType
      <3> QED
        BY <2>1, <2>3, <3>1
    <2>5. \A w \in pubs' : ~(w.proc = u.proc /\ w.topic = u.topic /\ w.gen = x.gen)
      BY <1>4, <1>6 DEF PublishInv, OnePubPerInstance, IsCurrent
    <2>6. OnePubPerInstance'
      <3>1. \A w \in pubs' : /\ w.gen <= topics'[w.proc][w.topic].gen
                             /\ w.gen = topics'[w.proc][w.topic].gen =>
                                  topics'[w.proc][w.topic].state # "loading"
        BY <1>1, <1>4, <2>3, <2>4 DEF PublishInv, OnePubPerInstance
      <3> QED
        BY <1>4, <3>1 DEF PublishInv, OnePubPerInstance
    <2>7. \A p \in Proc, t \in Topic : topics'[p][t].lastID <= row'[t].seqid
      <3> SUFFICES ASSUME NEW p \in Proc, NEW t \in Topic
                   PROVE  topics'[p][t].lastID <= row'[t].seqid
        OBVIOUS
      <3>1. CASE p = u.proc /\ t = u.topic
        BY <1>2, <1>3, <2>4, <3>1
      <3>2. CASE p # u.proc \/ t # u.topic
        <4>1. topics[p][t].lastID \in Nat /\ topics[p][t].lastID <= row[t].seqid
          BY DEF PublishInv, TypeOK, TopicType, CursorsBehindRow
        <4> QED
          BY <1>2, <1>3, <2>3, <3>2, <4>1
      <3> QED
        BY <3>1, <3>2
    <2>8. ASSUME NEW w \in pubs'
          PROVE  /\ w.seq >= 1 /\ w.seq <= row'[w.topic].seqid + 1
                 /\ IsCurrent(w)' => w.seq = topics'[w.proc][w.topic].lastID + 1
      <3>1. w \in pubs /\ w.seq >= 1 /\ w.seq <= row[w.topic].seqid + 1
        BY <1>4 DEF PublishInv, CursorsBehindRow
      <3>2. w.seq <= row'[w.topic].seqid + 1
        BY <1>1, <1>2, <1>3, <3>1
      <3>3. CASE w.proc = u.proc /\ w.topic = u.topic
        BY <2>4, <2>5, <3>1, <3>2, <3>3 DEF IsCurrent
      <3>4. CASE w.proc # u.proc \/ w.topic # u.topic
        <4>1. topics'[w.proc][w.topic] = topics[w.proc][w.topic]
          BY <1>1, <2>3, <3>1, <3>4
        <4> QED
          BY <3>1, <3>2, <4>1 DEF PublishInv, CursorsBehindRow, IsCurrent
      <3> QED
        BY <3>3, <3>4
    <2> QED
      BY <2>6, <2>7, <2>8 DEF CursorsBehindRow
  <1> QED
    BY <1>5, <1>6

-----------------------------------------------------------------------------
(* The inductive invariant. *)

\* Before the first process starts, the tables, the Hubs and the publishes are empty.
LEMMA InitInv == Init => PublishInv
  <1> SUFFICES ASSUME Init PROVE PublishInv
    OBVIOUS
  <1> USE DEF Init, FenceInit, TopicInit
  <1>1. TypeOK
    <2>1. [seqid |-> 0, owner |-> NoNode, epoch |-> 0] \in RowType
      BY DEF RowType
    <2>2. NoTopic \in TopicType
      BY DEF NoTopic, TopicType
    <2>3. FenceTypeOK
      BY DEF FenceTypeOK, Idle, Applying
    <2> QED
      BY <2>1, <2>2, <2>3 DEF TypeOK
  <1>2. OnePubPerInstance /\ CursorsBehindRow
    BY DEF OnePubPerInstance, CursorsBehindRow, NoTopic
  <1>3. RowIsLatest /\ WritersAreFenced /\ AckedIsSaved
    BY DEF RowIsLatest, WritersAreFenced, AckedIsSaved
  <1>4. SeqContiguous
    <2>1. \A t \in Topic : {m.seq : m \in messages[t]} = {} /\ row[t].seqid = 0
      OBVIOUS
    <2>2. 1 .. 0 = {}
      OBVIOUS
    <2> QED
      BY <2>1, <2>2 DEF SeqContiguous
  <1> QED
    BY <1>1, <1>2, <1>3, <1>4 DEF PublishInv

\* Steps that do not write the table keep what is said of it.
LEMMA TableUnchanged ==
    ASSUME PublishInv, row' = row, messages' = messages
    PROVE  SeqContiguous' /\ RowIsLatest' /\ WritersAreFenced'
  BY DEF PublishInv, SeqContiguous, RowIsLatest, WritersAreFenced

\* Acknowledgements stay true while the table only grows.
LEMMA AckedStays ==
    ASSUME PublishInv, acked' = acked,
           \A t \in Topic : messages[t] \subseteq messages'[t]
    PROVE  AckedIsSaved'
  <1> SUFFICES ASSUME NEW x \in acked
               PROVE  \E m \in messages'[x.topic] : m.cid = x.cid /\ m.seq = x.seq
    BY DEF AckedIsSaved
  <1>1. x.topic \in Topic
    BY DEF PublishInv, TypeOK
  <1>2. PICK m \in messages[x.topic] : m.cid = x.cid /\ m.seq = x.seq
    BY DEF PublishInv, AckedIsSaved
  <1> QED
    BY <1>1, <1>2

\* The acknowledgement of a duplicate is true of the table.
LEMMA AckIsSaved ==
    ASSUME PublishInv, NEW t \in Topic, NEW c \in Cid, Ack(t, c), messages' = messages
    PROVE  AckedIsSaved'
  <1> SUFFICES ASSUME NEW x \in acked'
               PROVE  \E m \in messages[x.topic] : m.cid = x.cid /\ m.seq = x.seq
    BY DEF AckedIsSaved
  <1>1. CASE x \in acked
    BY <1>1 DEF PublishInv, AckedIsSaved
  <1>2. CASE x \notin acked
    <2>1. PICK m \in Saved(t, c) : x = [topic |-> t, cid |-> c, seq |-> m.seq]
      BY <1>2 DEF Ack
    <2>2. m \in messages[t] /\ m.cid = c
      BY <2>1 DEF Saved
    <2> QED
      BY <2>1, <2>2
  <1> QED
    BY <1>1, <1>2

\* Hub actions and the start of a publish preserve the invariant.
LEMMA HubStepInv ==
    ASSUME PublishInv, TypeOK', NEW p \in Proc, HubStep(p)
    PROVE  PublishInv'
  <1>t. \A q \in Proc, t \in Topic :
           topics[q][t] \in TopicType /\ topics[q][t].gen \in Nat /\ topics[q][t].lastID \in Nat
    BY DEF PublishInv, TypeOK, TopicType
  <1>r. \A t \in Topic : row[t].seqid \in Nat
    BY DEF PublishInv, TypeOK, RowType
  <1>u. \A w \in pubs : /\ w.proc \in Proc /\ w.topic \in Topic /\ w.gen \in Nat /\ w.seq \in Nat
                        /\ w.gen <= topics[w.proc][w.topic].gen
    BY DEF PublishInv, TypeOK, PubType, OnePubPerInstance
  <1>1. CASE HubRehash(p)
    <2>1. \A q \in Proc, t \in Topic : topics'[q][t] \in {topics[q][t], Dropped(topics[q][t])}
      BY <1>1 DEF HubRehash, PublishInv, TypeOK
    <2>2. OnePubPerInstance' /\ CursorsBehindRow'
      BY <1>1, <2>1, TopicsDrop DEF HubRehash
    <2> QED
      BY <1>1, <2>2, TableUnchanged, AckedStays DEF HubRehash, PublishInv
  <1>2. ASSUME NEW t \in Topic, Unload(p, t) PROVE PublishInv'
    <2>1. \A q \in Proc, s \in Topic : topics'[q][s] \in {topics[q][s], Dropped(topics[q][s])}
      BY <1>2 DEF Unload, PublishInv, TypeOK
    <2>2. OnePubPerInstance' /\ CursorsBehindRow'
      BY <1>2, <2>1, TopicsDrop DEF Unload
    <2> QED
      BY <1>2, <2>2, TableUnchanged, AckedStays DEF Unload, PublishInv
  <1>3. ASSUME NEW t \in Topic, Join(p, t) PROVE PublishInv'
    <2>1. /\ topics'[p][t].state = "loading" /\ topics'[p][t].lastID = 0
          /\ topics'[p][t].gen = topics[p][t].gen + 1
          /\ \A q \in Proc, s \in Topic : q # p \/ s # t => topics'[q][s] = topics[q][s]
      BY <1>3 DEF Join, PublishInv, TypeOK
    <2>2. pubs' = pubs /\ row' = row
      BY <1>3 DEF Join
    <2>3. OnePubPerInstance'
      BY <1>t, <1>u, <2>1, <2>2 DEF OnePubPerInstance, PublishInv
    <2>4. CursorsBehindRow'
      BY <1>r, <1>u, <2>1, <2>2 DEF CursorsBehindRow, IsCurrent, PublishInv
    <2> QED
      BY <1>3, <2>3, <2>4, TableUnchanged, AckedStays DEF Join, PublishInv
  <1>4. ASSUME NEW t \in Topic, Load(p, t) PROVE PublishInv'
    <2>1. /\ topics[p][t].state = "loading"
          /\ topics'[p][t] = Cursor(topics[p][t], row[t].seqid)
          /\ \A q \in Proc, s \in Topic : q # p \/ s # t => topics'[q][s] = topics[q][s]
      BY <1>4 DEF Load, PublishInv, TypeOK
    <2>2. /\ topics'[p][t].state = "loaded" /\ topics'[p][t].lastID = row[t].seqid
          /\ topics'[p][t].gen = topics[p][t].gen
      BY <1>r, <1>t, <2>1, CursorType
    <2>3. pubs' = pubs /\ row' = row
      BY <1>4 DEF Load
    <2>4. \A w \in pubs : w.proc = p /\ w.topic = t => w.gen # topics[p][t].gen
      BY <2>1 DEF PublishInv, OnePubPerInstance
    <2>5. OnePubPerInstance'
      BY <1>t, <1>u, <2>1, <2>2, <2>3 DEF OnePubPerInstance, PublishInv
    <2>6. CursorsBehindRow'
      BY <1>r, <1>u, <2>1, <2>2, <2>3, <2>4 DEF CursorsBehindRow, IsCurrent, PublishInv
    <2> QED
      BY <1>4, <2>5, <2>6, TableUnchanged, AckedStays DEF Load, PublishInv
  <1>5. ASSUME NEW t \in Topic, NEW c \in Cid, PubDuplicate(p, t, c) PROVE PublishInv'
    <2>1. OnePubPerInstance' /\ CursorsBehindRow'
      BY <1>5 DEF PubDuplicate, PublishInv, OnePubPerInstance, CursorsBehindRow, IsCurrent
    <2> QED
      BY <1>5, <2>1, TableUnchanged, AckIsSaved DEF PubDuplicate, PublishInv
  <1>6. ASSUME NEW t \in Topic, NEW c \in Cid, PubBegin(p, t, c) PROVE PublishInv'
    <2> DEFINE w == [proc |-> p, topic |-> t, gen |-> topics[p][t].gen, cid |-> c,
                     seq |-> topics[p][t].lastID + 1, pc |-> "begin", epoch |-> 0]
    <2>1. /\ pubs' = pubs \cup {w} /\ topics' = topics /\ row' = row
          /\ topics[p][t].state = "loaded"
          /\ \A u \in pubs : ~(u.proc = p /\ u.topic = t /\ u.gen = topics[p][t].gen)
      BY <1>6 DEF PubBegin
    <2>2. /\ w.proc = p /\ w.topic = t /\ w.gen = topics[p][t].gen
          /\ w.seq = topics[p][t].lastID + 1
      OBVIOUS
    <2>3. topics[p][t].lastID <= row[t].seqid
      BY DEF PublishInv, CursorsBehindRow
    <2> HIDE DEF w
    <2>4. OnePubPerInstance'
      BY <1>t, <2>1, <2>2 DEF OnePubPerInstance, PublishInv
    <2>5. CursorsBehindRow'
      BY <1>t, <1>r, <2>1, <2>2, <2>3 DEF CursorsBehindRow, IsCurrent, PublishInv
    <2> QED
      BY <1>6, <2>4, <2>5, TableUnchanged, AckedStays DEF PubBegin, PublishInv
  <1> QED
    BY <1>1, <1>2, <1>3, <1>4, <1>5, <1>6 DEF HubStep

\* The steps of a publish preserve the invariant.
LEMMA PubStepInv ==
    ASSUME PublishInv, TypeOK', NEW u \in pubs, PubStep(u)
    PROVE  PublishInv'
  <1>u. /\ u \in PubType /\ u.proc \in Proc /\ u.topic \in Topic /\ u.cid \in Cid
        /\ \A t \in Topic : row[t].seqid \in Nat
    BY DEF PublishInv, TypeOK, PubType, RowType
  <1>q. TypeOK /\ viewEpoch[u.proc] \in Nat
    BY <1>u DEF PublishInv, TypeOK, FenceTypeOK
  <1>m. ASSUME row' = row, messages' = messages, topics' = topics, acked' = acked,
               NEW v \in PubType, pubs' \subseteq (pubs \ {u}) \cup {v},
               v.proc = u.proc, v.topic = u.topic, v.gen = u.gen, v.seq = u.seq
        PROVE  PublishInv'
    <2>1. OnePubPerInstance' /\ CursorsBehindRow'
      BY <1>m, <1>u, PubMoves
    <2> QED
      BY <1>m, <2>1, TableUnchanged, AckedStays DEF PublishInv
  <1>1. CASE PubReady(u)
    BY <1>1, <1>u, <1>m DEF PubReady, PubType
  <1>2. CASE PubRefused(u)
    BY <1>2, <1>u, <1>m DEF PubRefused
  <1>3. CASE PubOwner(u)
    BY <1>3, <1>u, <1>m DEF PubOwner, PubType
  <1>4. CASE PubEpoch(u)
    <2> DEFINE v == [u EXCEPT !.pc = "save", !.epoch = viewEpoch[u.proc]]
    <2>1. /\ v \in PubType
          /\ v.proc = u.proc /\ v.topic = u.topic /\ v.gen = u.gen /\ v.seq = u.seq
      BY <1>u, <1>q DEF PubType
    <2>2. /\ row' = row /\ messages' = messages /\ topics' = topics /\ acked' = acked
          /\ pubs' \subseteq (pubs \ {u}) \cup {v}
      BY <1>4 DEF PubEpoch
    <2> HIDE DEF v
    <2> QED
      BY <1>m, <2>1, <2>2
  <1>5. CASE SaveCommits(u)
    <2>1. OnePubPerInstance' /\ CursorsBehindRow'
      BY <1>5, CommitKeepsCursors
    <2>2. /\ SeqContiguous' /\ RowIsLatest' /\ WritersAreFenced'
          /\ \A t \in Topic : messages[t] \subseteq messages'[t]
          /\ \E m \in messages'[u.topic] : m.cid = u.cid /\ m.seq = u.seq
      BY <1>5, InsertKeepsTable DEF SaveCommits
    <2>3. AckedIsSaved'
      <3> SUFFICES ASSUME NEW x \in acked'
                   PROVE  \E m \in messages'[x.topic] : m.cid = x.cid /\ m.seq = x.seq
        BY DEF AckedIsSaved
      <3>1. CASE x \in acked
        <4>1. x.topic \in Topic
          BY <3>1 DEF PublishInv, TypeOK
        <4>2. PICK m \in messages[x.topic] : m.cid = x.cid /\ m.seq = x.seq
          BY <3>1 DEF PublishInv, AckedIsSaved
        <4> QED
          BY <2>2, <4>1, <4>2
      <3>2. CASE x = [topic |-> u.topic, cid |-> u.cid, seq |-> u.seq]
        BY <2>2, <3>2
      <3> QED
        BY <1>5, <3>1, <3>2 DEF SaveCommits
    <2> QED
      BY <2>1, <2>2, <2>3 DEF PublishInv
  <1>6. CASE SaveCommitsUnheard(u)
    <2> DEFINE v == [u EXCEPT !.pc = "lookup"]
    <2>1. /\ v \in PubType
          /\ v.proc = u.proc /\ v.topic = u.topic /\ v.gen = u.gen /\ v.seq = u.seq
      BY <1>u DEF PubType
    <2>2. /\ SeqContiguous' /\ RowIsLatest' /\ WritersAreFenced'
          /\ \A t \in Topic : row'[t].seqid >= row[t].seqid /\ messages[t] \subseteq messages'[t]
      BY <1>6, InsertKeepsTable DEF SaveCommitsUnheard
    <2>3. pubs' \subseteq (pubs \ {u}) \cup {v} /\ topics' = topics /\ acked' = acked
      BY <1>6 DEF SaveCommitsUnheard
    <2> HIDE DEF v
    <2>4. OnePubPerInstance' /\ CursorsBehindRow'
      BY <2>1, <2>2, <2>3, PubMoves
    <2> QED
      BY <2>2, <2>3, <2>4, AckedStays DEF PublishInv
  <1>7. CASE SaveFails(u)
    BY <1>7, <1>u, <1>m DEF SaveFails, PubType
  <1>8. CASE PubLookup(u)
    <2>1. OnePubPerInstance' /\ CursorsBehindRow'
      BY <1>8, <1>u, PubMoves DEF PubLookup
    <2> QED
      BY <1>8, <1>u, <2>1, TableUnchanged, AckIsSaved DEF PubLookup, PublishInv
  <1> QED
    BY <1>1, <1>2, <1>3, <1>4, <1>5, <1>6, <1>7, <1>8 DEF PubStep

\* Every step of the publish path preserves the invariant.
LEMMA NextInv == PublishInv /\ [Next]_vars => PublishInv'
  <1> SUFFICES ASSUME PublishInv, [Next]_vars PROVE PublishInv'
    OBVIOUS
  <1>t. TypeOK'
    BY NextType DEF PublishInv
  <1>1. ASSUME UNCHANGED topicVars PROVE PublishInv'
    <2>1. OnePubPerInstance' /\ CursorsBehindRow'
      BY <1>1 DEF topicVars, PublishInv, OnePubPerInstance, CursorsBehindRow, IsCurrent
    <2> QED
      BY <1>1, <1>t, <2>1, TableUnchanged, AckedStays DEF topicVars, PublishInv
  <1>2. ASSUME NEW p \in Proc, Publish(p) PROVE PublishInv'
    <2>1. OnePubPerInstance' /\ CursorsBehindRow'
      BY <1>2 DEF Publish, PublishInv, OnePubPerInstance, CursorsBehindRow, IsCurrent
    <2> QED
      BY <1>2, <1>t, <2>1, TableUnchanged, AckedStays DEF Publish, PublishInv
  <1>3. ASSUME NEW p \in Proc, End(p) PROVE PublishInv'
    <2>1. \A q \in Proc, t \in Topic : topics'[q][t] \in {topics[q][t], Dropped(topics[q][t])}
      BY <1>3 DEF End, PublishInv, TypeOK
    <2>2. OnePubPerInstance' /\ CursorsBehindRow'
      BY <1>3, <1>t, <2>1, TopicsDrop DEF End
    <2> QED
      BY <1>3, <1>t, <2>2, TableUnchanged, AckedStays DEF End, PublishInv
  <1>4. CASE UNCHANGED vars
    BY <1>1, <1>4 DEF vars
  <1> QED
    BY <1>t, <1>1, <1>2, <1>3, <1>4, HubStepInv, PubStepInv DEF Next

\* saveAndBroadcastMessage over MessageSaveAtomic: for every cluster, whatever views,
\* rehashes, dropped instances, lost commits and crashes interleave, the invariant holds.
THEOREM PublishSafe == Spec => []PublishInv
  BY InitInv, NextInv, PTL DEF Spec

\* The publish path keeps its types.
THEOREM TypeCorrect == Spec => []TypeOK
  <1>1. PublishInv => TypeOK
    BY DEF PublishInv
  <1> QED
    BY <1>1, PublishSafe, PTL

\* The sequence numbers in the table are 1 .. seqid: the claim of Save's comment, that no
\* crash leaves a hole, for every number of competing processes and instances.
THEOREM NoHoles == Spec => []SeqContiguous
  <1>1. PublishInv => SeqContiguous
    BY DEF PublishInv
  <1> QED
    BY <1>1, PublishSafe, PTL

\* MessageSaveAtomic's fence and row checks order the writers of a topic by epoch and keep
\* each epoch to one owner name.
THEOREM FencingOrdersWriters == Spec => []WritersAreFenced
  <1>1. PublishInv => WritersAreFenced
    BY DEF PublishInv
  <1> QED
    BY <1>1, PublishSafe, PTL

\* No acknowledgement, first or repeated, is ever given for a message that is not saved
\* under that sequence number.
THEOREM AcksAreDurable == Spec => []AckedIsSaved
  <1>1. PublishInv => AckedIsSaved
    BY DEF PublishInv
  <1> QED
    BY <1>1, PublishSafe, PTL

-----------------------------------------------------------------------------
(* The publish path implements TopicLog: every step commits one message,   *)
(* acknowledges a saved one, or is not seen by clients at all.             *)

Unseen == UNCHANGED <<row, messages, acked>>
AcksSaved(t, c) == Ack(t, c) /\ UNCHANGED <<row, messages>>
Commits(u) ==
    /\ NotFenced(u) /\ NotDuplicate(u) /\ Insert(u)
    /\ acked' \in {acked, acked \cup {[topic |-> u.topic, cid |-> u.cid, seq |-> u.seq]}}

\* Only SaveCommits and SaveCommitsUnheard write the tables, and only they, the duplicate
\* path and the lookup after an error acknowledge.
LEMMA StepKinds ==
    ASSUME TypeOK, [Next]_vars
    PROVE  \/ Unseen
           \/ \E t \in Topic, c \in Cid : AcksSaved(t, c)
           \/ \E u \in pubs : Commits(u)
  <1>1. ASSUME NEW p \in Proc, HubStep(p)
        PROVE  Unseen \/ \E t \in Topic, c \in Cid : AcksSaved(t, c)
    <2>1. CASE HubRehash(p)
      BY <2>1 DEF HubRehash, Unseen
    <2>2. ASSUME NEW t \in Topic, Join(p, t) \/ Load(p, t) \/ Unload(p, t) PROVE Unseen
      BY <2>2 DEF Join, Load, Unload, Unseen
    <2>3. ASSUME NEW t \in Topic, NEW c \in Cid, PubDuplicate(p, t, c) PROVE AcksSaved(t, c)
      BY <2>3 DEF PubDuplicate, AcksSaved
    <2>4. ASSUME NEW t \in Topic, NEW c \in Cid, PubBegin(p, t, c) PROVE Unseen
      BY <2>4 DEF PubBegin, Unseen
    <2> QED
      BY <1>1, <2>1, <2>2, <2>3, <2>4 DEF HubStep
  <1>2. ASSUME NEW u \in pubs, PubStep(u)
        PROVE  Unseen \/ Commits(u) \/ \E t \in Topic, c \in Cid : AcksSaved(t, c)
    <2>1. CASE PubReady(u) \/ PubRefused(u) \/ PubOwner(u) \/ PubEpoch(u) \/ SaveFails(u)
      BY <2>1 DEF PubReady, PubRefused, PubOwner, PubEpoch, SaveFails, Unseen
    <2>2. CASE SaveCommits(u)
      BY <2>2 DEF SaveCommits, Commits
    <2>3. CASE SaveCommitsUnheard(u)
      BY <2>3 DEF SaveCommitsUnheard, Commits
    <2>4. CASE PubLookup(u)
      <3>1. u.topic \in Topic /\ u.cid \in Cid
        BY DEF TypeOK, PubType
      <3>2. AcksSaved(u.topic, u.cid)
        BY <2>4 DEF PubLookup, AcksSaved
      <3> QED
        BY <3>1, <3>2
    <2> QED
      BY <1>2, <2>1, <2>2, <2>3, <2>4 DEF PubStep
  <1>3. ASSUME NEW p \in Proc, (ViewStep(p) /\ UNCHANGED topicVars) \/ Publish(p) \/ End(p)
        PROVE  Unseen
    BY <1>3 DEF topicVars, Publish, End, Unseen
  <1>4. CASE UNCHANGED vars
    BY <1>4 DEF vars, topicVars, Unseen
  <1> QED
    BY <1>1, <1>2, <1>3, <1>4 DEF Next

\* The unique indexes hold after a commit because the transaction checked them.
LEMMA IndexesKept ==
    ASSUME PublishInv, IndexesHold, [Next]_vars
    PROVE  IndexesHold'
  <1>1. CASE messages' = messages
    BY <1>1 DEF IndexesHold
  <1>2. ASSUME NEW u \in pubs, Commits(u) PROVE IndexesHold'
    <2> DEFINE new == [seq |-> u.seq, cid |-> u.cid, proc |-> u.proc, epoch |-> u.epoch]
    <2>1. u.topic \in Topic /\ new.seq = u.seq /\ new.cid = u.cid
      BY DEF PublishInv, TypeOK, PubType
    <2>2. /\ messages'[u.topic] = messages[u.topic] \cup {new}
          /\ \A t \in Topic \ {u.topic} : messages'[t] = messages[t]
      BY <1>2, <2>1 DEF Commits, Insert, PublishInv, TypeOK
    <2>3. \A m \in messages[u.topic] : m.seq # u.seq /\ m.cid # u.cid
      BY <1>2 DEF Commits, NotDuplicate
    <2> HIDE DEF new
    <2> QED
      BY <2>1, <2>2, <2>3 DEF IndexesHold
  <1> QED
    BY <1>1, <1>2, StepKinds DEF PublishInv, Unseen, AcksSaved

-----------------------------------------------------------------------------
(* The log the messages table holds. *)

\* Position i of the log is the client id of the message numbered i.
LEMMA LogOfMessage ==
    ASSUME IndexesHold, NEW t \in Topic, NEW m \in messages[t], m.seq \in 1 .. row[t].seqid
    PROVE  LogOf(t)[m.seq] = m.cid
  <1>1. \A k \in messages[t] : k.seq = m.seq => k = m
    BY DEF IndexesHold
  <1>2. (CHOOSE k \in messages[t] : k.seq = m.seq) = m
    BY <1>1
  <1> QED
    BY <1>2 DEF LogOf

\* Every position of the log holds the client id of a message numbered by it.
LEMMA LogOfPosition ==
    ASSUME PublishInv, NEW t \in Topic, NEW i \in 1 .. row[t].seqid
    PROVE  \E m \in messages[t] : m.seq = i /\ LogOf(t)[i] = m.cid
  <1>1. {m.seq : m \in messages[t]} = 1 .. row[t].seqid
    BY DEF PublishInv, SeqContiguous
  <1>2. \E m \in messages[t] : m.seq = i
    BY <1>1
  <1>3. (CHOOSE k \in messages[t] : k.seq = i) \in messages[t]
        /\ (CHOOSE k \in messages[t] : k.seq = i).seq = i
    BY <1>2
  <1> QED
    BY <1>3 DEF LogOf

\* The log of a topic is a sequence of client ids as long as the cursor in its row says.
LEMMA LogOfType ==
    ASSUME PublishInv, NEW t \in Topic
    PROVE  LogOf(t) \in Seq(Cid) /\ Len(LogOf(t)) = row[t].seqid /\ row[t].seqid \in Nat
  <1>1. row[t].seqid \in Nat
    BY DEF PublishInv, TypeOK, RowType
  <1>2. \A m \in messages[t] : m.cid \in Cid
    BY DEF PublishInv, TypeOK, MessageType
  <1>3. \A i \in 1 .. row[t].seqid : LogOf(t)[i] \in Cid
    BY <1>2, LogOfPosition
  <1>4. LogOf(t) \in [1 .. row[t].seqid -> Cid]
    BY <1>3 DEF LogOf
  <1> QED
    BY <1>1, <1>4

-----------------------------------------------------------------------------
(* The steps of the log. *)

\* A committed transaction appends the client id at the end of the log of its topic and
\* leaves the rest of it, and every other log, as they were.
LEMMA CommitAppends ==
    ASSUME PublishInv, PublishInv', IndexesHold, IndexesHold', NEW u \in pubs, Commits(u)
    PROVE  /\ LogOf(u.topic)' = Append(LogOf(u.topic), u.cid)
           /\ \A t \in Topic \ {u.topic} : LogOf(t)' = LogOf(t)
  <1> DEFINE T == u.topic
             n == row[T].seqid
             new == [seq |-> u.seq, cid |-> u.cid, proc |-> u.proc, epoch |-> u.epoch]
  <1>1. T \in Topic /\ u.cid \in Cid /\ u.seq \in Nat /\ n \in Nat
    BY DEF PublishInv, TypeOK, PubType, RowType
  <1>2. u.seq = n + 1
    BY NextAfterRow DEF Commits
  <1>3. /\ row'[T].seqid = n + 1
        /\ messages'[T] = messages[T] \cup {new}
        /\ new.seq = n + 1 /\ new.cid = u.cid
        /\ \A t \in Topic \ {T} : row'[t] = row[t] /\ messages'[t] = messages[t]
    BY <1>1, <1>2 DEF Commits, Insert, PublishInv, TypeOK
  <1> HIDE DEF new
  <1>4. ASSUME NEW t \in Topic \ {T} PROVE LogOf(t)' = LogOf(t)
    <2>1. row'[t] = row[t] /\ messages'[t] = messages[t]
      BY <1>3
    <2> DEFINE f(R, M) == [i \in 1 .. R.seqid |-> (CHOOSE m \in M : m.seq = i).cid]
    <2>2. LogOf(t) = f(row[t], messages[t]) /\ LogOf(t)' = f(row'[t], messages'[t])
      BY DEF LogOf
    <2> HIDE DEF f
    <2> QED
      BY <2>1, <2>2
  <1>5. LogOf(T)'[n + 1] = u.cid
    <2>1. \A k \in messages'[T] : k.seq = new.seq => k = new
      BY <1>1, <1>3 DEF IndexesHold
    <2>2. (CHOOSE k \in messages'[T] : k.seq = n + 1) = new
      BY <1>3, <2>1
    <2> QED
      BY <1>1, <1>3, <2>2 DEF LogOf
  <1>6. ASSUME NEW i \in 1 .. n PROVE LogOf(T)'[i] = LogOf(T)[i]
    <2>1. PICK m \in messages[T] : m.seq = i /\ LogOf(T)[i] = m.cid
      BY <1>1, LogOfPosition
    <2>2. m \in messages'[T] /\ i \in 1 .. n + 1
      BY <1>1, <1>3, <2>1
    <2>3. \A k \in messages'[T] : k.seq = i => k = m
      BY <1>1, <2>1, <2>2 DEF IndexesHold
    <2>4. (CHOOSE k \in messages'[T] : k.seq = i) = m
      BY <2>1, <2>2, <2>3
    <2> QED
      BY <1>3, <2>1, <2>2, <2>4 DEF LogOf
  <1>7. LogOf(T)' \in Seq(Cid) /\ Len(LogOf(T))' = n + 1
    <2>1. \A m \in messages'[T] : m.cid \in Cid
      BY <1>1 DEF PublishInv, TypeOK, MessageType
    <2>2. \A i \in 1 .. n + 1 : LogOf(T)'[i] \in Cid
      BY <1>1, <1>5, <1>6, LogOfType
    <2>3. LogOf(T)' \in [1 .. n + 1 -> Cid]
      BY <1>3, <2>2 DEF LogOf
    <2> QED
      BY <1>1, <2>3
  <1>8. LogOf(T) \in Seq(Cid) /\ Len(LogOf(T)) = n
    BY <1>1, LogOfType
  <1>9. LogOf(T)' = Append(LogOf(T), u.cid)
    <2> DEFINE a == LogOf(T)'
               b == LogOf(T)
    <2>1. a \in Seq(Cid) /\ b \in Seq(Cid) /\ Len(a) = n + 1 /\ Len(b) = n
      BY <1>7, <1>8
    <2>2. \A i \in 1 .. n + 1 : a[i] = Append(b, u.cid)[i]
      BY <1>1, <1>5, <1>6, <2>1
    <2>3. Append(b, u.cid) \in Seq(Cid) /\ Len(Append(b, u.cid)) = n + 1
      BY <1>1, <2>1
    <2> DEFINE d == Append(b, u.cid)
    <2> HIDE DEF a, b, d
    <2>4. a = [i \in 1 .. n + 1 |-> a[i]] /\ d = [i \in 1 .. n + 1 |-> d[i]]
      BY <1>1, <2>1, <2>3 DEF d
    <2>5. a = d
      BY <2>2, <2>4 DEF d
    <2> QED
      BY <2>5 DEF a, b, d
  <1> QED
    BY <1>4, <1>9

\* The positions of a client id in the log are the numbers of its saved messages.
LEMMA PositionsAreSaved ==
    ASSUME PublishInv, IndexesHold, NEW t \in Topic, NEW c \in Cid
    PROVE  Log!Positions(t, c) = {m.seq : m \in Saved(t, c)}
  <1>1. DOMAIN LogOf(t) = 1 .. row[t].seqid
    BY DEF LogOf
  <1>2. Log!Positions(t, c) = {i \in 1 .. row[t].seqid : LogOf(t)[i] = c}
    BY <1>1 DEF Log!Positions
  <1>3. {m.seq : m \in messages[t]} = 1 .. row[t].seqid
    BY DEF PublishInv, SeqContiguous
  <1>4. ASSUME NEW m \in Saved(t, c) PROVE m.seq \in Log!Positions(t, c)
    <2>1. m \in messages[t] /\ m.cid = c
      BY DEF Saved
    <2>2. m.seq \in 1 .. row[t].seqid
      BY <1>3, <2>1
    <2>3. LogOf(t)[m.seq] = c
      BY <2>1, <2>2, LogOfMessage
    <2> QED
      BY <1>2, <2>2, <2>3
  <1>5. ASSUME NEW i \in Log!Positions(t, c) PROVE \E m \in Saved(t, c) : m.seq = i
    <2>1. i \in 1 .. row[t].seqid /\ LogOf(t)[i] = c
      BY <1>2
    <2>2. PICK m \in messages[t] : m.seq = i /\ LogOf(t)[i] = m.cid
      BY <2>1, LogOfPosition
    <2> QED
      BY <2>1, <2>2 DEF Saved
  <1> QED
    BY <1>4, <1>5

\* The three kinds of steps are an append, an acknowledgement and a stutter of the log.
LEMMA LogSteps ==
    ASSUME PublishInv, PublishInv', IndexesHold, IndexesHold', [Next]_vars
    PROVE  Log!LogNext \/ UNCHANGED Log!logVars
  <1>1. CASE Unseen
    <2>1. \A t \in Topic : LogOf(t)' = LogOf(t)
      BY <1>1 DEF Unseen, LogOf
    <2> QED
      BY <1>1, <2>1 DEF Unseen, Log!logVars
  <1>2. ASSUME NEW t \in Topic, NEW c \in Cid, AcksSaved(t, c)
        PROVE  Log!AckAgain(t, c) \/ UNCHANGED Log!logVars
    <2>1. \A s \in Topic : LogOf(s)' = LogOf(s)
      BY <1>2 DEF AcksSaved, LogOf
    <2>2. CASE Saved(t, c) = {}
      BY <1>2, <2>1, <2>2 DEF AcksSaved, Ack, Log!logVars
    <2>3. CASE Saved(t, c) # {}
      <3>1. PICK m \in Saved(t, c) : TRUE
        BY <2>3
      <3>2. Saved(t, c) = {m}
        BY <3>1 DEF Saved, IndexesHold
      <3>3. acked' = acked \cup {[topic |-> t, cid |-> c, seq |-> m.seq]}
        BY <1>2, <3>2 DEF AcksSaved, Ack
      <3>4. m.seq \in Log!Positions(t, c)
        BY <3>1, PositionsAreSaved
      <3> QED
        BY <2>1, <3>3, <3>4 DEF Log!AckAgain, Log!AckOf
    <2> QED
      BY <2>2, <2>3
  <1>3. ASSUME NEW u \in pubs, Commits(u) PROVE Log!LogNext
    <2>1. u.topic \in Topic /\ u.cid \in Cid
      BY DEF PublishInv, TypeOK, PubType
    <2>2. Log!Positions(u.topic, u.cid) = {}
      <3>1. Saved(u.topic, u.cid) = {}
        BY <1>3 DEF Commits, NotDuplicate, Saved
      <3> QED
        BY <2>1, <3>1, PositionsAreSaved
    <2>3. /\ LogOf(u.topic)' = Append(LogOf(u.topic), u.cid)
          /\ \A t \in Topic \ {u.topic} : LogOf(t)' = LogOf(t)
      BY <1>3, CommitAppends
    <2>4. [t \in Topic |-> LogOf(t)'] =
              [[t \in Topic |-> LogOf(t)] EXCEPT ![u.topic] = Append(@, u.cid)]
      BY <2>1, <2>3
    <2>5. u.seq = Len(LogOf(u.topic)) + 1
      BY <1>3, <2>1, NextAfterRow, LogOfType DEF Commits
    <2>6. acked' \in {acked, acked \cup {Log!AckOf(u.topic, u.cid, u.seq)}}
      BY <1>3 DEF Commits, Log!AckOf
    <2>7. Log!Append1(u.topic, u.cid)
      BY <2>1, <2>2, <2>4, <2>5, <2>6 DEF Log!Append1
    <2> QED
      BY <2>1, <2>7 DEF Log!LogNext
  <1> QED
    BY <1>1, <1>2, <1>3, StepKinds DEF PublishInv, Log!LogNext

\* Whatever topic instances, processes and epochs compete, what clients see of
\* saveAndBroadcastMessage is one log per topic that only grows at its end, holds each
\* client id once, and whose acknowledgements tell the position of the client id.
THEOREM ImplementsTopicLog == Spec => ImplementsLog
  <1>1. Init => IndexesHold
    BY DEF Init, TopicInit, IndexesHold
  <1>2. Init => Log!LogInit
    <2> SUFFICES ASSUME Init PROVE Log!LogInit
      OBVIOUS
    <2>1. \A t \in Topic : LogOf(t) = <<>>
      BY DEF Init, TopicInit, LogOf
    <2> QED
      BY <2>1 DEF Init, TopicInit, Log!LogInit
  <1>3. Spec => []IndexesHold
    BY <1>1, IndexesKept, PublishSafe, PTL DEF Spec
  <1>4. PublishInv /\ PublishInv' /\ IndexesHold /\ IndexesHold' /\ [Next]_vars
            => [Log!LogNext]_(Log!logVars)
    BY LogSteps
  <1> QED
    BY <1>2, <1>3, <1>4, PublishSafe, PTL DEF Spec, ImplementsLog, Log!LogSpec

=============================================================================
