--------------------------- MODULE ElectionProofs ---------------------------
(***************************************************************************)
(* Theorem about the leader election of a cluster without etcd, for every  *)
(* set of nodes: every vote that was counted is explained by a ballot, so  *)
(* two leaders of one term would share a voter.                            *)
(***************************************************************************)
EXTENDS LeaderElection, FiniteSetTheorems, TLAPS

Term == 0 .. MaxTerm
HealthCheck == [leader : ENode, term : Term, signature : SUBSET ENode, nodes : SUBSET ENode]
VoteRequest == [node : ENode, term : Term]
VoteReply == [to : ENode, from : ENode, asked : Term, result : BOOLEAN, term : Term]

\* The types of all variables, as far as the other parts need them.
ElectionTypes ==
    /\ term \in [ENode -> Term]
    /\ leader \in [ENode -> ENode \union {Nobody}]
    /\ election \in [ENode -> [counted : 0 .. expectVotes, answers : Nat]]
    /\ active \in [ENode -> SUBSET ENode] /\ ring \in [ENode -> SUBSET ENode]
    /\ failCount \in [ENode -> [ENode -> 0 .. (NodeFailAfter + 1)]]
    /\ skipped \in [ENode -> BOOLEAN]
    /\ health \in [ENode -> Seq(HealthCheck)] /\ votes \in [ENode -> Seq(VoteRequest)]
    /\ replies \subseteq VoteReply
    /\ elected \subseteq VoteRequest
    /\ lapsed \in Nat

\* A node is on its own list and no queue of health checks outgrows its capacity.
ListsAndQueues ==
    \A n \in ENode : n \in active[n] /\ Len(health[n]) <= HealthQueue

\* A health check is sent by a node elected in the term it shows.
ChecksFromElected ==
    \A n \in ENode : \A i \in 1 .. Len(health[n]) :
        [node |-> health[n][i].leader, term |-> health[n][i].term] \in elected

\* An answer is on its way only while the election that asked for it is led; one that
\* says yes shows the term it was asked for.
RepliesAreAwaited ==
    \A r \in replies :
        Leading(r.to) /\ r.asked = term[r.to] /\ (r.result => r.term = r.asked)

\* The ballot of a voter for a node in a term.
Ballot(m, t, n) == [voter |-> m, term |-> t, node |-> n]

\* The ballots b cast so far and the voters c[n] that n has counted in its election
\* explain the state: no voter votes twice in a term or ahead of its own term, a yes on
\* its way is a ballot that is not counted yet, and whoever was elected has a majority. Of
\* the terms that a process may have forgotten nothing is said.
Explains(b, c) ==
    /\ b \subseteq [voter : ENode, term : Term, node : ENode]
    /\ c \in [ENode -> SUBSET ENode]
    /\ \A x \in b : x.term <= term[x.voter]
    /\ \A x, y \in b : x.voter = y.voter /\ x.term = y.term => x.node = y.node
    /\ \A r \in replies : r.result /\ lapsed < r.asked =>
           Ballot(r.from, r.asked, r.to) \in b /\ r.from \notin c[r.to]
    /\ \A n \in ENode : Leading(n) /\ lapsed < term[n] => Cardinality(c[n]) = election[n].counted
    /\ \A n \in ENode : Leading(n) /\ lapsed < term[n] => \A m \in c[n] : Ballot(m, term[n], n) \in b
    /\ \A e \in elected : lapsed < e.term => \E Q \in SUBSET ENode :
           Cardinality(Q) >= expectVotes /\ \A m \in Q : Ballot(m, e.term, e.node) \in b

\* Some ballots explain the state.
VotesAreExplained == \E b, c : Explains(b, c)

\* The inductive invariant of the election.
ElectionInv ==
    /\ ElectionTypes /\ ListsAndQueues /\ FollowsTheElected /\ ChecksFromElected
    /\ RepliesAreAwaited /\ VotesAreExplained

-----------------------------------------------------------------------------
\* What the assumption says of each bound, and the number of votes needed.
LEMMA ElectionBounds ==
    /\ IsFiniteSet(ENode) /\ Cardinality(ENode) \in Nat
    /\ NodeFailAfter \in Nat \ {0} /\ HealthQueue \in Nat \ {0} /\ MaxTerm \in Nat
    /\ expectVotes \in Nat /\ 1 <= expectVotes /\ 2 * expectVotes > Cardinality(ENode)
  <1>1. Cardinality(ENode) \in Nat
    BY ElectionAssumption, FS_CardinalityType
  <1> QED BY <1>1, ElectionAssumption DEF expectVotes

\* A subset of the nodes is finite and its size a number.
LEMMA VotersAreFinite ==
    ASSUME NEW Q \in SUBSET ENode
    PROVE  IsFiniteSet(Q) /\ Cardinality(Q) \in Nat
  BY ElectionAssumption, FS_Subset, FS_CardinalityType

\* Two sets of nodes with enough votes share a node (expectVotes is a majority).
LEMMA MajoritiesMeet ==
    ASSUME NEW P \in SUBSET ENode, NEW Q \in SUBSET ENode,
           Cardinality(P) >= expectVotes, Cardinality(Q) >= expectVotes
    PROVE  \E m \in ENode : m \in P /\ m \in Q
  <1>1. Cardinality(P) \in Nat /\ Cardinality(Q) \in Nat
    BY VotersAreFinite
  <1>2. Cardinality(P) + Cardinality(Q) > Cardinality(ENode)
    BY <1>1, ElectionBounds
  <1>3. P \cap Q # {}
    BY <1>2, ElectionBounds, FS_MajoritiesIntersect
  <1> QED BY <1>3

\* The fields of an election that is not led.
LEMMA NoElectionTypes == NoElection \in [counted : 0 .. expectVotes, answers : Nat]
  BY ElectionBounds DEF NoElection

\* failCountAfter stays within its bound.
LEMMA FailCountBounded ==
    ASSUME ElectionTypes, NEW n \in ENode, NEW m \in ENode
    PROVE  failCountAfter(n, m) \in 0 .. (NodeFailAfter + 1)
  <1>1. failCount[n][m] \in 0 .. (NodeFailAfter + 1)
    BY DEF ElectionTypes
  <1> QED BY <1>1, ElectionBounds DEF failCountAfter

\* The list the leader builds holds nodes, the leader among them.
LEMMA AliveNodesAre ==
    ASSUME NEW n \in ENode
    PROVE  aliveNodes(n) \in SUBSET ENode /\ n \in aliveNodes(n)
  BY DEF aliveNodes, Others

\* The answer of n to a vote request.
voteReply(n, v) ==
    [to |-> v.node, from |-> n, asked |-> v.term, result |-> VoteFor(n, v) /\ Reaches(n, v.node),
     term |-> IF ~Reaches(n, v.node) THEN 0 ELSE IF VoteFor(n, v) THEN v.term ELSE term[n]]

\* The parts of an answer: a yes shows the term it was asked for.
LEMMA VoteReplyIs ==
    ASSUME NEW n, NEW v
    PROVE  /\ voteReply(n, v).to = v.node /\ voteReply(n, v).from = n
           /\ voteReply(n, v).asked = v.term
           /\ voteReply(n, v).result => VoteFor(n, v) /\ voteReply(n, v).term = v.term
  <1> DEFINE yes == VoteFor(n, v)
             back == Reaches(n, v.node)
             t == IF ~back THEN 0 ELSE IF yes THEN v.term ELSE term[n]
  <1>1. yes /\ back => t = v.term
    OBVIOUS
  <1>2. voteReply(n, v) = [to |-> v.node, from |-> n, asked |-> v.term, result |-> yes /\ back, term |-> t]
    BY DEF voteReply
  <1> HIDE DEF yes, back, t
  <1>3. /\ voteReply(n, v).result = (yes /\ back) /\ voteReply(n, v).term = t
        /\ voteReply(n, v).to = v.node /\ voteReply(n, v).from = n /\ voteReply(n, v).asked = v.term
    BY <1>2
  <1>4. yes => VoteFor(n, v)
    BY DEF yes
  <1> QED BY <1>1, <1>3, <1>4

\* A vote adds its answer where it is still awaited.
LEMMA RepliesAfterVote ==
    ASSUME NEW n \in ENode, runVote(n)
    PROVE  \/ replies' = replies
           \/ Awaited(Head(votes[n])) /\ replies' = replies \union {voteReply(n, Head(votes[n]))}
  <1>1. CASE Awaited(Head(votes[n]))
    BY <1>1 DEF runVote, voteReply
  <1>2. CASE ~Awaited(Head(votes[n]))
    BY <1>2 DEF runVote
  <1> QED BY <1>1, <1>2

\* An answer that is taken leaves the election led, and counts at most one vote.
LEMMA TakingGoesOn ==
    ASSUME ElectionTypes, NEW n \in ENode, NEW r \in replies, electionTakes(n, r)
    PROVE  /\ election'[n] # NoElection
           /\ r.result => election'[n].counted = election[n].counted + 1
           /\ ~r.result => election'[n].counted \in {0, election[n].counted}
  <1> DEFINE old == election[n]
             losing == ~r.result /\ term[n] < r.term
             all == Cardinality(Others(n))
             new == [counted |-> IF r.result THEN old.counted + 1 ELSE IF losing THEN 0 ELSE old.counted,
                     answers |-> IF losing THEN all ELSE old.answers + 1]
  <1>1. old.answers \in Nat /\ old.answers < all /\ election' = [election EXCEPT ![n] = new]
    BY DEF electionTakes, ElectionTypes
  <1>2. all \in Nat
    BY VotersAreFinite DEF Others
  <1>3. new.answers \in Nat /\ new.answers # 0
    BY <1>1, <1>2
  <1>4. /\ r.result => new.counted = old.counted + 1
        /\ ~r.result => new.counted \in {0, old.counted}
    OBVIOUS
  <1>5. election'[n] = new
    BY <1>1 DEF ElectionTypes
  <1> HIDE DEF new
  <1> QED BY <1>3, <1>4, <1>5 DEF NoElection

-----------------------------------------------------------------------------
\* The types hold initially.
LEMMA ElectionTypesInit == ElectionInit => ElectionTypes
  <1> SUFFICES ASSUME ElectionInit PROVE ElectionTypes
    OBVIOUS
  <1>1. 0 \in Term /\ 0 \in 0 .. (NodeFailAfter + 1)
    BY ElectionBounds DEF Term
  <1> QED BY <1>1, NoElectionTypes DEF ElectionInit, ElectionTypes

\* Every step keeps the types.
LEMMA ElectionTypesStep ==
    ASSUME ElectionTypes, ElectionNext
    PROVE  ElectionTypes'
  <1> USE DEF ElectionTypes
  <1>1. ASSUME NEW n \in ENode, sendHealthChecks(n)
        PROVE  ElectionTypes'
    <2> DEFINE message == [leader |-> n, term |-> term[n], signature |-> ring[n], nodes |-> active[n]]
    <2>1. message \in HealthCheck
      BY DEF HealthCheck
    <2>2. \A m \in ENode : Append(health[m], message) \in Seq(HealthCheck)
      BY <2>1
    <2> HIDE DEF message
    <2>3. health' \in [ENode -> Seq(HealthCheck)]
      BY <1>1, <2>2 DEF sendHealthChecks, message
    <2>4. [m \in ENode |-> failCountAfter(n, m)] \in [ENode -> 0 .. (NodeFailAfter + 1)]
      BY FailCountBounded
    <2>5. failCount' \in [ENode -> [ENode -> 0 .. (NodeFailAfter + 1)]]
      BY <1>1, <2>4 DEF sendHealthChecks
    <2>6. active' \in [ENode -> SUBSET ENode] /\ ring' \in [ENode -> SUBSET ENode]
      BY <1>1, AliveNodesAre DEF sendHealthChecks
    <2> QED BY <1>1, <2>3, <2>5, <2>6 DEF sendHealthChecks
  <1>2. ASSUME NEW n \in ENode, electLeader(n)
        PROVE  ElectionTypes'
    <2>1. term[n] + 1 \in Term
      BY <1>2, ElectionBounds DEF electLeader, Term
    <2>2. term' \in [ENode -> Term]
      BY <1>2, <2>1 DEF electLeader
    <2> DEFINE out == {m \in Others(n) : ~Reaches(n, m)}
    <2>3. Cardinality(out) \in Nat
      BY VotersAreFinite DEF Others
    <2> DEFINE new == [counted |-> 1, answers |-> Cardinality(out)]
    <2>4. new \in [counted : 0 .. expectVotes, answers : Nat]
      BY <2>3, ElectionBounds
    <2>5. election' = [election EXCEPT ![n] = new]
      BY <1>2 DEF electLeader
    <2> HIDE DEF new
    <2>6. election' \in [ENode -> [counted : 0 .. expectVotes, answers : Nat]]
      BY <2>4, <2>5
    <2> DEFINE ask == [node |-> n, term |-> term[n] + 1]
    <2>7. ask \in VoteRequest
      BY <2>1 DEF VoteRequest
    <2>8. \A m \in ENode : Append(votes[m], ask) \in Seq(VoteRequest)
      BY <2>7
    <2>9. votes' \in [ENode -> Seq(VoteRequest)]
      BY <1>2, <2>8 DEF electLeader
    <2> QED BY <1>2, <2>2, <2>6, <2>9 DEF electLeader
  <1>3. ASSUME NEW n \in ENode, NEW r \in replies, electionTakes(n, r)
        PROVE  ElectionTypes'
    <2> DEFINE old == election[n]
               losing == ~r.result /\ term[n] < r.term
               all == Cardinality(Others(n))
               new == [counted |-> IF r.result THEN old.counted + 1 ELSE IF losing THEN 0 ELSE old.counted,
                       answers |-> IF losing THEN all ELSE old.answers + 1]
    <2>1. old.counted \in 0 .. expectVotes /\ old.answers \in Nat /\ old.counted < expectVotes
      BY <1>3 DEF electionTakes
    <2>2. all \in Nat
      BY VotersAreFinite DEF Others
    <2>3. new \in [counted : 0 .. expectVotes, answers : Nat]
      BY <2>1, <2>2, ElectionBounds
    <2>4. election' = [election EXCEPT ![n] = new]
      BY <1>3 DEF electionTakes
    <2> HIDE DEF new
    <2>5. election' \in [ENode -> [counted : 0 .. expectVotes, answers : Nat]]
      BY <2>3, <2>4
    <2> QED BY <1>3, <2>5 DEF electionTakes
  <1>4. ASSUME NEW n \in ENode, electionEnds(n)
        PROVE  ElectionTypes'
    <2>1. election' \in [ENode -> [counted : 0 .. expectVotes, answers : Nat]]
      BY <1>4, NoElectionTypes DEF electionEnds
    <2>2. [node |-> n, term |-> term[n]] \in VoteRequest
      BY DEF VoteRequest
    <2>3. \/ leader' = leader /\ elected' = elected
          \/ /\ leader' = [leader EXCEPT ![n] = n]
             /\ elected' = elected \union {[node |-> n, term |-> term[n]]}
      <3>1. CASE election[n].counted >= expectVotes
        BY <1>4, <3>1 DEF electionEnds
      <3>2. CASE ~(election[n].counted >= expectVotes)
        BY <1>4, <3>2 DEF electionEnds
      <3> QED BY <3>1, <3>2
    <2>4. leader' \in [ENode -> ENode \union {Nobody}] /\ elected' \subseteq VoteRequest
      BY ZenonT(60), <2>2, <2>3
    <2> QED BY <1>4, <2>1, <2>4 DEF electionEnds
  <1>5. ASSUME NEW n \in ENode, runHealth(n)
        PROVE  ElectionTypes'
    <2>1. Head(health[n]) \in HealthCheck /\ Tail(health[n]) \in Seq(HealthCheck)
      BY <1>5 DEF runHealth
    <2>2. /\ Head(health[n]).term \in Term /\ Head(health[n]).leader \in ENode
          /\ Head(health[n]).nodes \in SUBSET ENode
      BY <2>1 DEF HealthCheck
    <2>3. health' \in [ENode -> Seq(HealthCheck)]
      BY <1>5, <2>1 DEF runHealth
    <2>4. term' \in [ENode -> Term] /\ leader' \in [ENode -> ENode \union {Nobody}]
      BY <1>5, <2>2 DEF runHealth
    <2>5. ring' \in [ENode -> SUBSET ENode] /\ skipped' \in [ENode -> BOOLEAN]
      BY <1>5, <2>2 DEF runHealth
    <2> QED BY <1>5, <2>3, <2>4, <2>5 DEF runHealth
  <1>6. ASSUME NEW n \in ENode, runVote(n)
        PROVE  ElectionTypes'
    <2>1. Head(votes[n]) \in VoteRequest /\ Tail(votes[n]) \in Seq(VoteRequest)
      BY <1>6 DEF runVote
    <2>2. Head(votes[n]).term \in Term /\ Head(votes[n]).node \in ENode
      BY <2>1 DEF VoteRequest
    <2>3. votes' \in [ENode -> Seq(VoteRequest)]
      BY <1>6, <2>1 DEF runVote
    <2>4. term' \in [ENode -> Term] /\ leader' \in [ENode -> ENode \union {Nobody}]
      BY <1>6, <2>2 DEF runVote, LeaderAfterVote
    <2>5. 0 \in Term /\ term[n] \in Term
      BY ElectionBounds DEF Term
    <2>6. voteReply(n, Head(votes[n])) \in VoteReply
      BY <2>2, <2>5 DEF VoteReply, VoteFor, Reaches, voteReply
    <2>7. replies' \subseteq VoteReply
      BY <1>6, <2>6, RepliesAfterVote
    <2> QED BY <1>6, <2>3, <2>4, <2>7 DEF runVote
  <1>7. ASSUME NEW n \in ENode, Cut(n)
        PROVE  ElectionTypes'
    BY <1>7 DEF Cut
  <1>8. ASSUME NEW n \in ENode, failoverInit(n)
        PROVE  ElectionTypes'
    <2>1. 0 \in Term /\ 0 \in 0 .. (NodeFailAfter + 1)
      BY ElectionBounds DEF Term
    <2>2. /\ term' \in [ENode -> Term] /\ leader' \in [ENode -> ENode \union {Nobody}]
          /\ election' \in [ENode -> [counted : 0 .. expectVotes, answers : Nat]]
      BY <1>8, <2>1, NoElectionTypes DEF failoverInit
    <2>3. active' \in [ENode -> SUBSET ENode] /\ ring' \in [ENode -> SUBSET ENode]
      BY <1>8 DEF failoverInit
    <2>4. failCount' \in [ENode -> [ENode -> 0 .. (NodeFailAfter + 1)]]
      BY <1>8, <2>1 DEF failoverInit
    <2>5. skipped' \in [ENode -> BOOLEAN] /\ health' \in [ENode -> Seq(HealthCheck)]
      BY <1>8 DEF failoverInit
    <2>6. votes' \in [ENode -> Seq(VoteRequest)] /\ replies' \subseteq VoteReply
      BY <1>8 DEF failoverInit
    <2>7. lapsed' \in Nat
      BY <1>8 DEF failoverInit, Term
    <2> QED BY <1>8, <2>2, <2>3, <2>4, <2>5, <2>6, <2>7 DEF failoverInit
  <1> QED
    BY <1>1, <1>2, <1>3, <1>4, <1>5, <1>6, <1>7, <1>8 DEF ElectionNext, electionStep

-----------------------------------------------------------------------------
\* sendHealthChecks adds at most the check of the leader at the end of a queue that has room.
LEMMA ChecksSent ==
    ASSUME ElectionTypes, NEW n \in ENode, sendHealthChecks(n), NEW m \in ENode
    PROVE  LET message == [leader |-> n, term |-> term[n], signature |-> ring[n], nodes |-> active[n]]
           IN  \/ health'[m] = health[m]
               \/ Len(health[m]) < HealthQueue /\ health'[m] = Append(health[m], message)
  BY DEF sendHealthChecks

\* Every step keeps the node on its own list and the queues within their capacity.
LEMMA ListsAndQueuesStep ==
    ASSUME ElectionTypes, ListsAndQueues, ElectionNext
    PROVE  ListsAndQueues'
  <1> USE DEF ElectionTypes, ListsAndQueues
  <1>1. ASSUME NEW n \in ENode, sendHealthChecks(n)
        PROVE  ListsAndQueues'
    <2> SUFFICES ASSUME NEW m \in ENode PROVE m \in active'[m] /\ Len(health'[m]) <= HealthQueue
      OBVIOUS
    <2>1. m \in active'[m]
      <3>1. active' = [active EXCEPT ![n] = active'[n]] /\ active'[n] \in {active[n], aliveNodes(n)}
        BY <1>1 DEF sendHealthChecks
      <3>2. m \in active[m] /\ n \in active[n] /\ n \in aliveNodes(n)
        BY AliveNodesAre
      <3> HIDE DEF ElectionTypes, ListsAndQueues
      <3>3. active \in [ENode -> SUBSET ENode]
        BY DEF ElectionTypes
      <3>4. CASE m = n
        BY <3>1, <3>2, <3>4
      <3>5. CASE m # n
        BY <3>1, <3>2, <3>3, <3>5
      <3> QED BY <3>4, <3>5
    <2> DEFINE message == [leader |-> n, term |-> term[n], signature |-> ring[n], nodes |-> active[n]]
    <2>2. \/ health'[m] = health[m]
          \/ Len(health[m]) < HealthQueue /\ health'[m] = Append(health[m], message)
      BY <1>1, ChecksSent
    <2>3. health[m] \in Seq(HealthCheck)
      OBVIOUS
    <2> HIDE DEF message
    <2>4. Len(Append(health[m], message)) = Len(health[m]) + 1 /\ Len(health[m]) \in Nat
      BY <2>3
    <2>5. Len(health'[m]) <= HealthQueue
      <3>1. Len(health[m]) <= HealthQueue /\ HealthQueue \in Nat
        BY ElectionBounds
      <3> HIDE DEF ElectionTypes, ListsAndQueues
      <3>2. CASE health'[m] = health[m]
        BY <3>1, <3>2
      <3>3. CASE Len(health[m]) < HealthQueue /\ health'[m] = Append(health[m], message)
        BY <2>4, <3>1, <3>3
      <3> QED BY <2>2, <3>2, <3>3
    <2> QED BY <2>1, <2>5
  <1>2. ASSUME NEW n \in ENode, runHealth(n)
        PROVE  ListsAndQueues'
    <2>1. Len(Tail(health[n])) <= HealthQueue
      <3>1. health[n] \in Seq(HealthCheck) /\ health[n] # <<>>
        BY <1>2 DEF runHealth
      <3>2. Len(Tail(health[n])) = Len(health[n]) - 1 /\ Len(health[n]) \in Nat
        BY <3>1
      <3> QED BY <3>2, ElectionBounds
    <2> QED BY <1>2, <2>1 DEF runHealth
  <1>3. ASSUME NEW n \in ENode, failoverInit(n)
        PROVE  ListsAndQueues'
    BY <1>3, ElectionBounds DEF failoverInit
  <1>4. ASSUME NEW n \in ENode, electLeader(n) \/ electionEnds(n) \/ runVote(n) \/ Cut(n)
        PROVE  ListsAndQueues'
    BY <1>4 DEF electLeader, electionEnds, runVote, Cut
  <1>5. ASSUME NEW n \in ENode, NEW r \in replies, electionTakes(n, r)
        PROVE  ListsAndQueues'
    BY <1>5 DEF electionTakes
  <1> QED
    BY <1>1, <1>2, <1>3, <1>4, <1>5 DEF ElectionNext, electionStep

-----------------------------------------------------------------------------
\* Whom a node follows and whom a queued check names: both were elected in the term shown.
Follows == FollowsTheElected /\ ChecksFromElected

\* Every step keeps the leaders and the checks elected ones.
LEMMA FollowsStep ==
    ASSUME ElectionTypes, Follows, ElectionNext
    PROVE  Follows'
  <1> USE DEF ElectionTypes, Follows, FollowsTheElected, ChecksFromElected
  <1>1. ASSUME NEW n \in ENode, sendHealthChecks(n)
        PROVE  Follows'
    <2>1. UNCHANGED <<term, leader, elected>> /\ leader[n] = n
      BY <1>1 DEF sendHealthChecks
    <2>2. FollowsTheElected'
      BY <2>1
    <2>3. ASSUME NEW m \in ENode, NEW i \in 1 .. Len(health'[m])
          PROVE  [node |-> health'[m][i].leader, term |-> health'[m][i].term] \in elected'
      <3> DEFINE message == [leader |-> n, term |-> term[n], signature |-> ring[n], nodes |-> active[n]]
      <3>1. \/ health'[m] = health[m]
            \/ health'[m] = Append(health[m], message)
        BY <1>1, ChecksSent
      <3>2. message.leader = n /\ message.term = term[n]
        OBVIOUS
      <3> HIDE DEF message
      <3>3. CASE health'[m] = health[m]
        BY <2>1, <2>3, <3>3
      <3>4. CASE health'[m] = Append(health[m], message)
        <4>1. health[m] \in Seq(HealthCheck)
          OBVIOUS
        <4>2. i \in 1 .. Len(health[m]) + 1 /\ Len(health[m]) \in Nat
          BY <2>3, <3>4, <4>1
        <4>3. CASE i = Len(health[m]) + 1
          <5>1. health'[m][i] = message
            BY <3>4, <4>1, <4>2, <4>3
          <5>2. [node |-> n, term |-> term[n]] \in elected
            <6>1. CASE n = Nobody
              BY <6>1, NobodyIsNoNode
            <6>2. CASE n # Nobody
              BY <2>1, <6>2
            <6> QED BY <6>1, <6>2
          <5> QED BY <2>1, <3>2, <5>1, <5>2
        <4>4. CASE i \in 1 .. Len(health[m])
          <5>1. health'[m][i] = health[m][i]
            BY <3>4, <4>1, <4>4
          <5> QED BY SMTT(30), <2>1, <4>4, <5>1
        <4> QED BY <4>2, <4>3, <4>4
      <3> QED BY <3>1, <3>3, <3>4
    <2> QED BY <2>2, <2>3
  <1>2. ASSUME NEW n \in ENode, electLeader(n)
        PROVE  Follows'
    BY <1>2 DEF electLeader
  <1>3. ASSUME NEW n \in ENode, NEW r \in replies, electionTakes(n, r)
        PROVE  Follows'
    BY <1>3 DEF electionTakes
  <1>4. ASSUME NEW n \in ENode, electionEnds(n)
        PROVE  Follows'
    <2>1. UNCHANGED <<term, health>>
      BY <1>4 DEF electionEnds
    <2>2. CASE election[n].counted >= expectVotes
      <3>1. /\ leader' = [leader EXCEPT ![n] = n]
            /\ elected' = elected \union {[node |-> n, term |-> term[n]]}
        BY <1>4, <2>2 DEF electionEnds
      <3> QED BY <2>1, <3>1
    <2>3. CASE ~(election[n].counted >= expectVotes)
      <3>1. UNCHANGED <<leader, elected>>
        BY <1>4, <2>3 DEF electionEnds
      <3> QED BY <2>1, <3>1
    <2> QED BY <2>2, <2>3
  <1>5. ASSUME NEW n \in ENode, runHealth(n)
        PROVE  Follows'
    <2> DEFINE h == Head(health[n])
    <2>1. health[n] \in Seq(HealthCheck) /\ health[n] # <<>>
      BY <1>5 DEF runHealth
    <2>2. h = health[n][1] /\ 1 \in 1 .. Len(health[n])
      BY <2>1
    <2>3. [node |-> h.leader, term |-> h.term] \in elected
      BY <2>2
    <2>4. elected' = elected /\ health' = [health EXCEPT ![n] = Tail(health[n])]
      BY <1>5 DEF runHealth
    <2> HIDE DEF h
    <2>5. \/ UNCHANGED <<term, leader>>
          \/ term' = [term EXCEPT ![n] = h.term] /\ leader' = [leader EXCEPT ![n] = h.leader]
      BY <1>5 DEF runHealth, h
    <2>6. FollowsTheElected'
      BY <2>3, <2>4, <2>5
    <2>7. ASSUME NEW m \in ENode, NEW i \in 1 .. Len(health'[m])
          PROVE  [node |-> health'[m][i].leader, term |-> health'[m][i].term] \in elected'
      <3>1. CASE m = n
        <4> DEFINE k == i + 1
        <4>1. k \in 1 .. Len(health[n]) /\ health'[n][i] = health[n][k]
          BY <2>1, <2>4, <2>7, <3>1
        <4> HIDE DEF k
        <4> QED BY <2>4, <3>1, <4>1
      <3>2. CASE m # n
        BY <2>4, <2>7, <3>2
      <3> QED BY <3>1, <3>2
    <2> QED BY <2>6, <2>7
  <1>6. ASSUME NEW n \in ENode, runVote(n)
        PROVE  Follows'
    <2>1. UNCHANGED <<health, elected>>
      BY <1>6 DEF runVote
    <2>2. \/ UNCHANGED <<term, leader>>
          \/ term' = [term EXCEPT ![n] = Head(votes[n]).term] /\ leader' = [leader EXCEPT ![n] = Nobody]
      <3>1. CASE VoteFor(n, Head(votes[n]))
        BY <1>6, <3>1 DEF runVote, LeaderAfterVote
      <3>2. CASE ~VoteFor(n, Head(votes[n]))
        BY <1>6, <3>2 DEF runVote
      <3> QED BY <3>1, <3>2
    <2> QED BY <2>1, <2>2
  <1>7. ASSUME NEW n \in ENode, Cut(n)
        PROVE  Follows'
    BY <1>7 DEF Cut
  <1>8. ASSUME NEW n \in ENode, failoverInit(n)
        PROVE  Follows'
    <2>1. /\ term' = [term EXCEPT ![n] = 0] /\ leader' = [leader EXCEPT ![n] = Nobody]
          /\ health' = [health EXCEPT ![n] = <<>>] /\ elected' = elected
      BY <1>8 DEF failoverInit
    <2>2. FollowsTheElected'
      BY <2>1
    <2>3. ChecksFromElected'
      BY <2>1
    <2> QED BY <2>2, <2>3
  <1> QED
    BY <1>1, <1>2, <1>3, <1>4, <1>5, <1>6, <1>7, <1>8 DEF ElectionNext, electionStep

-----------------------------------------------------------------------------
\* Every step keeps the answers awaited.
LEMMA RepliesStep ==
    ASSUME ElectionTypes, RepliesAreAwaited, ElectionNext
    PROVE  RepliesAreAwaited'
  <1> USE DEF RepliesAreAwaited, Leading
  <1>0. /\ replies \subseteq VoteReply
        /\ term \in [ENode -> Term] /\ DOMAIN election = ENode
        /\ \A r \in replies : r.to \in ENode
    BY DEF ElectionTypes, VoteReply
  <1>1. ASSUME NEW n \in ENode, sendHealthChecks(n) \/ Cut(n)
        PROVE  RepliesAreAwaited'
    BY <1>1 DEF sendHealthChecks, Cut
  <1>2. ASSUME NEW n \in ENode, electLeader(n)
        PROVE  RepliesAreAwaited'
    <2>1. \A r \in replies : r.to # n
      BY <1>2 DEF electLeader
    <2>2. /\ replies' = replies
          /\ \A m \in ENode \ {n} : term'[m] = term[m] /\ election'[m] = election[m]
      BY <1>0, <1>2 DEF electLeader
    <2> QED BY <1>0, <2>1, <2>2
  <1>3. ASSUME NEW n \in ENode, NEW r \in replies, electionTakes(n, r)
        PROVE  RepliesAreAwaited'
    <2>1. replies' \subseteq replies /\ term' = term
      BY <1>3 DEF electionTakes
    <2>2. \A m \in ENode \ {n} : election'[m] = election[m]
      BY <1>0, <1>3 DEF electionTakes
    <2>3. election'[n] # NoElection
      BY <1>3, TakingGoesOn
    <2> QED BY <1>0, <2>1, <2>2, <2>3
  <1>4. ASSUME NEW n \in ENode, electionEnds(n)
        PROVE  RepliesAreAwaited'
    <2>1. /\ replies' = {r \in replies : r.to # n} /\ term' = term
          /\ election' = [election EXCEPT ![n] = NoElection]
      BY <1>4 DEF electionEnds
    <2> QED BY <1>0, <2>1
  <1>5. ASSUME NEW n \in ENode, runHealth(n)
        PROVE  RepliesAreAwaited'
    <2>1. \A r \in replies : r.to # n
      BY <1>5 DEF runHealth
    <2>2. /\ replies' = replies /\ election' = election
          /\ \A m \in ENode \ {n} : term'[m] = term[m]
      BY <1>0, <1>5 DEF runHealth
    <2> QED BY <1>0, <2>1, <2>2
  <1>6. ASSUME NEW n \in ENode, runVote(n)
        PROVE  RepliesAreAwaited'
    <2> DEFINE v == Head(votes[n])
    <2>1. v \in VoteRequest
      BY <1>6 DEF runVote, ElectionTypes
    <2>2. v.node \in ENode /\ v.term \in Term
      BY <2>1 DEF VoteRequest
    <2>3. \A r \in replies : r.to # n
      BY <1>6 DEF runVote
    <2>4. /\ election' = election /\ election[n] = NoElection
          /\ \A m \in ENode \ {n} : term'[m] = term[m]
      BY <1>0, <1>6 DEF runVote
    <2>5. \A r \in replies : Leading(r.to)' /\ r.asked = term'[r.to] /\ (r.result => r.term = r.asked)
      BY <1>0, <2>3, <2>4
    <2>6. CASE replies' = replies
      BY <2>5, <2>6
    <2>7. CASE Awaited(v) /\ replies' = replies \union {voteReply(n, v)}
      <3> DEFINE a == voteReply(n, v)
      <3>1. a.to = v.node /\ a.asked = v.term /\ (a.result => a.term = a.asked)
        BY VoteReplyIs
      <3> HIDE DEF v
      <3>2. Leading(v.node) /\ term[v.node] = v.term
        BY <2>7 DEF Awaited
      <3>3. v.node # n /\ election'[v.node] # NoElection /\ v.term = term'[v.node]
        BY <2>2, <2>4, <3>2
      <3> HIDE DEF a
      <3>4. \A r \in {a} : election'[r.to] # NoElection /\ r.asked = term'[r.to] /\ (r.result => r.term = r.asked)
        BY <3>1, <3>3
      <3> QED BY <2>5, <2>7, <3>4 DEF a
    <2> QED BY <1>6, <2>6, <2>7, RepliesAfterVote
  <1>7. ASSUME NEW n \in ENode, failoverInit(n)
        PROVE  RepliesAreAwaited'
    <2>1. /\ replies' = {r \in replies : r.to # n} /\ term' = [term EXCEPT ![n] = 0]
          /\ election' = [election EXCEPT ![n] = NoElection]
      BY <1>7 DEF failoverInit
    <2> QED BY <1>0, <2>1
  <1> QED
    BY <1>1, <1>2, <1>3, <1>4, <1>5, <1>6, <1>7 DEF ElectionNext, electionStep

-----------------------------------------------------------------------------
\* Ballots differ where a part differs.
LEMMA BallotParts ==
    ASSUME NEW m, NEW t, NEW n
    PROVE  Ballot(m, t, n).voter = m /\ Ballot(m, t, n).term = t /\ Ballot(m, t, n).node = n
  BY DEF Ballot

\* A voter that enters a term it has not seen may cast a ballot in it: no ballot of its own
\* is in the way.
LEMMA MayCast ==
    ASSUME ElectionTypes, NEW b, NEW c, Explains(b, c),
           NEW m \in ENode, NEW t \in Term, NEW n \in ENode, term[m] < t,
           \A k \in ENode : term'[k] = IF k = m THEN t ELSE term[k]
    PROVE  LET d == b \union {Ballot(m, t, n)}
           IN  /\ d \subseteq [voter : ENode, term : Term, node : ENode]
               /\ \A x \in d : x.term <= term'[x.voter]
               /\ \A x, y \in d : x.voter = y.voter /\ x.term = y.term => x.node = y.node
  <1> DEFINE z == Ballot(m, t, n)
             d == b \union {z}
  <1>1. z \in [voter : ENode, term : Term, node : ENode]
    BY DEF Ballot
  <1>2. z.voter = m /\ z.term = t /\ z.node = n
    BY BallotParts
  <1> HIDE DEF z
  <1>3. b \subseteq [voter : ENode, term : Term, node : ENode]
    BY DEF Explains
  <1>4. \A x \in b : x.voter \in ENode /\ x.term \in Int /\ x.term <= term[x.voter]
    BY <1>3 DEF Explains, Term
  <1>5. t \in Int /\ \A k \in ENode : term[k] \in Int
    BY DEF ElectionTypes, Term
  <1>6. \A x \in b : x.voter = m => x.term < t
    BY <1>4, <1>5
  <1>7. \A x \in d : x.term <= term'[x.voter]
    <2> SUFFICES ASSUME NEW x \in d PROVE x.term <= term'[x.voter]
      OBVIOUS
    <2>1. CASE x = z
      BY <1>2, <1>5, <2>1
    <2>2. CASE x \in b
      <3>1. CASE x.voter = m
        BY <1>4, <1>5, <1>6, <2>2, <3>1
      <3>2. CASE x.voter # m
        BY <1>4, <2>2, <3>2
      <3> QED BY <3>1, <3>2
    <2> QED BY <2>1, <2>2
  <1>8. \A x, y \in d : x.voter = y.voter /\ x.term = y.term => x.node = y.node
    <2> SUFFICES ASSUME NEW x \in d, NEW y \in d, x.voter = y.voter, x.term = y.term
                 PROVE  x.node = y.node
      OBVIOUS
    <2>1. CASE x \in b /\ y \in b
      BY <2>1 DEF Explains
    <2>2. CASE x = z /\ y \in b
      BY <1>2, <1>4, <1>5, <1>6, <2>2
    <2>3. CASE x \in b /\ y = z
      BY <1>2, <1>4, <1>5, <1>6, <2>3
    <2> QED BY <2>1, <2>2, <2>3
  <1> QED BY <1>1, <1>3, <1>7, <1>8 DEF z

\* A step without a ballot and without a vote counted keeps the explanation: no term falls
\* back, no yes is new, and the elections that are led afterwards are led as before.
LEMMA NothingCast ==
    ASSUME ElectionTypes, NEW b, NEW c, Explains(b, c), lapsed' = lapsed,
           \A k \in ENode : term[k] <= term'[k] /\ term'[k] \in Term,
           \A r \in replies' : r.result => r \in replies,
           \A n \in ENode : Leading(n)' => /\ Leading(n) /\ term'[n] = term[n]
                                           /\ election'[n] = election[n],
           \A x \in elected' : x \notin elected /\ lapsed < x.term => \E Q \in SUBSET ENode :
               Cardinality(Q) >= expectVotes /\ \A m \in Q : Ballot(m, x.term, x.node) \in b
    PROVE  Explains(b, c)'
  <1> USE DEF Explains
  <1>1. \A x \in b : x.term <= term'[x.voter]
    <2> SUFFICES ASSUME NEW x \in b PROVE x.term <= term'[x.voter]
      OBVIOUS
    <2>1. x.voter \in ENode /\ x.term \in Int /\ x.term <= term[x.voter]
      BY DEF Term
    <2>2. term[x.voter] \in Int /\ term'[x.voter] \in Int /\ term[x.voter] <= term'[x.voter]
      BY <2>1 DEF ElectionTypes, Term
    <2> QED BY <2>1, <2>2
  <1>2. \A r \in replies' : r.result /\ lapsed' < r.asked =>
           Ballot(r.from, r.asked, r.to) \in b /\ r.from \notin c[r.to]
    OBVIOUS
  <1>3. \A n \in ENode : Leading(n)' /\ lapsed' < term'[n] => Cardinality(c[n]) = election'[n].counted
    OBVIOUS
  <1>4. \A n \in ENode : Leading(n)' /\ lapsed' < term'[n] => \A m \in c[n] : Ballot(m, term'[n], n) \in b
    OBVIOUS
  <1>5. \A x \in elected' : lapsed' < x.term => \E Q \in SUBSET ENode :
           Cardinality(Q) >= expectVotes /\ \A m \in Q : Ballot(m, x.term, x.node) \in b
    OBVIOUS
  <1>6. expectVotes' = expectVotes
    BY DEF expectVotes
  <1> QED BY <1>1, <1>2, <1>3, <1>4, <1>5, <1>6 DEF Ballot

\* electLeader casts the ballot of the candidate, which is the first vote counted.
LEMMA CandidateVotes ==
    ASSUME ElectionTypes, RepliesAreAwaited, NEW b, NEW c, Explains(b, c),
           NEW n \in ENode, electLeader(n)
    PROVE  \E d, e : Explains(d, e)'
  <1>1. PICK t : t = term[n] + 1
    OBVIOUS
  <1>2. t \in Term /\ term[n] < t
    BY <1>1, ElectionBounds DEF electLeader, ElectionTypes, Term
  <1>3. \A k \in ENode : term'[k] = IF k = n THEN t ELSE term[k]
    BY <1>1 DEF electLeader, ElectionTypes
  <1> DEFINE d == b \union {Ballot(n, t, n)}
             e == [c EXCEPT ![n] = {n}]
  <1>4. /\ d \subseteq [voter : ENode, term : Term, node : ENode]
        /\ \A x \in d : x.term <= term'[x.voter]
        /\ \A x, y \in d : x.voter = y.voter /\ x.term = y.term => x.node = y.node
    BY <1>2, <1>3, MayCast
  <1>5. e \in [ENode -> SUBSET ENode]
    BY DEF Explains
  <1>6. \A k \in ENode : e[k] = IF k = n THEN {n} ELSE c[k]
    BY DEF Explains
  <1>7. b \subseteq d /\ Ballot(n, t, n) \in d
    OBVIOUS
  <1> HIDE DEF d, e
  <1>8. /\ replies' = replies /\ elected' = elected
        /\ \A k \in ENode : k # n => election'[k] = election[k]
        /\ election'[n].counted = 1 /\ lapsed' = lapsed
    BY DEF electLeader, ElectionTypes
  <1>9. \A r \in replies' : r.result /\ lapsed' < r.asked =>
           Ballot(r.from, r.asked, r.to) \in d /\ r.from \notin e[r.to]
    <2> SUFFICES ASSUME NEW r \in replies, r.result, lapsed < r.asked
                 PROVE  Ballot(r.from, r.asked, r.to) \in d /\ r.from \notin e[r.to]
      BY <1>8
    <2>1. r.to \in ENode /\ r.to # n
      BY DEF RepliesAreAwaited, electLeader, ElectionTypes, VoteReply
    <2>2. Ballot(r.from, r.asked, r.to) \in b /\ r.from \notin c[r.to]
      BY DEF Explains
    <2> QED BY <1>6, <1>7, <2>1, <2>2
  <1>10. \A k \in ENode : Leading(k)' /\ lapsed' < term'[k] => Cardinality(e[k]) = election'[k].counted
    <2>1. Cardinality({n}) = 1
      BY FS_Singleton
    <2> QED BY <1>3, <1>6, <1>8, <2>1 DEF Explains, Leading
  <1>11. \A k \in ENode : Leading(k)' /\ lapsed' < term'[k] => \A m \in e[k] : Ballot(m, term'[k], k) \in d
    BY <1>3, <1>6, <1>7, <1>8 DEF Explains, Leading
  <1>12. \A x \in elected' : lapsed' < x.term => \E Q \in SUBSET ENode :
           Cardinality(Q) >= expectVotes /\ \A m \in Q : Ballot(m, x.term, x.node) \in d
    BY <1>7, <1>8 DEF Explains
  <1>13. Explains(d, e)'
    BY <1>4, <1>5, <1>9, <1>10, <1>11, <1>12 DEF Explains, expectVotes, Ballot
  <1> QED BY <1>13

\* A yes is cast as a ballot at the moment it is given.
LEMMA VoterVotes ==
    ASSUME ElectionTypes, RepliesAreAwaited, NEW b, NEW c, Explains(b, c),
           NEW n \in ENode, runVote(n), VoteFor(n, Head(votes[n]))
    PROVE  \E d, e : Explains(d, e)'
  <1>1. PICK v : v = Head(votes[n])
    OBVIOUS
  <1>2. v \in VoteRequest
    BY <1>1 DEF runVote, ElectionTypes
  <1>3. v.node \in ENode /\ v.term \in Term /\ term[n] < v.term
    BY <1>1, <1>2 DEF VoteRequest, VoteFor
  <1>4. \A k \in ENode : term'[k] = IF k = n THEN v.term ELSE term[k]
    BY <1>1 DEF runVote, ElectionTypes
  <1> DEFINE d == b \union {Ballot(n, v.term, v.node)}
  <1>5. /\ d \subseteq [voter : ENode, term : Term, node : ENode]
        /\ \A x \in d : x.term <= term'[x.voter]
        /\ \A x, y \in d : x.voter = y.voter /\ x.term = y.term => x.node = y.node
    BY <1>3, <1>4, MayCast
  <1>6. b \subseteq d /\ Ballot(n, v.term, v.node) \in d
    OBVIOUS
  <1> HIDE DEF d
  <1>7. elected' = elected /\ election' = election /\ lapsed' = lapsed /\ ~Leading(n)
    BY DEF runVote
  <1>8. \/ replies' = replies
        \/ Awaited(v) /\ replies' = replies \union {voteReply(n, v)}
    BY <1>1, RepliesAfterVote
  <1>9. \A r \in replies' : r.result /\ lapsed' < r.asked =>
           Ballot(r.from, r.asked, r.to) \in d /\ r.from \notin c[r.to]
    <2> SUFFICES ASSUME NEW r \in replies', r.result, lapsed < r.asked
                 PROVE  Ballot(r.from, r.asked, r.to) \in d /\ r.from \notin c[r.to]
      BY <1>7
    <2>1. CASE r \in replies
      BY <1>6, <2>1 DEF Explains
    <2>2. CASE Awaited(v) /\ r = voteReply(n, v)
      <3>1. r.to = v.node /\ r.from = n /\ r.asked = v.term
        BY <2>2, VoteReplyIs
      <3>2. Leading(v.node) /\ term[v.node] = v.term
        BY <2>2 DEF Awaited
      <3>3. ASSUME n \in c[v.node]
            PROVE  FALSE
        <4>1. Ballot(n, v.term, v.node) \in b
          BY <1>3, <3>1, <3>2, <3>3 DEF Explains
        <4>2. v.term <= term[n]
          BY <4>1, BallotParts DEF Explains
        <4> QED BY <1>3, <4>2 DEF ElectionTypes, Term
      <3> QED BY <1>6, <3>1, <3>3
    <2> QED BY <1>8, <2>1, <2>2
  <1>10. \A k \in ENode : Leading(k)' /\ lapsed' < term'[k] => Cardinality(c[k]) = election'[k].counted
    BY <1>4, <1>7 DEF Explains, Leading
  <1>11. \A k \in ENode : Leading(k)' /\ lapsed' < term'[k] => \A m \in c[k] : Ballot(m, term'[k], k) \in d
    BY <1>4, <1>6, <1>7 DEF Explains, Leading
  <1>12. \A x \in elected' : lapsed' < x.term => \E Q \in SUBSET ENode :
           Cardinality(Q) >= expectVotes /\ \A m \in Q : Ballot(m, x.term, x.node) \in d
    BY <1>6, <1>7 DEF Explains
  <1>13. Explains(d, c)'
    BY <1>5, <1>9, <1>10, <1>11, <1>12 DEF Explains, expectVotes, Ballot
  <1> QED BY <1>13

\* The wait counts a yes once: its voter was not counted before and no other yes of the
\* same voter is on its way.
LEMMA VoteIsCounted ==
    ASSUME ElectionTypes, RepliesAreAwaited, NEW b, NEW c, Explains(b, c),
           NEW n \in ENode, NEW r \in replies, electionTakes(n, r)
    PROVE  \E e : Explains(b, e)'
  <1>1. PICK C \in SUBSET ENode :
            C = IF r.result THEN c[n] \union {r.from}
                ELSE IF election'[n].counted = election[n].counted THEN c[n] ELSE {}
    BY DEF Explains, ElectionTypes, VoteReply
  <1> DEFINE e == [c EXCEPT ![n] = C]
  <1>2. e \in [ENode -> SUBSET ENode] /\ \A k \in ENode : e[k] = IF k = n THEN C ELSE c[k]
    BY DEF Explains
  <1> HIDE DEF e
  <1>3. /\ Leading(n) /\ r.to = n /\ r.asked = term[n] /\ r \in VoteReply
        /\ replies' = replies \ {r} /\ term' = term /\ elected' = elected /\ lapsed' = lapsed
        /\ \A k \in ENode : k # n => election'[k] = election[k]
    BY DEF electionTakes, ElectionTypes
  <1>4. r.result /\ lapsed < term[n] => Ballot(r.from, term[n], n) \in b /\ r.from \notin c[n]
    BY <1>3 DEF Explains
  <1>5. c[n] \in SUBSET ENode /\ (lapsed < term[n] => Cardinality(c[n]) = election[n].counted)
    BY <1>3 DEF Explains
  <1>6. ASSUME lapsed < term[n]
        PROVE  Cardinality(C) = election'[n].counted
    <2>1. CASE r.result
      <3>1. election'[n].counted = election[n].counted + 1
        BY <2>1, TakingGoesOn
      <3>2. IsFiniteSet(c[n])
        BY <1>5, VotersAreFinite
      <3>3. Cardinality(c[n] \union {r.from}) = Cardinality(c[n]) + 1
        BY <1>4, <1>6, <2>1, <3>2, FS_AddElement
      <3> QED BY <1>1, <1>5, <1>6, <2>1, <3>1, <3>3
    <2>2. CASE ~r.result
      <3>1. election'[n].counted \in {0, election[n].counted}
        BY <2>2, TakingGoesOn
      <3>2. Cardinality({}) = 0
        BY FS_EmptySet
      <3> QED BY <1>1, <1>5, <1>6, <2>2, <3>1, <3>2
    <2> QED BY <2>1, <2>2
  <1>7. lapsed < term[n] => \A m \in C : Ballot(m, term[n], n) \in b
    BY <1>1, <1>3, <1>4 DEF Explains
  <1>8. \A x \in replies' : x.result /\ lapsed' < x.asked =>
           Ballot(x.from, x.asked, x.to) \in b /\ x.from \notin e[x.to]
    <2> SUFFICES ASSUME NEW x \in replies, x # r, x.result, lapsed < x.asked
                 PROVE  Ballot(x.from, x.asked, x.to) \in b /\ x.from \notin e[x.to]
      BY <1>3
    <2>1. Ballot(x.from, x.asked, x.to) \in b /\ x.from \notin c[x.to] /\ x \in VoteReply
      BY DEF Explains, ElectionTypes
    <2>2. x.to \in ENode
      BY <2>1 DEF VoteReply
    <2>3. CASE x.to # n
      BY <1>2, <2>1, <2>2, <2>3
    <2>4. CASE x.to = n /\ r.result
      <3>1. x.asked = term[n] /\ x.term = x.asked /\ r.term = r.asked
        BY <2>4 DEF RepliesAreAwaited
      <3>2. x.result = r.result
        BY <1>3, <2>1, <2>4 DEF VoteReply
      <3>3. x.from # r.from
        BY <1>3, <2>1, <2>4, <3>1, <3>2 DEF VoteReply
      <3> QED BY <1>1, <1>2, <2>1, <2>4, <3>3
    <2>5. CASE x.to = n /\ ~r.result
      BY <1>1, <1>2, <2>1, <2>5
    <2> QED BY <2>3, <2>4, <2>5
  <1>9. \A k \in ENode : Leading(k)' /\ lapsed' < term'[k] => Cardinality(e[k]) = election'[k].counted
    BY <1>2, <1>3, <1>6 DEF Explains, Leading
  <1>10. \A k \in ENode : Leading(k)' /\ lapsed' < term'[k] => \A m \in e[k] : Ballot(m, term'[k], k) \in b
    BY <1>2, <1>3, <1>7 DEF Explains, Leading
  <1>11. Explains(b, e)'
    BY <1>2, <1>3, <1>8, <1>9, <1>10 DEF Explains, expectVotes, Ballot
  <1> QED BY <1>11

\* A restart forgets the ballots of the process, and with them all of their terms.
LEMMA RestartForgets ==
    ASSUME ElectionTypes, NEW b, NEW c, Explains(b, c), NEW n \in ENode, failoverInit(n)
    PROVE  \E d, e : Explains(d, e)'
  <1>0. PICK d : d = {x \in b : lapsed' < x.term}
    OBVIOUS
  <1>1. /\ \A k \in ENode : term'[k] = IF k = n THEN 0 ELSE term[k]
        /\ replies' \subseteq replies /\ elected' = elected
        /\ \A k \in ENode : election'[k] = IF k = n THEN NoElection ELSE election[k]
    BY DEF failoverInit, ElectionTypes
  <1>2. lapsed \in Nat /\ term[n] \in Nat /\ lapsed' \in Nat /\ lapsed <= lapsed' /\ term[n] <= lapsed'
    <2>1. lapsed \in Nat /\ term[n] \in Nat
      BY DEF ElectionTypes, Term
    <2>2. lapsed' = IF term[n] > lapsed THEN term[n] ELSE lapsed
      BY DEF failoverInit
    <2> QED BY <2>1, <2>2
  <1>3. \A t \in Term : lapsed' < t => lapsed < t
    BY <1>2 DEF Term
  <1>4. b \subseteq [voter : ENode, term : Term, node : ENode] /\ c \in [ENode -> SUBSET ENode]
    BY DEF Explains
  <1>5. \A x \in d : x.voter # n /\ x.term <= term'[x.voter]
    <2> SUFFICES ASSUME NEW x \in b, lapsed' < x.term PROVE x.voter # n /\ x.term <= term'[x.voter]
      BY <1>0
    <2>1. x.voter \in ENode /\ x.term \in Int /\ x.term <= term[x.voter]
      BY <1>4 DEF Explains, Term
    <2>2. x.voter # n
      BY <1>2, <2>1
    <2> QED BY <1>1, <2>1, <2>2
  <1>6. \A m, t, k : Ballot(m, t, k) \in b /\ lapsed' < t => Ballot(m, t, k) \in d
    BY <1>0, BallotParts
  <1>7. /\ d \subseteq [voter : ENode, term : Term, node : ENode]
        /\ \A x, y \in d : x.voter = y.voter /\ x.term = y.term => x.node = y.node
    BY <1>0, <1>4 DEF Explains
  <1>8. \A r \in replies' : r.result /\ lapsed' < r.asked =>
           Ballot(r.from, r.asked, r.to) \in d /\ r.from \notin c[r.to]
    <2> SUFFICES ASSUME NEW r \in replies, r.result, lapsed' < r.asked
                 PROVE  Ballot(r.from, r.asked, r.to) \in d /\ r.from \notin c[r.to]
      BY <1>1
    <2>1. r.asked \in Term
      BY DEF ElectionTypes, VoteReply
    <2>2. Ballot(r.from, r.asked, r.to) \in b /\ r.from \notin c[r.to]
      BY <1>3, <2>1 DEF Explains
    <2> QED BY <1>6, <2>2
  <1>9. ASSUME NEW k \in ENode, Leading(k)', lapsed' < term'[k]
        PROVE  /\ Cardinality(c[k]) = election'[k].counted
               /\ \A m \in c[k] : Ballot(m, term'[k], k) \in d
    <2>1. k # n
      BY <1>1, <1>9 DEF Leading
    <2>2. Leading(k) /\ term'[k] = term[k] /\ election'[k] = election[k] /\ term[k] \in Term
      BY <1>1, <1>9, <2>1 DEF Leading, ElectionTypes
    <2>3. lapsed < term[k] /\ lapsed' < term[k]
      BY <1>3, <1>9, <2>2
    <2> QED BY <1>6, <2>2, <2>3 DEF Explains
  <1>10. \A x \in elected' : lapsed' < x.term => \E Q \in SUBSET ENode :
           Cardinality(Q) >= expectVotes /\ \A m \in Q : Ballot(m, x.term, x.node) \in d
    <2> SUFFICES ASSUME NEW x \in elected, lapsed' < x.term
                 PROVE  \E Q \in SUBSET ENode :
                            Cardinality(Q) >= expectVotes /\ \A m \in Q : Ballot(m, x.term, x.node) \in d
      BY <1>1
    <2>1. x.term \in Term
      BY DEF ElectionTypes, VoteRequest
    <2>2. PICK Q \in SUBSET ENode :
              Cardinality(Q) >= expectVotes /\ \A m \in Q : Ballot(m, x.term, x.node) \in b
      BY <1>3, <2>1 DEF Explains
    <2> QED BY <1>6, <2>2
  <1>11. Explains(d, c)'
    BY <1>4, <1>5, <1>7, <1>8, <1>9, <1>10 DEF Explains, expectVotes, Ballot
  <1> QED BY <1>11

\* Every step keeps the state explained.
LEMMA VotesStep ==
    ASSUME ElectionTypes, ElectionTypes', RepliesAreAwaited, VotesAreExplained, ElectionNext
    PROVE  VotesAreExplained'
  <1> SUFFICES \E d, e : Explains(d, e)'
    BY DEF VotesAreExplained
  <1>1. PICK b, c : Explains(b, c)
    BY DEF VotesAreExplained
  <1>2. \A k \in ENode : term[k] \in Int /\ term'[k] \in Term
    BY DEF ElectionTypes, Term
  <1>3. ASSUME NEW n \in ENode, sendHealthChecks(n) \/ Cut(n)
        PROVE  Explains(b, c)'
    <2>1. UNCHANGED <<term, replies, election, elected, lapsed>>
      BY <1>3 DEF sendHealthChecks, Cut
    <2> QED BY <1>1, <1>2, <2>1, NothingCast DEF Leading
  <1>4. ASSUME NEW n \in ENode, electionEnds(n)
        PROVE  Explains(b, c)'
    <2>1. /\ term' = term /\ replies' \subseteq replies /\ Leading(n) /\ lapsed' = lapsed
          /\ election' = [election EXCEPT ![n] = NoElection]
      BY <1>4 DEF electionEnds
    <2>2. ASSUME NEW x \in elected', x \notin elected, lapsed < x.term
          PROVE  \E Q \in SUBSET ENode :
                     Cardinality(Q) >= expectVotes /\ \A m \in Q : Ballot(m, x.term, x.node) \in b
      <3>1. x = [node |-> n, term |-> term[n]] /\ election[n].counted >= expectVotes
        BY <1>4, <2>2 DEF electionEnds
      <3>2. x.node = n /\ x.term = term[n]
        BY <3>1
      <3>3. c[n] \in SUBSET ENode /\ Cardinality(c[n]) >= expectVotes
        BY <1>1, <2>1, <2>2, <3>1, <3>2 DEF Explains
      <3>4. \A m \in c[n] : Ballot(m, x.term, x.node) \in b
        BY <1>1, <2>1, <2>2, <3>2 DEF Explains
      <3> QED BY <3>3, <3>4
    <2>3. \A k \in ENode : Leading(k)' => k # n /\ Leading(k) /\ election'[k] = election[k]
      BY <2>1 DEF Leading, ElectionTypes
    <2> QED BY <1>1, <1>2, <2>1, <2>2, <2>3, NothingCast
  <1>5. ASSUME NEW n \in ENode, runHealth(n)
        PROVE  Explains(b, c)'
    <2>1. UNCHANGED <<replies, election, elected, lapsed>> /\ ~Leading(n)
      BY <1>5 DEF runHealth
    <2>2. Head(health[n]) \in HealthCheck
      BY <1>5 DEF runHealth, ElectionTypes
    <2>3. Head(health[n]).term \in Int
      BY <2>2 DEF HealthCheck, Term
    <2>4. \A k \in ENode : k # n => term'[k] = term[k]
      BY <1>5 DEF runHealth, ElectionTypes
    <2>5. term[n] <= term'[n]
      <3>1. CASE Head(health[n]).term < term[n]
        BY <1>2, <1>5, <3>1 DEF runHealth
      <3>2. CASE ~(Head(health[n]).term < term[n])
        <4>1. term'[n] = Head(health[n]).term
          BY <1>5, <3>2 DEF runHealth, ElectionTypes
        <4> QED BY <1>2, <2>3, <3>2, <4>1
      <3> QED BY <3>1, <3>2
    <2>6. \A k \in ENode : term[k] <= term'[k]
      BY <1>2, <2>4, <2>5
    <2> QED BY <1>1, <1>2, <2>1, <2>4, <2>6, NothingCast DEF Leading
  <1>6. ASSUME NEW n \in ENode, runVote(n), ~VoteFor(n, Head(votes[n]))
        PROVE  Explains(b, c)'
    <2>1. UNCHANGED <<election, elected, lapsed>> /\ \A k \in ENode : term'[k] = term[k]
      BY <1>6 DEF runVote, ElectionTypes
    <2>2. \A x \in replies' : x.result => x \in replies
      BY <1>6, RepliesAfterVote, VoteReplyIs
    <2> QED BY <1>1, <1>2, <2>1, <2>2, NothingCast DEF Leading
  <1> QED
    BY <1>1, <1>3, <1>4, <1>5, <1>6, CandidateVotes, VoterVotes, VoteIsCounted, RestartForgets
       DEF ElectionNext, electionStep

-----------------------------------------------------------------------------
\* The invariant holds initially: nobody has voted.
LEMMA ElectionInvInit == ElectionInit => ElectionInv
  <1> SUFFICES ASSUME ElectionInit PROVE ElectionInv
    OBVIOUS
  <1>1. ElectionTypes
    BY ElectionTypesInit
  <1>2. ListsAndQueues /\ FollowsTheElected /\ ChecksFromElected /\ RepliesAreAwaited
    BY ElectionBounds DEF ElectionInit, ListsAndQueues, FollowsTheElected, ChecksFromElected,
                          RepliesAreAwaited
  <1>3. Explains({}, [n \in ENode |-> {}])
    BY DEF ElectionInit, Explains, Leading
  <1> QED BY <1>1, <1>2, <1>3 DEF ElectionInv, VotesAreExplained

\* Every step keeps the invariant.
LEMMA ElectionInvStep == ElectionInv /\ [ElectionNext]_electionVars => ElectionInv'
  <1>1. ASSUME ElectionInv, ElectionNext
        PROVE  ElectionInv'
    <2>1. ElectionTypes'
      BY <1>1, ElectionTypesStep DEF ElectionInv
    <2>2. ListsAndQueues' /\ RepliesAreAwaited'
      BY <1>1, ListsAndQueuesStep, RepliesStep DEF ElectionInv
    <2>3. FollowsTheElected' /\ ChecksFromElected'
      BY <1>1, FollowsStep DEF ElectionInv, Follows
    <2>4. VotesAreExplained'
      BY <1>1, <2>1, VotesStep DEF ElectionInv
    <2> QED BY <2>1, <2>2, <2>3, <2>4 DEF ElectionInv
  <1>2. ASSUME ElectionInv, UNCHANGED electionVars
        PROVE  ElectionInv'
    <2>1. UNCHANGED <<term, leader, election, active, ring, failCount, skipped, health,
                      votes, replies, isolated, elected, lapsed>>
      BY <1>2 DEF electionVars
    <2>2. ElectionTypes' /\ ListsAndQueues' /\ FollowsTheElected' /\ ChecksFromElected'
      BY <1>2, <2>1 DEF ElectionInv, ElectionTypes, ListsAndQueues, FollowsTheElected,
                        ChecksFromElected, expectVotes
    <2>3. RepliesAreAwaited'
      BY <1>2, <2>1 DEF ElectionInv, RepliesAreAwaited, Leading
    <2>4. ASSUME NEW b, NEW c, Explains(b, c)
          PROVE  Explains(b, c)'
      BY <2>1, <2>4 DEF Explains, Leading, expectVotes, Ballot
    <2>5. VotesAreExplained'
      BY <1>2, <2>1, <2>4 DEF ElectionInv, VotesAreExplained
    <2> QED BY <2>2, <2>3, <2>5 DEF ElectionInv
  <1> QED BY <1>1, <1>2

\* The invariant implies what the run checks: two that were elected in a term have a voter
\* in common, who voted for one of them only.
LEMMA ElectionInvImplies == ElectionInv => ElectionSafe
  <1> SUFFICES ASSUME ElectionInv PROVE ElectionSafe
    OBVIOUS
  <1>1. ElectionTypeOK
    BY DEF ElectionInv, ElectionTypes, ListsAndQueues, ElectionTypeOK, Term
  <1>2. ASSUME NEW x \in elected, NEW y \in elected, x.term = y.term, lapsed < x.term
        PROVE  x.node = y.node
    <2>1. PICK b, c : Explains(b, c)
      BY <1>2 DEF ElectionInv, VotesAreExplained
    <2>2. PICK P \in SUBSET ENode :
              Cardinality(P) >= expectVotes /\ \A m \in P : Ballot(m, x.term, x.node) \in b
      BY <1>2, <2>1 DEF Explains
    <2>3. PICK Q \in SUBSET ENode :
              Cardinality(Q) >= expectVotes /\ \A m \in Q : Ballot(m, y.term, y.node) \in b
      BY <1>2, <2>1 DEF Explains
    <2>4. PICK m \in ENode : m \in P /\ m \in Q
      BY <2>2, <2>3, MajoritiesMeet
    <2>5. Ballot(m, x.term, x.node) \in b /\ Ballot(m, y.term, y.node) \in b
      BY <2>2, <2>3, <2>4
    <2> QED BY <1>2, <2>1, <2>5, BallotParts DEF Explains
  <1>3. OneLeaderPerTerm
    BY <1>2 DEF OneLeaderPerTerm
  <1> QED BY <1>1, <1>3 DEF ElectionInv, ElectionSafe

\* The election of a cluster without etcd keeps its types and queues, elects at most one
\* leader in a term that no process has forgotten by a restart, and every node follows only a leader
\* that was elected in its own term (cluster_leader.go: electLeader, run, Vote, Health).
THEOREM ElectionIsSafe == ElectionSpec => []ElectionSafe
  BY ElectionInvInit, ElectionInvStep, ElectionInvImplies, PTL DEF ElectionSpec

=============================================================================
