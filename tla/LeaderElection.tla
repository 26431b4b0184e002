--------------------------- MODULE LeaderElection ---------------------------
(***************************************************************************)
(* The election in memory that a cluster without etcd uses: terms, votes,  *)
(* health checks of the leader and the ring the followers take from them.  *)
(*                                                                         *)
(* Each node runs one loop; while it leads an election the loop answers    *)
(* nobody. A call to a node behind a cut link fails at once. Heartbeats    *)
(* are not counted: a follower may miss its leader at any time.            *)
(***************************************************************************)
EXTENDS Naturals, Sequences, FiniteSets

CONSTANTS
    ENode,        \* all configured nodes
    NodeFailAfter,\* failed health checks after which a node is left out
    HealthQueue,  \* capacity of healthCheck
    MaxTerm,      \* bound: terms
    MaxTrouble    \* bound: changes of the network and restarts

ASSUME ElectionAssumption ==
    /\ IsFiniteSet(ENode)
    /\ {NodeFailAfter, HealthQueue} \subseteq Nat \ {0}
    /\ {MaxTerm, MaxTrouble} \subseteq Nat

VARIABLES
    term,      \* fo.term
    leader,    \* fo.leader
    election,  \* the election a node leads: votes and answers so far, or none
    active,    \* fo.activeNodes
    ring,      \* the nodes of the ring a node uses
    failCount, \* of a node for each other one
    skipped,   \* rehashSkipped
    health,    \* healthCheck of each node
    votes,     \* electionVote of each node
    replies,   \* answers to votes, on their way
    isolated,  \* nodes the network has cut off
    elected,   \* every leader so far with its term
    cuts, restarts,
    lapsed     \* the latest term that a restart has made a process forget (history)

electionVars == <<term, leader, election, active, ring, failCount, skipped, health,
                  votes, replies, isolated, elected, cuts, restarts, lapsed>>

Nobody == "nobody"
\* No node has the name that stands for no leader.
ASSUME NobodyIsNoNode == Nobody \notin ENode

NoElection == [counted |-> 0, answers |-> 0]
Leading(n) == election[n] # NoElection
Reaches(n, m) == n \notin isolated /\ m \notin isolated
Others(n) == ENode \ {n}

\* Votes needed to win.
expectVotes == (Cardinality(ENode) \div 2) + 1

\* isPartitioned, without a control plane.
isPartitionedNode(n) == (Cardinality(ENode) \div 2) >= Cardinality(active[n])

-----------------------------------------------------------------------------
\* node.failCount after a health check that n sends m.
failCountAfter(n, m) ==
    IF Reaches(n, m) \/ m = n THEN 0
    ELSE IF failCount[n][m] > NodeFailAfter THEN failCount[n][m] ELSE failCount[n][m] + 1

\* The nodes of the leader's new list. A list without the leader itself is a mutant.
aliveNodesOthers(n) == {m \in Others(n) : failCountAfter(n, m) < NodeFailAfter}
aliveNodes(n) == {n} \union {m \in Others(n) : failCountAfter(n, m) < NodeFailAfter}

\* sendHealthChecks: the leader calls every node; Health drops the message when the
\* queue is full. A node that fails or recovers makes the leader build a new ring.
sendHealthChecks(n) ==
    LET rehash == \E m \in Others(n) :
                      IF Reaches(n, m) THEN failCount[n][m] >= NodeFailAfter
                                       ELSE failCount[n][m] + 1 = NodeFailAfter
        message == [leader |-> n, term |-> term[n], signature |-> ring[n], nodes |-> active[n]]
    IN  /\ leader[n] = n /\ ~Leading(n)
        /\ failCount' = [failCount EXCEPT ![n] = [m \in ENode |-> failCountAfter(n, m)]]
        /\ health' = [m \in ENode |->
               IF m # n /\ Reaches(n, m) /\ Len(health[m]) < HealthQueue
               THEN Append(health[m], message) ELSE health[m]]
        /\ active' = [active EXCEPT ![n] = IF rehash THEN aliveNodes(n) ELSE @]
        /\ ring' = [ring EXCEPT ![n] = IF rehash THEN aliveNodes(n) ELSE @]
        /\ UNCHANGED <<term, leader, election, skipped, votes, replies, isolated, elected, cuts, restarts, lapsed>>

\* electLeader up to its wait: the node votes for itself and asks the others. A call
\* that fails is an answer too.
electLeader(n) ==
    /\ leader[n] # n /\ ~Leading(n) /\ term[n] < MaxTerm
    /\ term' = [term EXCEPT ![n] = @ + 1]
    /\ leader' = [leader EXCEPT ![n] = Nobody]
    /\ election' = [election EXCEPT ![n] =
           [counted |-> 1, answers |-> Cardinality({m \in Others(n) : ~Reaches(n, m)})]]
    /\ votes' = [m \in ENode |-> IF m # n /\ Reaches(n, m)
                                 THEN Append(votes[m], [node |-> n, term |-> term[n] + 1])
                                 ELSE votes[m]]
    /\ UNCHANGED <<active, ring, failCount, skipped, health, replies, isolated, elected, cuts, restarts, lapsed>>

\* The wait takes an answer to this election; one that shows a later term gives up.
electionTakes(n, r) ==
    LET losing == ~r.result /\ term[n] < r.term
        all == Cardinality(Others(n))
    IN  /\ Leading(n) /\ r.to = n /\ r.asked = term[n]
        /\ election[n].answers < all /\ election[n].counted < expectVotes
        /\ election' = [election EXCEPT ![n] =
               [counted |-> IF r.result THEN @.counted + 1 ELSE IF losing THEN 0 ELSE @.counted,
                answers |-> IF losing THEN all ELSE @.answers + 1]]
        /\ replies' = replies \ {r}
        /\ UNCHANGED <<term, leader, active, ring, failCount, skipped, health, votes,
                       isolated, elected, cuts, restarts, lapsed>>

\* The end of electLeader: enough votes, all answers, or the timer. Nobody reads the
\* answers that come later.
electionEnds(n) ==
    /\ Leading(n)
    /\ election' = [election EXCEPT ![n] = NoElection]
    /\ replies' = {r \in replies : r.to # n}
    /\ IF election[n].counted >= expectVotes
       THEN /\ leader' = [leader EXCEPT ![n] = n]
            /\ elected' = elected \union {[node |-> n, term |-> term[n]]}
       ELSE UNCHANGED <<leader, elected>>
    /\ UNCHANGED <<term, active, ring, failCount, skipped, health, votes, isolated,
                   cuts, restarts, lapsed>>

-----------------------------------------------------------------------------
\* run takes a health check: an older term is ignored; otherwise its sender leads. A
\* ring that differs is taken at the second check that shows it.
runHealth(n) ==
    LET h == Head(health[n])
        differs == h.signature # ring[n]
    IN  /\ ~Leading(n) /\ health[n] # <<>>
        /\ health' = [health EXCEPT ![n] = Tail(@)]
        /\ IF h.term < term[n]
           THEN UNCHANGED <<term, leader, ring, skipped>>
           ELSE /\ term' = [term EXCEPT ![n] = h.term]
                /\ leader' = [leader EXCEPT ![n] = h.leader]
                /\ ring' = [ring EXCEPT ![n] = IF differs /\ skipped[n] THEN h.nodes ELSE @]
                /\ skipped' = [skipped EXCEPT ![n] = IF differs THEN ~@ ELSE @]
        /\ UNCHANGED <<election, active, failCount, votes, replies, isolated, elected, cuts, restarts, lapsed>>

\* run answers a vote: yes only to a term it has not seen. The answer of a node that was
\* cut off meanwhile is an error, which counts as no.
Awaited(v) == Leading(v.node) /\ term[v.node] = v.term
\* (A node that votes again in a term it has voted in is a mutant.)
VoteForAgain(n, v) == term[n] <= v.term
VoteFor(n, v) == term[n] < v.term
\* A new term has no leader yet. (One that keeps the leader of the old term is a mutant.)
LeaderAfterVoteKept(n) == leader[n]
LeaderAfterVote(n) == Nobody

runVote(n) ==
    LET v == Head(votes[n])
        yes == VoteFor(n, v)
    IN  /\ ~Leading(n) /\ votes[n] # <<>>
        /\ votes' = [votes EXCEPT ![n] = Tail(@)]
        /\ term' = [term EXCEPT ![n] = IF yes THEN v.term ELSE @]
        /\ leader' = [leader EXCEPT ![n] = IF yes THEN LeaderAfterVote(n) ELSE @]
        /\ replies' = replies \union IF ~Awaited(v) THEN {} ELSE
               {[to |-> v.node, from |-> n, asked |-> v.term,
                 result |-> yes /\ Reaches(n, v.node),
                 term |-> IF ~Reaches(n, v.node) THEN 0 ELSE IF yes THEN v.term ELSE term[n]]}
        /\ UNCHANGED <<election, active, ring, failCount, skipped, health, isolated, elected,
                       cuts, restarts, lapsed>>

-----------------------------------------------------------------------------
\* The network cuts a node off, or lets it back.
Cut(n) ==
    /\ cuts + restarts < MaxTrouble /\ cuts' = cuts + 1
    /\ isolated' = IF n \in isolated THEN isolated \ {n} ELSE isolated \union {n}
    /\ UNCHANGED <<term, leader, election, active, ring, failCount, skipped, health, votes,
                   replies, elected, restarts, lapsed>>

\* failoverInit: a process begins with term 0, no leader and all nodes; what was
\* addressed to the earlier process is gone.
failoverInit(n) ==
    /\ cuts + restarts < MaxTrouble /\ restarts' = restarts + 1
    /\ lapsed' = IF term[n] > lapsed THEN term[n] ELSE lapsed
    /\ term' = [term EXCEPT ![n] = 0]
    /\ leader' = [leader EXCEPT ![n] = Nobody]
    /\ election' = [election EXCEPT ![n] = NoElection]
    /\ active' = [active EXCEPT ![n] = ENode]
    /\ ring' = [ring EXCEPT ![n] = ENode]
    /\ failCount' = [failCount EXCEPT ![n] = [m \in ENode |-> 0]]
    /\ skipped' = [skipped EXCEPT ![n] = FALSE]
    /\ health' = [health EXCEPT ![n] = <<>>]
    /\ votes' = [votes EXCEPT ![n] = <<>>]
    /\ replies' = {r \in replies : r.to # n}
    /\ UNCHANGED <<isolated, elected, cuts>>

ElectionInit ==
    /\ term = [n \in ENode |-> 0]
    /\ leader = [n \in ENode |-> Nobody]
    /\ election = [n \in ENode |-> NoElection]
    /\ active = [n \in ENode |-> ENode]
    /\ ring = [n \in ENode |-> ENode]
    /\ failCount = [n \in ENode |-> [m \in ENode |-> 0]]
    /\ skipped = [n \in ENode |-> FALSE]
    /\ health = [n \in ENode |-> <<>>]
    /\ votes = [n \in ENode |-> <<>>]
    /\ replies = {} /\ isolated = {} /\ elected = {}
    /\ cuts = 0 /\ restarts = 0 /\ lapsed = 0

electionStep(n) ==
    \/ sendHealthChecks(n) \/ electLeader(n) \/ electionEnds(n)
    \/ \E r \in replies : electionTakes(n, r)
    \/ runHealth(n) \/ runVote(n)

ElectionNext == \E n \in ENode : electionStep(n) \/ Cut(n) \/ failoverInit(n)

ElectionSpec == ElectionInit /\ [][ElectionNext]_electionVars

-----------------------------------------------------------------------------
\* The queue of votes has room for one request of each other node (make(chan, len(c.nodes)))
\* and a second request of the same node waits in its call; every other value is of its type.
ElectionTypeOK ==
    /\ term \in [ENode -> 0..MaxTerm]
    /\ leader \in [ENode -> ENode \union {Nobody}]
    /\ ring \in [ENode -> SUBSET ENode] /\ active \in [ENode -> SUBSET ENode]
    /\ \A n \in ENode :
           /\ n \in active[n]
           /\ Len(health[n]) <= HealthQueue
           /\ failCount[n] \in [ENode -> 0..(NodeFailAfter + 1)]
           /\ election[n].counted \in 0..expectVotes

\* A term has at most one leader, whatever restarts, unless it is a term that a process may
\* have voted in and forgotten by a restart, or an earlier one.
OneLeaderPerTerm ==
    \A a, b \in elected : a.term = b.term /\ lapsed < a.term => a.node = b.node

\* A node names a leader only of its own term, and only one that won an election: a vote
\* for a later term forgets the leader, a late health check does not bring it back.
FollowsTheElected ==
    \A n \in ENode : leader[n] # Nobody => [node |-> leader[n], term |-> term[n]] \in elected

\* run says of a health check of its own term from another leader that this is a bug that
\* should not happen.
NoWrongLeader ==
    \A n \in ENode : (~Leading(n) /\ health[n] # <<>> /\ leader[n] # Nobody)
        => (Head(health[n]).term = term[n] => Head(health[n]).leader = leader[n])

\* A node that follows a leader, is on the leader's list and has taken its ring is not in
\* the smaller partition. (It fails for a leader that was cut off and came back, since run
\* takes the new leader's nodes into the ring and not into activeNodes.)
FollowerIsNotPartitioned ==
    \A n \in ENode : LET m == leader[n] IN
        (m # Nobody /\ m # n /\ leader[IF m = Nobody THEN n ELSE m] = m /\ ring[n] = ring[m]
            /\ n \in ring[m] /\ ~isPartitionedNode(m))
        => ~isPartitionedNode(n)

\* Types, one leader in each term, and followers only of those elected.
ElectionSafe == ElectionTypeOK /\ OneLeaderPerTerm /\ FollowsTheElected
=============================================================================
