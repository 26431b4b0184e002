---------------------------- MODULE MCServerCore ----------------------------
(* A bounded instance of the server with etcd. *)
EXTENDS MCClusterControlPlane, ServerCore

MCOwner(S, t) == IF A \in S THEN A ELSE IF B \in S THEN B ELSE IF C \in S THEN C ELSE NoNode

\* Two of three members run and the key of the third is still there. The lease of the first
\* has just run out and nobody knows: it owns every topic and has loaded it.
CoreRunningInit ==
    /\ ClusterState(1, <<a, b, c>>, {a, b}, {}, {}, {a}, InitialMembers, {})
    /\ row = [t \in Topic |-> [seqid |-> 0, owner |-> NoNode, epoch |-> 0]]
    /\ messages = [t \in Topic |-> {}]
    /\ topics = [p \in Proc |-> [t \in Topic |->
          IF p \in {a, b} /\ Owner(ring[p], t) = NodeOf[p]
            THEN [state |-> "loaded", proxy |-> FALSE, gen |-> 1, lastID |-> 0]
            ELSE Path!NoTopic]]
    /\ pubs = {} /\ acked = {} /\ lost = 0
    /\ hubBusy = [p \in Proc |-> FALSE]

CoreRunningSpec == CoreRunningInit /\ [][CoreNext]_coreVars
=============================================================================
