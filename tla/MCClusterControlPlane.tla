---------------------- MODULE MCClusterControlPlane ----------------------
(* Bounded instances of the control plane. *)
EXTENDS ClusterControlPlane, Sequences, SequencesExt
CONSTANTS A, B, C, D, E, a, b, c, d, e, c2, b2

MCNodeOf == [p \in Proc |-> CASE p = a -> A [] p \in {b, b2} -> B [] p \in {c, c2} -> C
                              [] p = d -> D [] OTHER -> E]

\* A cluster in operation: the topology t was written at revision r, the processes of order
\* registered one after the other, then those of quit drained in the same order and raised
\* the marker, and the processes of up applied the view of the last of these writes.
\* Registered processes that are not up have crashed a moment ago; those of later start yet;
\* those of late (if quit is empty) have not heard of the last registration; nobody has
\* heard that the lease of gone, the empty set or one of them, has run out.
ClusterState(r, order, up, late, quit, gone, t, later) ==
    LET out == SelectSeq(order, LAMBDA p : p \in quit)
        last == r + Len(order) + Len(out)
        now == last + Cardinality(gone)
        drainedAt(p) == r + Len(order) + CHOOSE i \in 1 .. Len(out) : out[i] = p
        pos(p) == CHOOSE i \in 1 .. Len(order) : order[i] = p
        current == [epoch |-> last, active |-> t,
                    serving |-> {p \in Range(order) \ quit : NodeOf[p] \in t}]
        previous == [current EXCEPT !.epoch = last - 1,
                                    !.serving = @ \ {order[Len(order)]}]
        known(p) == IF p \in late THEN previous ELSE current
    IN /\ rev = IF out = <<>> THEN now ELSE now + 1
       /\ marker = IF out = <<>> THEN 0 ELSE last
       /\ lastEvent = now /\ fence = last
       /\ member = [n \in Node |->
             IF \E p \in Range(order) \ gone : NodeOf[p] = n
               THEN LET p == CHOOSE p \in Range(order) : NodeOf[p] = n
                    IN [proc |-> p, draining |-> p \in quit,
                        mod |-> IF p \in quit THEN drainedAt(p) ELSE pos(p) + r]
               ELSE Absent]
       /\ topo = [members |-> t, mod |-> r]
       /\ health = [p \in Proc |-> IF p \in up THEN "serving"
                                   ELSE IF p \in later THEN "new" ELSE "stopped"]
       /\ leaseAlive = [p \in Proc |-> p \in up]
       /\ holdsLease = [p \in Proc |-> p \in up]
       /\ viewApplied = [p \in Proc |-> p \in up]
       /\ fresh = [p \in Proc |-> p \in up]
       /\ view = [p \in Proc |-> IF p \in up THEN known(p) ELSE NoView]
       /\ refresh = [p \in Proc |-> NoRefresh]
       /\ ring = [p \in Proc |-> IF p \in up THEN {NodeOf[q] : q \in known(p).serving} ELSE {}]
       /\ viewEpoch = [p \in Proc |-> IF p \in up THEN known(p).epoch ELSE 0]
       /\ seen = [p \in Proc |-> IF p \in up THEN known(p).epoch ELSE 0]
       /\ drain = [p \in Proc |-> NoDrain]
       /\ change = [p \in Proc |-> NoChange]

\* Two of three members run.
RunningInit == ClusterState(1, <<a, b>>, {a, b}, {}, {}, {}, InitialMembers, {})
RunningSpec == RunningInit /\ [][CPNext]_cpVars
RunningFairSpec == RunningSpec /\ \A p \in Proc \ Disturbed : Fairness(p)

\* A cluster that starts from nothing, and four in operation, all at revision 9, each with
\* processes of its own or out of its reach: c runs and c2 may take its node over; b2 runs
\* and may drain; three members may become five; five, the last two of which have drained,
\* may become three.
StartInit == ClusterState(0, <<>>, {}, {}, {}, {}, {}, {a, b})
ReplaceInit == ClusterState(7, <<c, b>>, {c, b}, {}, {}, {}, {A, B, C}, {c2})
DrainInit == ClusterState(7, <<a, b2>>, {a, b2}, {}, {}, {}, {A, B, C}, {})
GrowInit == ClusterState(4, <<a, b, c, d, e>>, {a, b}, {b}, {}, {}, {A, B, C}, {})
ShrinkInit == ClusterState(1, <<a, b, c, d, e>>, {a, b}, {}, {d, e}, {}, {A, B, C, D, E}, {})
ClustersSpec == (StartInit \/ ReplaceInit \/ DrainInit \/ GrowInit \/ ShrinkInit) /\ [][CPNext]_cpVars
MCTopologies == {{A, B, C}, {A, B, C, D, E}}
=============================================================================
