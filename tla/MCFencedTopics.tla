--------------------------- MODULE MCFencedTopics ---------------------------
(* Bounded instances of the publish path. *)
EXTENDS FencedTopics, TLC
CONSTANTS A, B, a, b, a2

MCNodeOf == [p \in Proc |-> IF p = b THEN B ELSE A]
MCRings == {{A, B}, {B}}

\* A consistent hash that prefers A.
MCOwner(S, t) == IF A \in S THEN A ELSE IF B \in S THEN B ELSE NoNode

\* a and b run under the view {A, B} of epoch 1.
RunningInit ==
    /\ fence = 1
    /\ alive = [p \in Proc |-> IF p \in {a, b} THEN "up" ELSE "new"]
    /\ ring = [p \in Proc |-> IF p \in {a, b} THEN {A, B} ELSE {}]
    /\ viewEpoch = [p \in Proc |-> IF p \in {a, b} THEN 1 ELSE 0]
    /\ apply = [p \in Proc |-> Idle]
    /\ TopicInit

CidSymmetry == Permutations(Cid)

RunningSpec == RunningInit /\ [][Next]_vars
RunningFairSpec == RunningSpec /\ Fairness
=============================================================================
