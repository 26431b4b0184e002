---------------------------- MODULE EpochFence ----------------------------
(***************************************************************************)
(* What the control plane promises to the publish path, without etcd:      *)
(* every process switches from view to view, each switch advances the      *)
(* shared database fence before the ring and the ring before viewEpoch,    *)
(* and no write is allowed from the fence to the publication of the view.  *)
(* Which views there are, and which process is ready, is left open.        *)
(* ClusterControlPlane implements this specification.                      *)
(***************************************************************************)
EXTENDS Naturals

CONSTANTS
    Node,     \* node names
    Proc,     \* server processes
    NodeOf,   \* the configured name of each process
    Rings,    \* the sets of serving names a view may have
    MaxEpoch  \* bound on the epochs of views

ASSUME FenceAssumption ==
    NodeOf \in [Proc -> Node] /\ Rings \subseteq SUBSET Node /\ MaxEpoch \in Nat

VARIABLES
    fence,     \* the cluster fence row of the database; 0: no row
    alive,     \* whether the process has not started, runs, or is gone
    ring,      \* c.ring, as the set of names it was built from
    viewEpoch, \* c.viewEpoch
    apply      \* the fenced view applyControlPlaneView is switching to, and how far it got

fenceVars == <<fence, alive, ring, viewEpoch, apply>>

Applying(pc, e, S) == [pc |-> pc, epoch |-> e, names |-> S]
Idle == Applying("idle", 0, {})

\* AllowsWrites holds at most when a view is in force and no other is being applied.
MayWrite(p) == alive[p] = "up" /\ apply[p].pc = "idle" /\ viewEpoch[p] > 0

\* The process starts with the ring of all configured nodes and no view.
Start(p) ==
    /\ alive[p] = "new"
    /\ alive' = [alive EXCEPT ![p] = "up"]
    /\ ring' = [ring EXCEPT ![p] = Node]
    /\ UNCHANGED <<fence, viewEpoch, apply>>

\* ClusterFenceAdvance accepts the epoch of a new view, which is not older than the fence.
AdvanceFence(p) ==
    /\ alive[p] = "up" /\ apply[p].pc = "idle"
    /\ \E e \in 1 .. MaxEpoch, S \in Rings :
          /\ e >= fence /\ e # viewEpoch[p]
          /\ fence' = e
          /\ apply' = [apply EXCEPT ![p] = Applying("fenced", e, S)]
    /\ UNCHANGED <<alive, ring, viewEpoch>>

\* The fence is advanced but the process hears of an error and keeps its view.
AdvanceUnheard(p) ==
    /\ alive[p] = "up" /\ apply[p].pc = "idle"
    /\ \E e \in 1 .. MaxEpoch : e > fence /\ fence' = e
    /\ UNCHANGED <<alive, ring, viewEpoch, apply>>

SwitchRing(p) ==
    /\ apply[p].pc = "fenced"
    /\ ring' = [ring EXCEPT ![p] = apply[p].names]
    /\ apply' = [apply EXCEPT ![p] = Applying("ring", @.epoch, @.names)]
    /\ UNCHANGED <<fence, alive, viewEpoch>>

StoreEpoch(p) ==
    /\ apply[p].pc = "ring"
    /\ viewEpoch' = [viewEpoch EXCEPT ![p] = apply[p].epoch]
    /\ apply' = [apply EXCEPT ![p] = Applying("epoch", @.epoch, @.names)]
    /\ UNCHANGED <<fence, alive, ring>>

PublishView(p) ==
    /\ apply[p].pc = "epoch"
    /\ apply' = [apply EXCEPT ![p] = Idle]
    /\ UNCHANGED <<fence, alive, ring, viewEpoch>>

Stop(p) ==
    /\ alive[p] = "up"
    /\ alive' = [alive EXCEPT ![p] = "stopped"]
    /\ ring' = [ring EXCEPT ![p] = {}]
    /\ viewEpoch' = [viewEpoch EXCEPT ![p] = 0]
    /\ apply' = [apply EXCEPT ![p] = Idle]
    /\ UNCHANGED fence

FenceInit ==
    /\ fence = 0
    /\ alive = [p \in Proc |-> "new"]
    /\ ring = [p \in Proc |-> {}]
    /\ viewEpoch = [p \in Proc |-> 0]
    /\ apply = [p \in Proc |-> Idle]

\* The steps that leave the Hub and its topics alone.
ViewStep(p) ==
    \/ Start(p) \/ AdvanceFence(p) \/ AdvanceUnheard(p) \/ SwitchRing(p) \/ StoreEpoch(p)

FenceNext == \E p \in Proc : ViewStep(p) \/ PublishView(p) \/ Stop(p)

FenceSpec == FenceInit /\ [][FenceNext]_fenceVars

FenceTypeOK ==
    /\ fence \in Nat
    /\ alive \in [Proc -> {"new", "up", "stopped"}]
    /\ ring \in [Proc -> SUBSET Node]
    /\ viewEpoch \in [Proc -> Nat]
    /\ apply \in [Proc -> [pc : {"idle", "fenced", "ring", "epoch"},
                           epoch : Nat, names : SUBSET Node]]
=============================================================================
