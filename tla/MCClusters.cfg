SPECIFICATION ClustersSpec
CONSTANTS
  A = A  B = B  C = C  D = D  E = E
  a = a  b = b  c = c  d = d  e = e  c2 = c2  b2 = b2
  Node = {A, B, C, D, E}
  Proc = {a, b, c, d, e, c2, b2}
  NodeOf <- MCNodeOf
  NoProc = NoProc
  InitialMembers = {A, B, C}
  Topologies <- MCTopologies
  Disturbed = {c}
  Drainers = {b2}
  MaxRev = 11
INVARIANTS CPTypeOK WritesNeedAppliedView OneReadyInstance FenceCoversViews SameEpochViewsAgree
PROPERTIES EpochsOnlyGrow TopologyMovesByTwo
CHECK_DEADLOCK FALSE
