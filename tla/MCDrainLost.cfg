SPECIFICATION RunningSpec
CONSTANTS
  A = A  B = B  C = C  D = D  E = E
  a = a  b = b  c = c  d = d  e = e  c2 = c2  b2 = b2
  Node = {A, B, C}
  Proc = {a, b}
  NodeOf <- MCNodeOf
  NoProc = NoProc
  InitialMembers = {A, B, C}
  Topologies = {}
  Disturbed = {a}
  Drainers = {a}
  MaxRev = 6
INVARIANTS DrainedLeavesRing
CHECK_DEADLOCK FALSE
