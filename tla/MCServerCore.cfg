SPECIFICATION CoreRunningSpec
CONSTANTS
  A = A  B = B  C = C  D = D  E = E
  a = a  b = b  c = c  d = d  e = e  c2 = c2  b2 = b2
  Node = {A, B, C}
  Proc = {a, b, c}
  NodeOf <- MCNodeOf
  NoProc = NoProc
  InitialMembers = {A, B, C}
  Topologies = {}
  Disturbed = {a}
  Drainers = {}
  MaxRev = 5
  Topic = {t1}
  Cid = {m1}
  Owner <- MCOwner
  NoNode = NoNode
  MaxGen = 1
  MaxLost = 0
PROPERTIES KeepsPath
CHECK_DEADLOCK FALSE
