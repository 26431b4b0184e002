SPECIFICATION Spec
CONSTANTS
  A = A  B = B
  a = a  b = b  a2 = a2
  Node = {A, B}
  Proc = {a, b}
  NodeOf <- MCNodeOf
  NoNode = NoNode
  Rings <- MCRings
  MaxEpoch = 2
  Topic = {t1}
  Cid = {m1, m2}
  Owner <- MCOwner
  MaxGen = 1
  MaxLost = 1
INVARIANTS TypeOK SeqContiguous WritersAreFenced AckedIsSaved
PROPERTIES ImplementsLog
SYMMETRY CidSymmetry
CHECK_DEADLOCK FALSE
