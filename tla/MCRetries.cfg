SPECIFICATION RetriesSpec
CONSTANTS
  A = A  B = B
  a = a  b = b  a2 = a2
  Node = {A, B}
  Proc = {a, b}
  NodeOf <- MCNodeOf
  NoNode = NoNode
  Rings <- MCRings
  MaxEpoch = 1
  Topic = {t1}
  Cid = {m1, m2}
  Owner <- MCOwner
  MaxGen = 1
  MaxLost = 0
  WebSession = {s1}  PollSession = {l1}  MaxEvict = 1  Expiry = FALSE
PROPERTIES RetriesSucceed EvictedIsGone
CHECK_DEADLOCK FALSE
