SPECIFICATION ProgressSpec
CONSTANTS
  A = A  B = B  C = C  D = D  E = E
  a = a  b = b  c = c  d = d  e = e  c2 = c2  b2 = b2
  Node = {A, B, C}
  Proc = {a, b}
  NodeOf <- MCNodeOf
  NoProc = NoProc
  InitialMembers = {A, B, C}
  Topologies = {}
  Disturbed = {a}
  Drainers = {}
  MaxRev = 5
  Jobs = 1  Worker = {w1, w2}  MaxAttempts = 2  MaxFault = 1  MaxReplay = 1
  SNode = {n1, n2}  MaxRow = 1  SchedQueue = 1  MaxSchedFault = 2
  FileWorker = {f1, f2}  FileMaxAttempts = 2  MaxFileQueue = 1  MaxFileFault = 1
  CUser = {u1, u2}  UpdateQueue = 2  MaxReceipt = 2  MaxUnread = 2  MaxLoad = 2  MaxReadFault = 1
INVARIANTS
  ProgressTypeOK OutboxSafe ScheduleSafe CacheSafe
PROPERTIES Converges OutboxDrains DueIsHandled FileIsSettled ReceiptIsPushed
CHECK_DEADLOCK FALSE
