SPECIFICATION ServicesSpec
CONSTANTS
  HSession = {s1}  HUser <- MCHUser  MaxTopicInst = 3  HubQueue = 1  MaxRehash = 1
  FileWorker = {f1, f2}  FileMaxAttempts = 1  MaxFileQueue = 2  MaxFileFault = 1
  UploadRequest = {h1, h2}  UploadParts = 2  MaxUploadLease = 4  MaxUploadFault = 1
  s1 = s1  a1 = a1  b1 = b1  b2 = b2  p1 = p1  p2 = p2
  CallSession = {a1, b1, b2}  CallUser <- MCUser  MaxParticipants = 2  MaxCall = 2  MaxCallFault = 1
  Member = {u1, u2}  Founder = u1  maxSubscriberCount = 2  MaxUses = 1  MaxSubFault = 1
  WebSession = {s1}  PollSession = {l1}  MaxEvict = 2  Expiry = TRUE
  Producer = {t1, t2}  MaxItem = 3  SendLimit = 1  SendCap = 2  ByteLimit = 5
  PxSession = {p1, p2}  PxUser <- MCPxUser  MaxMux = 2  MaxAsk = 2  MaxEvictUser = 1  MaxRouteFault = 1
INVARIANTS
  ServicesTypeOK HubSafe FileSafe UploadSafe CallSafe  SessionsSafe QueueSafe ProxySafe
PROPERTY OwnerIsKept
CHECK_DEADLOCK FALSE
