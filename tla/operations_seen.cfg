SPECIFICATION FairSpec
CONSTANTS
  a = a
  b = b
  p = p
  q = q
  t1 = t1
  none = none
  fwd = fwd
  Peer <- PeerA
  ReplicaId = {1, 2}
  Text = {t1}
  Blank = none
  MaxLocalId = 2
  MaxCount = 2
  Page <- BothPages
  Forwarder = fwd
  Self = a
  Replica = 1
  PeerFrames <- OneFrame
  ViewCap = 4
  UpdateCap = 1
  WsCap = 1
  MaxSends <- PSends1
  MayClose = {q}
  MaxMerges = 2
INVARIANTS
  ClicksFindItems
PROPERTIES
  PagesSeeOperations
  PendingClears
CHECK_DEADLOCK FALSE
