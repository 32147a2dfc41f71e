SPECIFICATION FairSpec
CONSTANTS
  a = a
  b = b
  p = p
  q = q
  t1 = t1
  none = none
  fwd = fwd
  Peer <- PeerA
  ReplicaId = {1, 2}
  Text = {t1}
  Blank = none
  MaxLocalId = 2
  MaxCount = 2
  Page <- BothPages
  Forwarder = fwd
  Self = a
  Replica = 1
  PeerFrames <- OneFrame
  ViewCap = 2
  UpdateCap = 2
  WsCap = 1
  MaxSends <- PSends1
  MayClose = {}
  MaxMerges = 1
PROPERTIES
  PagesCatchUp
CHECK_DEADLOCK FALSE
