SPECIFICATION FairSpec
CONSTANTS
  a = a
  b = b
  p = p
  q = q
  t1 = t1
  none = none
  fwd = fwd
  Peer <- PeerA
  ReplicaId = {1, 2}
  Text = {t1}
  Blank = none
  MaxLocalId = 4
  MaxCount = 4
  Page <- BothPages
  Forwarder = fwd
  Self = a
  Replica = 1
  PeerFrames <- NoFrames
  ViewCap = 1
  UpdateCap = 2
  WsCap = 1
  MaxSends <- PSends3
  MayClose = {q}
  MaxMerges = 0
INVARIANTS
  TypeOK
  NewestUnderWay
PROPERTIES
  PagesCatchUp
CHECK_DEADLOCK FALSE
