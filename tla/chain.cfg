SPECIFICATION FairSpec
CONSTANTS
  a = a
  b = b
  c = c
  t1 = t1
  t2 = t2
  none = none
  Peer <- ThreePeers
  ReplicaId = {1, 2, 3}
  Text = {t1}
  Blank = none
  MaxLocalId = 1
  MaxCount = 2
  Link <- Chain
  ChannelCap = 1
  WireCap = 1
  Slot = {1}
  MaxBreaks = 0
  ReplicaOf <- ThreeReplicas
  MaxFrame = 9
  MaxClock <- ChainEdits
  MaxStops <- MiddleOnce
  MaxHandlers = 2
  EditAfterRestart = FALSE
  MaxReplicaId = 99
PROPERTIES
  ItemsConverge
