SPECIFICATION FairSpec
CONSTANTS
  a = a
  b = b
  c = c
  t1 = t1
  t2 = t2
  none = none
  Peer <- TwoPeers
  ReplicaId = {1, 2}
  Text = {t1}
  Blank = none
  MaxLocalId = 1
  MaxCount = 2
  Link <- OneWay
  ChannelCap = 2
  WireCap = 2
  Slot = {1, 2}
  MaxBreaks = 1
  ReplicaOf <- TwoReplicas
  MaxFrame = 9
  MaxClock <- OnlyA2
  MaxStops <- Never
  MaxHandlers = 1
  EditAfterRestart = TRUE
  MaxReplicaId = 99
PROPERTIES
  SharesOneList
  PushDelivers
  NothingUndone
  ItemsConverge
