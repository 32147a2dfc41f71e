SPECIFICATION Spec
CONSTANTS
  a = a
  b = b
  c = c
  t1 = t1
  t2 = t2
  none = none
  Peer <- TwoPeers
  ReplicaId = {1, 2}
  Text = {t1, t2}
  Blank = none
  MaxLocalId = 2
  MaxCount = 2
  Link <- BothWays
  ChannelCap = 1
  WireCap = 1
  Slot = {1}
  MaxBreaks = 0
  ReplicaOf <- TwoReplicas
  MaxFrame = 9
  MaxClock <- Two1
  MaxStops <- Never
  MaxHandlers = 1
  EditAfterRestart = TRUE
  MaxReplicaId = 99
SYMMETRY TextSymmetry
INVARIANTS
  TypeOK
  StatesWellFormed
  IdsDrawn
  TextsAgree
  ClockCoversUpdates
  ChangeUnderWay
PROPERTIES
  TextsImmutable
  AddIsShown
