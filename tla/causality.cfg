SPECIFICATION Spec
CONSTANTS
  r1 = r1
  r2 = r2
  r3 = r3
  x = x
  Replica = {r1, r2, r3}
  Value = {x}
  Increments <- IncrementsOf
  Decrements <- DecrementsOf
  Insertions <- InsertionsOf
  Modulus = 4
  MaxEvents = 2
  MaxSent = 2
INVARIANTS
  CausalInv
  DataInv
  ClockOrderIsCausalOrder
  SameEventsSameValues
  ValueCountsEvents
CHECK_DEADLOCK FALSE
