SPECIFICATION Spec
CONSTANTS
  m1 = m1
  m2 = m2
  u1 = u1
  Small = u1
  Messages = {m1, m2, u1}
  Fragments <- MCFragments
  NumMsgs = 1
  NoContext = NoContext
  MaxFaults = 1
  Capacity = 1
  MaxAcks = 1
SYMMETRY MCSymmetry
INVARIANTS TypeOK ContextState QueueOwned
  SuccessMeansDelivered DeliveredOnce
CHECK_DEADLOCK FALSE
