SPECIFICATION FairSpec
CONSTANTS
  m1 = m1
  u1 = u1
  Small = u1
  Messages = {m1, u1}
  Fragments <- MCFragments
  NumMsgs = 1
  NoContext = NoContext
  MaxFaults = 1
  Capacity = 2
  MaxAcks = 1
PROPERTIES Answered Acknowledged
CHECK_DEADLOCK FALSE
