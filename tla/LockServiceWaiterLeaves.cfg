SPECIFICATION Spec
CONSTANTS
  Clients = {c1, c2, c3}
  Locks = {l1}
  Nobody = Nobody
  NoLock = NoLock
  MaxRequests = 1
  Faults = {"waiter_leaves"}
INVARIANT MutualExclusion
