SPECIFICATION Spec
CONSTANTS
  Clients = {c1, c2, c3}
  Locks = {l1, l2}
  Nobody = Nobody
  NoLock = NoLock
  MaxRequests = 2
  Faults = {"timeout"}
SYMMETRY Symmetry
INVARIANTS TypeOK ListsConsistent MutualExclusion
PROPERTY FirstComeFirstServed
