SPECIFICATION SysFairSpec
CONSTANTS
  Clients = {c1, c2}
  Locks = {l1}
  Nobody = Nobody
  NoLock = NoLock
  MaxRequests = 2
  Faults = {}
  Cancels = {"queued", "told"}
  MaxRestarts = 2
INVARIANTS SysTypeOK BeliefIsTrue  ReleaseExpected
 
