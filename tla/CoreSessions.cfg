SPECIFICATION Spec
CONSTANTS
  c1 = c1
  c2 = c2
  t1 = t1
  t2 = t2
  Clients = {c1, c2}
  MessageTypes = {t1}
  Types <- MCMonitor
  Monitors = {c2}
  Sizes = {1, 3}
  MaxSize = 4
  NoRequest = NoRequest
  MaxMessages = 2
  MaxQueue = 1
  MaxMaps = 1
  MaxFaults = 2
INVARIANTS TypeOK RequestTracked ConnectedIffMatch 
