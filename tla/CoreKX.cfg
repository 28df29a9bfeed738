\* Two keys for each peer: rekeys, timeouts and reconnects on both sides.
CONSTANTS
  A = A
  B = B
  Window = 2
  MaxKeys <- TwoKeys
  MaxSeq <- OnePayload
  Lossy = FALSE
SPECIFICATION Spec
CHECK_DEADLOCK FALSE
INVARIANTS
  TypeOK
  SessionTimers
  NeverStuck
  KeyMaterial
  SessionConfirmed
  NextAccepted
