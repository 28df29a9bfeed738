\* One handshake over a lossy channel.
CONSTANTS
  A = A
  B = B
  Window = 2
  MaxKeys <- OneKey
  MaxSeq <- NoPayload
  Lossy = TRUE
SPECIFICATION FairSpec
CHECK_DEADLOCK FALSE
PROPERTY
  Converges
