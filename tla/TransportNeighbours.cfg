SPECIFICATION Spec
CONSTANTS
  s1 = s1
  s2 = s2
  s3 = s3
  NoSession = NoSession
  Sessions = {s1, s2, s3}
  Transport <- MCTransport
  MaxChecks = 1
  MaxBytes = 2
INVARIANTS TypeOK NotifiedOnce  AtsAgrees ApprovedFirst BytesCover
