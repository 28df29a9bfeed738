SPECIFICATION FairSpec
CONSTANTS
  s1 = s1
  s2 = s2
  s3 = s3
  NoSession = NoSession
  Sessions = {s1, s3}
  Transport <- MCTransport
  MaxChecks = 2
  MaxBytes = 2
PROPERTY Settles
