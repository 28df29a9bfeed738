\* Window 3 and a counter modulo 7, with 8 messages and 2 keys: late, ancient,
\* duplicate, stale and wrapped numbers all occur.
CONSTANTS
  Window = 3
  SeqMod = 7
  MaxSent = 8
  MaxKey = 2
SPECIFICATION Spec
CHECK_DEADLOCK FALSE
INVARIANTS
  TypeOK
  
  NoFreshDropped
