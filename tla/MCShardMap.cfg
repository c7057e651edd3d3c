CONSTANTS
  Threads = {t1, t2}
  Keys <- MCKeys
  Values <- MCValues
  None = None
  Nobody = Nobody
  N = 2
  SizeRange = 16

SPECIFICATION Spec

INVARIANTS
  TypeOK
  LockInv
  OneThreadPerShard
  CountExact

PROPERTIES
  Linearizable
  MutexesReleased
