CONSTANTS
  Thread = {t1, t2, t3}
  p1 = p1
  p2 = p2
  info_array <- MCInfoArray
  Duration <- MCDuration
  Range64 = 4
  MaxCalls = 3
  None = None

SPECIFICATION Spec

SYMMETRY Symmetry

INVARIANTS
  TypeOK
  Tally
  QuietReading
