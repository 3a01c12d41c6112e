CONSTANTS
  r1 = r1
  r2 = r2
  r3 = r3
  k1 = k1
  Request = {r1, r2, r3}
  Cmd = {k1}
  MaxSeq = 3
  MaxCount = 1
  Nil = Nil
SPECIFICATION Spec
INVARIANTS
  TableIsKept CleansUpOnce FlagOutlivesOnlyFailure
SYMMETRY RequestSymmetry
CHECK_DEADLOCK FALSE
