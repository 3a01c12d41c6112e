CONSTANTS
  c1 = c1
  c2 = c2
  Client = {c1, c2}
  Commands <- MCCommands
  SigCap = 2
  RunBound = 4
  p1 = p1
  p2 = p2
  o1 = o1
  n1 = n1
  n2 = n2
  n3 = n3
  Proc = {p1, p2}
  Orphan = {o1}
  Pid = {n1, n2, n3}
  Nil = Nil
  Zero = Zero
  Ids <- MCIds
  Internal = {}
  Protected <- MCProtected
  Stages <- MCStages
SPECIFICATION MCSpec
INVARIANTS   NoOrphan StatusIsOwn 
PROPERTIES UnscheduleIsFinal 
CHECK_DEADLOCK FALSE
