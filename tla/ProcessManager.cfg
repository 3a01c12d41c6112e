CONSTANTS
  j1 = j1  j2 = j2  j3 = j3  j4 = j4
  a = a  b = b  c = c  q = q
  Job = {j1, j2, j3, j4}
  ID = {a, b, c}
  QueueName = {q}
  NoQueue = NoQueue
  NoJob = NoJob
  CmdID <- MCCmdID
  CmdQueue <- MCCmdQueue
  MaxJobs = 2
SPECIFICATION FairSpec
INVARIANTS  TableIsExact QueueIsSerial AtMostMaxJobs
PROPERTIES Promise ServesOrStalls
CHECK_DEADLOCK FALSE
