CONSTANTS
  k1 = k1
  k2 = k2
  k3 = k3
  s1 = s1
  a = a
  b = b
  Local = {k1, k2, k3}
  Own = {s1}
  ID = {a, b}
  CmdID <- MCCmdID
  Known = {k1, k3, s1}
  Nil = Nil
  Queue = {"q1"}
  ChannelCap = 1
  BacklogCap = 2
  QueueCap = 2
  MaxRecords = 3
  MaxFailures = 1
  Sendable <- MCSendable
  MaxSent = 3
  MaxReads = 3
  Feeder = {"f1", "f2"}
  Value = {1, 3}
  Duration = {1, 2}
  HistoryLength = 1
  FirstTime = 4
  LastTime = 7
  Scale = 6
  MaxFeeds = 3
  MaxErrors = 1
SPECIFICATION MCSpec
INVARIANTS FlagsFollowJobs SubscribersMissNothing CleanReadsAsPrinted  ValuesAreKept
PROPERTIES ClientsAreAnswered
CHECK_DEADLOCK FALSE
