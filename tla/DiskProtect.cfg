CONSTANTS
  NS <- MCNS
  Source <- MCSource
  Dest = {"d1"}
  Address = {"a1", "a2"}
  FirstPort = 2
  LastPort = 4
  MaxReserve = 2
  m1 = m1
  m2 = m2
  Machine = {m1, m2}
  MachineSource <- MCMachineSource
  SequenceMod = 4
  ReservedSeq = {0, 3}
  MaxCreates = 3
  NoSeq = NoSeq
  Client = {"c1", "c2"}
  OpenPort = {1, 11}
  MaxHandle = 3
  None = None
  BridgeName = {"b1", "b2"}
  Net <- MCNet
  AddrBits = 2
  MaxIndex = 3
  DiskName = {"d1", "d2"}
  PartName = {"p1"}
  Sectors = 2
  BlockSize = 2
  Wrap = 16
  DiskReader = {"c1"}
  MountLines <- MCMountLines
  MaxMounts = 3
  NoDisk = "nodisk"
  BDevice = {"v1", "v2"}
  Volume = {"x", "y"}
  Quota = {1, 2}
  Worker = {"w1", "w2"}
  MaxId = 2
  Lines = {"warning", "label", "total", "devid", "missing", ""}
  MaxLines = 5
  Caller = {"c1", "c2"}
  Group <- MCGroup
  Pid = {1, 2}
  Asked <- MCAsked
  Unlimited = 9
SPECIFICATION DiskMCSpec
INVARIANTS ProtectedIsReadOnly
CHECK_DEADLOCK FALSE
