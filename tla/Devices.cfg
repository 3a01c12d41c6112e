CONSTANTS
  NS <- MCNS
  Source <- MCSource
  Dest = {"d1"}
  Address = {}
  FirstPort = 2
  LastPort = 2
  MaxReserve = 1
  Box = {1}
  NicLists <- MCNicLists
  AddTypes = {"default", "zerotier", "macvlan"}
  MaxNics = 2
  Extra = {"bind", "flist", "same"}
  Archiver = {"a1", "a2"}
  Job = {"j1", "j2"}
  Nic = {"n1"}
  Disk = {"v1"}
  EventCap = 1
  MaxLife = 1
  MaxChannels = 2
  NoDevice = NoDevice
  User = {"u1", "u2"}
  Handle = {"h1"}
  ModeText <- MCModeText
  Path <- MCPath
  Perm = {1, 2}
SPECIFICATION MCSpec
INVARIANTS    FilesAreTracked
PROPERTIES GoroutinesGetThrough
CHECK_DEADLOCK FALSE
