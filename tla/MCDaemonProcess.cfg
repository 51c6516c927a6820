\* The unit and a daemon started by hand: two starts beside systemd's own, a crash, an edit.
SPECIFICATION FairSpec
CONSTANTS
  badAddr = badAddr
  filekey = filekey
  Slots = {unit, hand}
  Service = unit
  Ctls = {c1}
  Paths = {default}
  DefaultPath = default
  Addrs = {port}
  DefaultAddr = port
  Strings = {filekey}
  Files <- MCFiles
  Env <- MCEnv
  Absent = Absent
  Empty = Empty
  Unreadable = Unreadable
  Failed = Failed
  NoFile = NoFile
  Stale = Stale
  NoSlot = NoSlot
  MaxStarts = 2
  MaxCrashes = 1
  MaxEdits = 1
INVARIANTS
  SocketIsKept
  
  
PROPERTIES
  ServiceComesBack
  CtlEnds
\* Nobody has to start a daemon again.
CHECK_DEADLOCK FALSE
