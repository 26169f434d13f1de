\* One Agent, one Channel, one Message, two generations; dispose() may
\* reject.
SPECIFICATION HostSpec
CONSTANTS
  Agents = {a1}
  User = user
  Channels = {c1}
  Sessions = {s1, s2}
  NoSession = nosession
  NoChannel = nochannel
  NoBinding = nobinding
  NoBatch = nobatch
  NoScan = noscan
  MaxSeq = 1
  MaxGeneration = 2
  CheckLimits = {1}
  Faults = {"dispose"}
  MaxCrashes = 1
INVARIANT
  CheckedIsRearmed
\* Generations and Messages are bounded, and a deleted Agent does nothing.
CHECK_DEADLOCK FALSE
