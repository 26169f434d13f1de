\* One Agent, one Channel, two Messages, two generations, no fault; the limit
\* of message_check is never reached.
SPECIFICATION HostSpec
CONSTANTS
  Agents = {a1}
  User = user
  Channels = {c1}
  Sessions = {s1, s2}
  NoSession = nosession
  NoChannel = nochannel
  NoBinding = nobinding
  NoBatch = nobatch
  NoScan = noscan
  MaxSeq = 2
  MaxGeneration = 2
  CheckLimits = {2}
  Faults = {}
  MaxCrashes = 1
INVARIANT
  NoLostWake
\* Generations and Messages are bounded, and a deleted Agent does nothing.
CHECK_DEADLOCK FALSE
