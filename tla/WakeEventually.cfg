\* One Agent, one Channel, two Messages, one generation, no fault; the limit
\* of message_check is never reached.
SPECIFICATION FairHostSpec
CONSTANTS
  Agents = {a1}
  User = user
  Channels = {c1}
  Sessions = {s1}
  NoSession = nosession
  NoChannel = nochannel
  NoBinding = nobinding
  NoBatch = nobatch
  NoScan = noscan
  MaxSeq = 2
  MaxGeneration = 1
  CheckLimits = {2}
  Faults = {}
  MaxCrashes = 1
PROPERTY
  EventuallySeen
\* Generations and Messages are bounded, and a deleted Agent does nothing.
CHECK_DEADLOCK FALSE
