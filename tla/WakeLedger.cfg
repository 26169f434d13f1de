\* One Agent, two Channels, two Sessions: two Messages, two generations.
SPECIFICATION Spec
CONSTANTS
  Agents = {a1}
  User = user
  Channels = {c1, c2}
  Sessions = {s1, s2}
  NoSession = nosession
  NoChannel = nochannel
  MaxSeq = 2
  MaxGeneration = 2
  CheckLimits = {1, 2}
INVARIANTS
  WatermarkCoversUnseen
  InboxNeverPoisoned
  StaleBatchesStayFenced
  SeenInOrder
PROPERTY
  ImplementsInbox
\* Message and generation numbers are bounded, so the model does stop.
CHECK_DEADLOCK FALSE
