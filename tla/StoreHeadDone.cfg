\* Two Channels, two Messages, two calls at once, no faults.
SPECIFICATION Spec
CONSTANTS
  Channels = {c1, c2}
  NoChannel = nochannel
  Slots = {s1, s2}
  Tab = t
  TailPage = 1
  HeadPage = 1
  Old = 0
  MaxPosts = 2
  MaxFaults = 0
INVARIANTS
  HeadDoneIsWhole
\* Messages and faults are bounded, and the model stops when all is answered.
CHECK_DEADLOCK FALSE
