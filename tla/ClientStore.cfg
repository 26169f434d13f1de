\* Two Channels, one old Message and two new ones, pages of one, two calls at once,
\* one fault.
SPECIFICATION Spec
CONSTANTS
  Channels = {c1, c2}
  NoChannel = nochannel
  Slots = {s1, s2}
  Tab = t
  TailPage = 1
  HeadPage = 1
  Old = 1
  MaxPosts = 3
  MaxFaults = 1
VIEW WithoutMarks
SYMMETRY Symmetry
INVARIANTS
  NewestShown
  HeadIsWhole
PROPERTIES
  NothingForgotten
  FollowsFeed
\* Messages and resyncs are bounded, and the model stops when all is answered.
CHECK_DEADLOCK FALSE
