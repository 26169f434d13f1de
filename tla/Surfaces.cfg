\* Two of each thing a surface chooses between; one or two calls in flight.
SPECIFICATION SurfacesSpec
VIEW Moving
CONSTANTS
  Sessions = {s1, s2}
  OtherPanels = {ssh, board}
  Pages = {p1, p2}
  Nowhere = nowhere
  Targets = {c1, c2}
  Bodies = {hello, bye}
  Blank = blank
  MaxRequests = 2
  InThread = FALSE
  Rooms = {r1, r2}
  NoRoom = noRoom
  MaxChanges = 2
  MaxReads = 1
  MaxWrites = 1
  Convs = {d1, d2}
  NoConv = noConv
  MaxActivity = 2
  MaxRefreshes = 1
  StreamRows = {w1, w2}
  Roots = {w1}
  NoRow = noRow
  Me = me
  Agent = agent
  Nobody = nobody
  MeOwns = FALSE
  Filters = {"none", "agent"}
  MaxRow = 2
  MaxTaskCalls = 2
  Agents = {a1, a2}
  NoAgent = noAgent
  Texts = {"x", "y"}
  MaxEdits = 1
  MaxAgentCalls = 2
  MaxRemote = 2
INVARIANT BlockFollowsPanel
INVARIANT RetrySendsOnce
INVARIANT DeletesOnlyAcknowledged
INVARIANT NoticeEndsByItself
INVARIANT JumpKeepsMoving
INVARIANT OnlyStaleMovesFail
INVARIANT MembershipsOfShownAgent
INVARIANT CallsAreUnderstood
INVARIANT CommitsAreAnnounced
PROPERTY DraftsAreKept
PROPERTY EditsOverwriteNothing
PROPERTY DoneHidesNothingNewer
PROPERTY AnswersKeepTyping
\* Changes are bounded, and an unmounted panel does nothing.
CHECK_DEADLOCK FALSE
