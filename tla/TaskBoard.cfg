\* Two Messages, one Agent beside the Owner, one Channel.
SPECIFICATION Spec
CONSTANTS
  Owner = owner
  Agents = {a1}
  NoActor = noactor
  NoStatus = nostatus
  Channels = {c1}
  Messages = {m1, m2}
  MaxEvents = 5
INVARIANTS
  AuditRebuildsRow
  AuditFollowsLifecycle
  OneWinner
\* Events are bounded, and a deleted Channel accepts no call.
CHECK_DEADLOCK FALSE
