\* The two core calls of task_create, with another actor between them.
SPECIFICATION Spec
CONSTANTS
  Owner = owner
  Agents = {a1}
  NoActor = noactor
  NoStatus = nostatus
  Channels = {c1}
  Messages = {m1, m2}
  MaxEvents = 5
INVARIANT
  FreshTaskIsCreators
\* Events are bounded, and a deleted Channel accepts no call.
CHECK_DEADLOCK FALSE
