\* One Agent: one operation asked for beside restore and recovery, one send, one
\* Profile edit, and every await may reject.
SPECIFICATION FairLifeSpec
CONSTANTS
  Agents = {a1}
  MaxJobs = 1
  MaxSends = 1
  MaxEdits = 1
  Faults = TRUE
INVARIANTS LoopsEndBeforeCore NoHandleOutlives OneSession NoKickLost PromptIsCurrent
PROPERTY CleanupEnds
\* Operations, sends and edits are bounded, and a closed host does nothing.
CHECK_DEADLOCK FALSE
