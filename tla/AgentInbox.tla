----------------------------- MODULE AgentInbox -----------------------------
(***************************************************************************)
(* What collab-core promises an Agent about its inbox, with no database,   *)
(* generation, lifecycle or watermark in sight: a Message posted to a live *)
(* Agent stays queued until the Agent reads it, it is read once, reads go  *)
(* oldest first, and only the deletion of the Agent discards queued work.  *)
(***************************************************************************)
EXTENDS Integers

CONSTANTS Agents, Seqs

VARIABLES
  open,    \* Agents that have an inbox
  queued,  \* sequences waiting in each inbox
  read     \* sequences each Agent has read

vars == <<open, queued, read>>

Init ==
  /\ open = Agents
  /\ queued = [a \in Agents |-> {}]
  /\ read = [a \in Agents |-> {}]

\* Post one Message, newer than everything its recipients ever got.
Post(n, R) ==
  /\ \A a \in R : \A m \in queued[a] \cup read[a] : m < n
  /\ queued' = [a \in Agents |-> IF a \in R THEN queued[a] \cup {n} ELSE queued[a]]
  /\ UNCHANGED <<open, read>>

\* Read some queued Messages, none of them ahead of an older queued one.
Read(a, S) ==
  /\ \A m \in S, n \in queued[a] : n < m => n \in S
  /\ queued' = [queued EXCEPT ![a] = @ \ S]
  /\ read' = [read EXCEPT ![a] = @ \cup S]
  /\ UNCHANGED open

Close(a) ==
  /\ open' = open \ {a}
  /\ queued' = [queued EXCEPT ![a] = {}]
  /\ read' = [read EXCEPT ![a] = {}]

Next ==
  \/ \E n \in Seqs, R \in SUBSET open : Post(n, R)
  \/ \E a \in open : (\E S \in SUBSET queued[a] : Read(a, S)) \/ Close(a)

Spec == Init /\ [][Next]_vars
=============================================================================
