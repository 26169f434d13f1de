-------------------------- MODULE WakeLedgerProofs --------------------------
(***************************************************************************)
(* Theorems about WakeLedger, for every value of its constants.            *)
(***************************************************************************)
EXTENDS WakeLedger, FiniteSetTheorems, TLAPS

USE UserAssumption, NoSessionAssumption, NoChannelAssumption, MaxSeqAssumption,
    MaxGenerationAssumption, CheckLimitsAssumption

-----------------------------------------------------------------------------
(* Type correctness.                                                       *)

LEMMA InitTypeOK == Init => TypeOK
  BY DEF Init, TypeOK

LEMMA GenerationsRange == Generations \subseteq 0..MaxGeneration
  BY DEF Generations

LEMMA SeqsRange == Seqs \subseteq 0..MaxSeq
  BY DEF Seqs

\* Every call of the core leaves the ledger well typed.
LEMMA StepTypeOK == TypeOK /\ [Next]_vars => TypeOK'
<1> SUFFICES ASSUME TypeOK, [Next]_vars PROVE TypeOK'
  OBVIOUS
<1> USE DEF TypeOK, bindings, channels, messages, deliveries, wakes
<1>1. ASSUME NEW c \in Channels, NEW a \in Agents, AddMember(c, a) PROVE TypeOK'
  BY <1>1 DEF AddMember
<1>2. ASSUME NEW c \in Channels, ArchiveChannel(c) PROVE TypeOK'
  BY <1>2 DEF ArchiveChannel
<1>3. ASSUME NEW c \in Channels, RestoreChannel(c) PROVE TypeOK'
  BY <1>3 DEF RestoreChannel
<1>4. ASSUME NEW c \in Channels, DeleteChannel(c) PROVE TypeOK'
  BY <1>4 DEF DeleteChannel
<1>5. ASSUME NEW c \in Channels, NEW author \in Agents \cup {User}, SendMessage(c, author)
      PROVE TypeOK'
  <2>1. lastSeq + 1 \in Seqs /\ lastSeq + 1 \in 0..MaxSeq
    BY <1>5 DEF SendMessage, Seqs
  <2>2. lastSeq' \in 0..MaxSeq /\ msgTarget' \in [Seqs -> Channels \cup {NoChannel}]
    BY <1>5, <2>1 DEF SendMessage
  <2>3. delivered' \in [Agents -> SUBSET Seqs]
    BY <1>5, <2>1 DEF SendMessage
  <2>4. pendingSeq' \in [Agents -> 0..MaxSeq]
    BY <1>5, <2>1 DEF SendMessage
  <2> QED BY <1>5, <2>2, <2>3, <2>4 DEF SendMessage
<1>6. ASSUME NEW a \in Agents, DeleteAgent(a) PROVE TypeOK'
  BY <1>6 DEF DeleteAgent
<1>7. ASSUME NEW a \in Agents, NEW s \in Sessions, BindRuntime(a, s) PROVE TypeOK'
  BY <1>7 DEF BindRuntime
<1>8. ASSUME NEW a \in Agents, NEW g \in Generations, NEW s \in Sessions, NEW p \in Seqs,
             MarkNotified(a, g, s, p)
      PROVE TypeOK'
  <2>1. g \in 0..MaxGeneration /\ p \in 0..MaxSeq
    BY GenerationsRange, SeqsRange
  <2>2. notifiedGen' \in [Agents -> [Seqs -> 0..MaxGeneration]]
    BY <1>8, <2>1 DEF MarkNotified
  <2>3. notifiedSeq' \in [Agents -> 0..MaxSeq] /\ wakeGen' \in [Agents -> 0..MaxGeneration]
    BY <1>8, <2>1 DEF MarkNotified
  <2> QED BY <1>8, <2>2, <2>3 DEF MarkNotified
<1>9. ASSUME NEW a \in Agents, NEW g \in Generations, NEW s \in Sessions, Rearm(a, g, s)
      PROVE TypeOK'
  BY <1>9 DEF Rearm
<1>10. ASSUME NEW a \in Agents, NEW g \in Generations, NEW s \in Sessions,
              NEW limit \in CheckLimits, CheckInbox(a, g, s, limit)
       PROVE TypeOK'
  <2>1. NewBatch(a, g, s, limit) \in Batch /\ NewBatch(a, g, s, limit).items \subseteq Seqs
    BY DEF NewBatch, Batch, Oldest, Unseen
  <2> QED BY <1>10, <2>1 DEF CheckInbox
<1>11. ASSUME NEW a \in Agents, NEW g \in Generations, NEW s \in Sessions,
              NEW b \in batches, MarkModelSeen(a, g, s, b)
       PROVE TypeOK'
  <2>1. seenGen' \in [Agents -> [Seqs -> 0..MaxGeneration]]
    BY <1>11, GenerationsRange DEF MarkModelSeen
  <2> QED BY <1>11, <2>1 DEF MarkModelSeen
<1>12. CASE UNCHANGED vars
  BY <1>12 DEF vars
<1> QED
  BY <1>1, <1>2, <1>3, <1>4, <1>5, <1>6, <1>7, <1>8, <1>9, <1>10, <1>11, <1>12
  DEF Next, ChannelNext, AgentNext

\* The ledger is always well typed.
THEOREM TypeCorrect == Spec => []TypeOK
<1>1. QED BY InitTypeOK, StepTypeOK, PTL DEF Spec

-----------------------------------------------------------------------------
(* The inductive invariant.                                                *)

\* Deliveries point at committed Messages.
Committed ==
  \A a \in Agents : \A n \in delivered[a] : n <= lastSeq /\ msgTarget[n] \in Channels

\* Only a live Agent has a binding.
BoundIsLive == \A a \in Agents : Bound(a) => a \in agents

\* A live Agent may read the Channel of everything ever delivered to it.
Readable == \A a \in agents : \A n \in delivered[a] : AccessGrant(a, msgTarget[n])

\* The watermark covers seen Deliveries as well.
Watermark == \A a \in agents : \A n \in delivered[a] : n <= pendingSeq[a]

\* A batch belongs to a live Agent and holds Deliveries of that Agent.
BatchOwned == \A b \in batches : b.agent \in agents /\ b.items \subseteq delivered[b.agent]

\* A batch and what is already seen leave no gap below the batch.
BatchIsPrefix ==
  \A b \in batches : \A m \in b.items, n \in delivered[b.agent] :
     n < m => n \in b.items \/ seenGen[b.agent][n] # 0

IInv ==
  /\ TypeOK
  /\ Committed
  /\ BoundIsLive
  /\ Readable
  /\ Watermark
  /\ BatchOwned
  /\ StaleBatchesStayFenced
  /\ SeenHasReceipt
  /\ BatchIsPrefix
  /\ SeenInOrder

-----------------------------------------------------------------------------
(* How one step looks from the inbox.                                      *)

\* Lifecycle and membership calls never take an access grant away.
KeepsGrants ==
  /\ UNCHANGED <<agents, bindings, messages, deliveries, pendingSeq, batches>>
  /\ \A a \in Agents, c \in Channels : AccessGrant(a, c) => AccessGrant(a, c)'

\* Wake bookkeeping touches nothing an inbox is made of.
KeepsInbox ==
  UNCHANGED <<agents, bindings, channels, messages, delivered, checked, seenGen,
              pendingSeq, batches>>

LEMMA LifecycleKeepsGrants ==
  ASSUME TypeOK, NEW c \in Channels,
         \/ ArchiveChannel(c) \/ RestoreChannel(c) \/ DeleteChannel(c)
         \/ \E a \in Agents : AddMember(c, a)
  PROVE  KeepsGrants
<1> USE DEF TypeOK, KeepsGrants, AccessGrant, bindings, messages, deliveries, wakes
<1>1. CASE ArchiveChannel(c)
  BY <1>1 DEF ArchiveChannel
<1>2. CASE RestoreChannel(c)
  BY <1>2 DEF RestoreChannel
<1>3. CASE DeleteChannel(c)
  BY <1>3 DEF DeleteChannel
<1>4. CASE \E a \in Agents : AddMember(c, a)
  BY <1>4 DEF AddMember
<1> QED BY <1>1, <1>2, <1>3, <1>4

LEMMA StepCases ==
  ASSUME TypeOK, [Next]_vars
  PROVE  \/ \E c \in Channels, author \in Agents \cup {User} : SendMessage(c, author)
         \/ \E a \in Agents : DeleteAgent(a)
         \/ \E a \in Agents, s \in Sessions : BindRuntime(a, s)
         \/ \E a \in Agents, g \in Generations, s \in Sessions, limit \in CheckLimits :
               CheckInbox(a, g, s, limit)
         \/ \E a \in Agents, g \in Generations, s \in Sessions, b \in batches :
               MarkModelSeen(a, g, s, b)
         \/ KeepsGrants
         \/ KeepsInbox
<1>1. ASSUME NEW a \in Agents, NEW g \in Generations, NEW s \in Sessions, NEW p \in Seqs,
             MarkNotified(a, g, s, p)
      PROVE KeepsInbox
  BY <1>1 DEF MarkNotified, KeepsInbox
<1>2. ASSUME NEW a \in Agents, NEW g \in Generations, NEW s \in Sessions, Rearm(a, g, s)
      PROVE KeepsInbox
  BY <1>2 DEF Rearm, KeepsInbox, deliveries
<1>3. ASSUME UNCHANGED vars PROVE KeepsInbox
  BY <1>3 DEF vars, KeepsInbox, deliveries, wakes
<1> QED
  BY <1>1, <1>2, <1>3, LifecycleKeepsGrants DEF Next, ChannelNext, AgentNext

-----------------------------------------------------------------------------
(* Each part of the invariant is preserved.                                *)

LEMMA StepCommitted == IInv /\ [Next]_vars => Committed'
<1> SUFFICES ASSUME IInv, [Next]_vars PROVE Committed'
  OBVIOUS
<1> USE DEF IInv, Committed, bindings, channels, messages, deliveries
<1>1. ASSUME NEW c \in Channels, NEW author \in Agents \cup {User}, SendMessage(c, author)
      PROVE Committed'
  <2>1. lastSeq + 1 \in Seqs
    BY <1>1 DEF TypeOK, SendMessage, Seqs
  <2>2. SUFFICES ASSUME NEW a \in Agents, NEW n \in delivered'[a]
                 PROVE  n <= lastSeq' /\ msgTarget'[n] \in Channels
    OBVIOUS
  <2>3. CASE n = lastSeq + 1
    BY <1>1, <2>1, <2>3 DEF SendMessage, TypeOK
  <2>4. CASE n \in delivered[a] /\ n # lastSeq + 1
    <3>1. n \in Seqs /\ n <= lastSeq /\ msgTarget[n] \in Channels
      BY <2>4 DEF TypeOK
    <3>2. msgTarget'[n] = msgTarget[n]
      BY <1>1, <2>4, <3>1 DEF SendMessage, TypeOK
    <3> QED BY <1>1, <3>1, <3>2 DEF SendMessage, TypeOK, Seqs
  <2>5. n \in delivered[a] \/ n = lastSeq + 1
    BY <1>1, <2>2 DEF SendMessage, TypeOK
  <2> QED BY <2>3, <2>4, <2>5
<1>2. ASSUME UNCHANGED <<delivered, messages>> PROVE Committed'
  BY <1>2
<1> QED
  BY StepCases, <1>1, <1>2
  DEF DeleteAgent, BindRuntime, CheckInbox, MarkModelSeen, KeepsGrants, KeepsInbox

LEMMA StepBoundIsLive == IInv /\ [Next]_vars => BoundIsLive'
<1> SUFFICES ASSUME IInv, [Next]_vars PROVE BoundIsLive'
  OBVIOUS
<1> USE DEF IInv, TypeOK, BoundIsLive, Bound, bindings
<1>1. ASSUME NEW a \in Agents, DeleteAgent(a) PROVE BoundIsLive'
  BY <1>1 DEF DeleteAgent
<1>2. ASSUME NEW a \in Agents, NEW s \in Sessions, BindRuntime(a, s) PROVE BoundIsLive'
  BY <1>2 DEF BindRuntime
<1>3. ASSUME UNCHANGED <<agents, generation>> PROVE BoundIsLive'
  BY <1>3
<1> QED
  BY StepCases, <1>1, <1>2, <1>3
  DEF SendMessage, CheckInbox, MarkModelSeen, KeepsGrants, KeepsInbox

LEMMA StepReadable == IInv /\ [Next]_vars => Readable'
<1> SUFFICES ASSUME IInv, [Next]_vars PROVE Readable'
  OBVIOUS
<1> USE DEF IInv, Readable, bindings, channels, messages, deliveries
<1>1. ASSUME NEW c \in Channels, NEW author \in Agents \cup {User}, SendMessage(c, author)
      PROVE Readable'
  <2>1. lastSeq + 1 \in Seqs
    BY <1>1 DEF TypeOK, SendMessage, Seqs
  <2>2. SUFFICES ASSUME NEW a \in agents, NEW n \in delivered'[a]
                 PROVE  AccessGrant(a, msgTarget[n])'
    BY <1>1 DEF SendMessage
  <2>3. a \in Agents
    BY DEF TypeOK
  <2>4. CASE n \in delivered[a]
    <3>1. msgTarget'[n] = msgTarget[n]
      BY <1>1, <2>3, <2>4 DEF SendMessage, TypeOK, Committed, Seqs
    <3> QED BY <1>1, <2>4, <3>1 DEF SendMessage, AccessGrant
  <2>5. CASE n \notin delivered[a]
    <3>1. n = lastSeq + 1 /\ membership[c][a] = "active" /\ lifecycle[c] = "active"
      BY <1>1, <2>2, <2>3, <2>5 DEF SendMessage, Recipients, Writable, TypeOK
    <3>2. msgTarget'[n] = c
      BY <1>1, <2>1, <3>1 DEF SendMessage, TypeOK
    <3> QED BY <1>1, <3>1, <3>2 DEF SendMessage, AccessGrant
  <2> QED BY <2>4, <2>5
<1>2. ASSUME NEW a \in Agents, DeleteAgent(a) PROVE Readable'
  <2>1. \A b \in Agents \ {a}, c \in Channels : membership'[c][b] = membership[c][b]
    BY <1>2 DEF DeleteAgent, TypeOK
  <2>2. agents' = agents \ {a} /\ agents \subseteq Agents
    BY <1>2 DEF DeleteAgent, TypeOK
  <2> QED BY <1>2, <2>1, <2>2 DEF DeleteAgent, AccessGrant, Committed
<1>3. ASSUME KeepsGrants PROVE Readable'
  BY <1>3 DEF KeepsGrants, TypeOK, Committed
<1>4. ASSUME UNCHANGED <<agents, channels, messages, delivered>> PROVE Readable'
  BY <1>4 DEF AccessGrant
<1> QED
  BY StepCases, <1>1, <1>2, <1>3, <1>4
  DEF BindRuntime, CheckInbox, MarkModelSeen, KeepsInbox

LEMMA StepWatermark == IInv /\ [Next]_vars => Watermark'
<1> SUFFICES ASSUME IInv, [Next]_vars PROVE Watermark'
  OBVIOUS
<1> USE DEF IInv, Watermark, wakes, deliveries
<1>1. ASSUME NEW c \in Channels, NEW author \in Agents \cup {User}, SendMessage(c, author)
      PROVE Watermark'
  <2>1. SUFFICES ASSUME NEW a \in agents, NEW n \in delivered'[a] PROVE n <= pendingSeq'[a]
    BY <1>1 DEF SendMessage
  <2>2. a \in Agents /\ lastSeq + 1 \in Seqs
    BY <1>1 DEF TypeOK, SendMessage, Seqs
  <2>3. pendingSeq[a] \in Nat /\ pendingSeq'[a] >= pendingSeq[a]
    BY <1>1, <2>2 DEF SendMessage, TypeOK
  <2>4. CASE n \in delivered[a]
    <3>1. n <= pendingSeq[a] /\ n \in Int
      BY <2>2, <2>4 DEF TypeOK, Seqs
    <3> QED BY <2>2, <2>3, <3>1, <1>1 DEF SendMessage, TypeOK
  <2>5. CASE n \notin delivered[a]
    BY <1>1, <2>1, <2>2, <2>5 DEF SendMessage, TypeOK
  <2> QED BY <2>4, <2>5
<1>2. ASSUME NEW a \in Agents, DeleteAgent(a) PROVE Watermark'
  BY <1>2 DEF DeleteAgent, TypeOK
<1>3. ASSUME UNCHANGED <<agents, delivered, pendingSeq>> PROVE Watermark'
  BY <1>3
<1> QED
  BY StepCases, <1>1, <1>2, <1>3
  DEF BindRuntime, CheckInbox, MarkModelSeen, KeepsGrants, KeepsInbox

LEMMA StepBatchOwned == IInv /\ [Next]_vars => BatchOwned'
<1> SUFFICES ASSUME IInv, [Next]_vars PROVE BatchOwned'
  OBVIOUS
<1> USE DEF IInv, BatchOwned, deliveries
<1>1. ASSUME NEW c \in Channels, NEW author \in Agents \cup {User}, SendMessage(c, author)
      PROVE BatchOwned'
  <2>1. \A a \in Agents : delivered[a] \subseteq delivered'[a]
    BY <1>1 DEF SendMessage, TypeOK
  <2>2. agents \subseteq Agents
    BY DEF TypeOK
  <2> QED BY <1>1, <2>1, <2>2 DEF SendMessage
<1>2. ASSUME NEW a \in Agents, DeleteAgent(a) PROVE BatchOwned'
  BY <1>2 DEF DeleteAgent
<1>3. ASSUME NEW a \in Agents, NEW g \in Generations, NEW s \in Sessions,
             NEW limit \in CheckLimits, CheckInbox(a, g, s, limit)
      PROVE BatchOwned'
  <2>1. NewBatch(a, g, s, limit).agent = a
        /\ NewBatch(a, g, s, limit).items \subseteq delivered[a]
    BY DEF NewBatch, Oldest, Unseen
  <2>2. a \in agents
    BY <1>3 DEF CheckInbox, CurrentBinding, BoundIsLive
  <2> QED BY <1>3, <2>1, <2>2 DEF CheckInbox
<1>4. ASSUME UNCHANGED <<agents, delivered, batches>> PROVE BatchOwned'
  BY <1>4
<1> QED
  BY StepCases, <1>1, <1>2, <1>3, <1>4
  DEF BindRuntime, MarkModelSeen, KeepsGrants, KeepsInbox

LEMMA StepStale == IInv /\ [Next]_vars => StaleBatchesStayFenced'
<1> SUFFICES ASSUME IInv, [Next]_vars PROVE StaleBatchesStayFenced'
  OBVIOUS
<1> USE DEF IInv, StaleBatchesStayFenced, bindings
<1>1. ASSUME NEW a \in Agents, DeleteAgent(a) PROVE StaleBatchesStayFenced'
  <2>1. SUFFICES ASSUME NEW b \in batches, b.agent # a
                 PROVE  generation'[b.agent] = generation[b.agent]
                        /\ session'[b.agent] = session[b.agent]
    BY <1>1 DEF DeleteAgent
  <2>2. b.agent \in Agents
    BY DEF BatchOwned, TypeOK
  <2> QED BY <1>1, <2>1, <2>2 DEF DeleteAgent, TypeOK
<1>2. ASSUME NEW a \in Agents, NEW s \in Sessions, BindRuntime(a, s)
      PROVE StaleBatchesStayFenced'
  <2>1. SUFFICES ASSUME NEW b \in batches
                 PROVE  /\ b.generation <= generation'[b.agent]
                        /\ b.generation = generation'[b.agent] => b.session = session'[b.agent]
    BY <1>2 DEF BindRuntime
  <2>2. b.agent \in Agents /\ b.generation \in Nat /\ b.generation <= generation[b.agent]
    BY DEF TypeOK, Batch, Generations
  <2>3. CASE b.agent = a
    BY <1>2, <2>2, <2>3 DEF BindRuntime, TypeOK
  <2>4. CASE b.agent # a
    BY <1>2, <2>2, <2>4 DEF BindRuntime, TypeOK
  <2> QED BY <2>3, <2>4
<1>3. ASSUME NEW a \in Agents, NEW g \in Generations, NEW s \in Sessions,
             NEW limit \in CheckLimits, CheckInbox(a, g, s, limit)
      PROVE StaleBatchesStayFenced'
  <2>1. NewBatch(a, g, s, limit).agent = a /\ NewBatch(a, g, s, limit).session = s
        /\ NewBatch(a, g, s, limit).generation = g
    BY DEF NewBatch
  <2>2. g <= generation[a] /\ session[a] = s /\ g \in Int
    BY <1>3 DEF CheckInbox, CurrentBinding, Generations
  <2> QED BY <1>3, <2>1, <2>2 DEF CheckInbox
<1>4. ASSUME UNCHANGED <<bindings, batches>> PROVE StaleBatchesStayFenced'
  BY <1>4
<1> QED
  BY StepCases, <1>1, <1>2, <1>3, <1>4
  DEF SendMessage, MarkModelSeen, KeepsGrants, KeepsInbox

LEMMA StepSeenHasReceipt == IInv /\ [Next]_vars => SeenHasReceipt'
<1> SUFFICES ASSUME IInv, [Next]_vars PROVE SeenHasReceipt'
  OBVIOUS
<1> USE DEF IInv, SeenHasReceipt, deliveries
<1>1. ASSUME NEW a \in Agents, DeleteAgent(a) PROVE SeenHasReceipt'
  BY <1>1 DEF DeleteAgent
<1>2. ASSUME NEW a \in Agents, NEW g \in Generations, NEW s \in Sessions,
             NEW b \in batches, MarkModelSeen(a, g, s, b)
      PROVE SeenHasReceipt'
  <2>1. SUFFICES ASSUME NEW x \in agents, NEW n \in Seqs, seenGen'[x][n] # 0
                 PROVE  \E d \in batches : d.agent = x /\ d.generation = seenGen'[x][n]
                                            /\ n \in d.items
    BY <1>2 DEF MarkModelSeen
  <2>2. x \in Agents
    BY DEF TypeOK
  <2>3. CASE seenGen'[x][n] = seenGen[x][n]
    BY <2>1, <2>3
  <2>4. CASE seenGen'[x][n] # seenGen[x][n]
    <3>1. x = a /\ n \in b.items /\ seenGen'[x][n] = g
      BY <1>2, <2>2, <2>4 DEF MarkModelSeen, TypeOK
    <3> QED BY <1>2, <3>1 DEF MarkModelSeen
  <2> QED BY <2>3, <2>4
<1>3. ASSUME agents' = agents, seenGen' = seenGen, batches \subseteq batches'
      PROVE SeenHasReceipt'
  BY <1>3
<1> QED
  BY StepCases, <1>1, <1>2, <1>3
  DEF SendMessage, BindRuntime, CheckInbox, KeepsGrants, KeepsInbox

LEMMA OldestIsPrefix ==
  ASSUME NEW S \in SUBSET Seqs, NEW limit \in CheckLimits,
         NEW m \in Oldest(S, limit), NEW n \in S, n < m
  PROVE  n \in Oldest(S, limit)
<1> DEFINE Below(k) == {x \in S : x < k}
<1>1. IsFiniteSet(Seqs)
  BY FS_Interval DEF Seqs
<1>2. IsFiniteSet(Below(m))
  BY <1>1, FS_Subset
<1>3. Below(n) \subseteq Below(m)
  <2>1. \A x \in S : x \in Int
    BY DEF Seqs
  <2>2. m \in Int /\ n \in Int
    BY <2>1 DEF Oldest
  <2>3. \A x \in S : x < n => x < m
    BY <2>1, <2>2
  <2> QED BY <2>3
<1>4. IsFiniteSet(Below(n)) /\ Cardinality(Below(n)) <= Cardinality(Below(m))
  BY <1>2, <1>3, FS_Subset
<1>5. Cardinality(Below(n)) \in Nat /\ Cardinality(Below(m)) \in Nat
  BY <1>2, <1>4, FS_CardinalityType
<1>6. Cardinality(Below(m)) < limit /\ limit \in Int
  BY DEF Oldest
<1>7. Cardinality(Below(n)) < limit
  BY <1>4, <1>5, <1>6
<1> QED BY <1>7 DEF Oldest

LEMMA ReadableIsListed ==
  ASSUME TypeOK, Committed, Readable, NEW a \in agents, NEW n \in delivered[a]
  PROVE  Listed(a, n)
BY DEF Readable, Listed, AccessGrant, TargetAccess

LEMMA StepBatchIsPrefix == IInv /\ [Next]_vars => BatchIsPrefix'
<1> SUFFICES ASSUME IInv, [Next]_vars PROVE BatchIsPrefix'
  OBVIOUS
<1> USE DEF IInv, BatchIsPrefix, deliveries
<1>1. ASSUME NEW c \in Channels, NEW author \in Agents \cup {User}, SendMessage(c, author)
      PROVE BatchIsPrefix'
  <2>1. SUFFICES ASSUME NEW b \in batches, NEW m \in b.items, NEW n \in delivered'[b.agent],
                        n < m
                 PROVE  n \in b.items \/ seenGen[b.agent][n] # 0
    BY <1>1 DEF SendMessage
  <2>2. b.agent \in Agents /\ m \in delivered[b.agent]
    BY DEF BatchOwned, TypeOK
  <2>3. m <= lastSeq /\ m \in Int /\ lastSeq \in Int
    BY <2>2 DEF Committed, TypeOK, Seqs
  <2>4. n # lastSeq + 1
    BY <2>1, <2>3
  <2>5. n \in delivered[b.agent]
    BY <1>1, <2>2, <2>4 DEF SendMessage, TypeOK
  <2> QED BY <2>1, <2>5
<1>2. ASSUME NEW a \in Agents, DeleteAgent(a) PROVE BatchIsPrefix'
  BY <1>2 DEF DeleteAgent
<1>3. ASSUME NEW a \in Agents, NEW g \in Generations, NEW s \in Sessions,
             NEW limit \in CheckLimits, CheckInbox(a, g, s, limit)
      PROVE BatchIsPrefix'
  <2>1. a \in agents
    BY <1>3 DEF CheckInbox, CurrentBinding, BoundIsLive
  <2>2. SUFFICES ASSUME NEW b \in batches', NEW m \in b.items, NEW n \in delivered[b.agent],
                        n < m
                 PROVE  n \in b.items \/ seenGen[b.agent][n] # 0
    BY <1>3 DEF CheckInbox
  <2>3. CASE b \in batches
    BY <2>2, <2>3
  <2>4. CASE b = NewBatch(a, g, s, limit)
    <3>1. b.agent = a /\ b.items = Oldest(Unseen(a), limit)
      BY <2>4 DEF NewBatch
    <3>2. CASE n \in Unseen(a)
      <4>1. Unseen(a) \in SUBSET Seqs
        BY DEF Unseen, TypeOK
      <4>2. m \in Oldest(Unseen(a), limit) /\ n < m
        BY <2>2, <3>1
      <4>3. n \in Oldest(Unseen(a), limit)
        BY <3>2, <4>1, <4>2, OldestIsPrefix
      <4> QED BY <3>1, <4>3
    <3>3. CASE n \notin Unseen(a)
      BY <2>1, <3>1, <3>3, ReadableIsListed DEF Unseen
    <3> QED BY <3>2, <3>3
  <2> QED BY <1>3, <2>3, <2>4 DEF CheckInbox
<1>4. ASSUME NEW a \in Agents, NEW g \in Generations, NEW s \in Sessions,
             NEW b \in batches, MarkModelSeen(a, g, s, b)
      PROVE BatchIsPrefix'
  <2>1. \A x \in Agents : \A n \in Seqs : seenGen[x][n] # 0 => seenGen'[x][n] # 0
    BY <1>4 DEF MarkModelSeen, TypeOK
  <2>2. \A d \in batches : d.agent \in Agents /\ delivered[d.agent] \subseteq Seqs
    BY DEF BatchOwned, TypeOK
  <2> QED BY <1>4, <2>1, <2>2 DEF MarkModelSeen
<1>5. ASSUME UNCHANGED <<delivered, seenGen, batches>> PROVE BatchIsPrefix'
  BY <1>5
<1> QED
  BY StepCases, <1>1, <1>2, <1>3, <1>4, <1>5
  DEF BindRuntime, KeepsGrants, KeepsInbox

LEMMA StepSeenInOrder == IInv /\ [Next]_vars => SeenInOrder'
<1> SUFFICES ASSUME IInv, [Next]_vars PROVE SeenInOrder'
  OBVIOUS
<1> USE DEF IInv, SeenInOrder, deliveries
<1>1. ASSUME NEW c \in Channels, NEW author \in Agents \cup {User}, SendMessage(c, author)
      PROVE SeenInOrder'
  <2>1. SUFFICES ASSUME NEW a \in agents, NEW m \in delivered'[a], NEW n \in delivered'[a],
                        n < m, seenGen[a][m] # 0
                 PROVE  seenGen[a][n] # 0
    <3>1. agents' = agents /\ seenGen' = seenGen
      BY <1>1 DEF SendMessage
    <3> QED BY <3>1
  <2>2. a \in Agents
    BY DEF TypeOK
  <2>3. m \in Seqs
    <3>1. lastSeq + 1 \in Seqs
      BY <1>1 DEF TypeOK, SendMessage, Seqs
    <3> QED BY <1>1, <2>2, <3>1 DEF SendMessage, TypeOK
  <2>4. m \in delivered[a]
    BY <2>1, <2>2, <2>3 DEF SeenHasReceipt, BatchOwned
  <2>5. m <= lastSeq /\ m \in Int /\ lastSeq \in Int
    BY <2>2, <2>4 DEF Committed, TypeOK, Seqs
  <2>6. n # lastSeq + 1
    BY <2>1, <2>5
  <2>7. n \in delivered[a]
    BY <1>1, <2>2, <2>6 DEF SendMessage, TypeOK
  <2> QED BY <2>1, <2>4, <2>7
<1>2. ASSUME NEW a \in Agents, DeleteAgent(a) PROVE SeenInOrder'
  BY <1>2 DEF DeleteAgent
<1>3. ASSUME NEW a \in Agents, NEW g \in Generations, NEW s \in Sessions,
             NEW b \in batches, MarkModelSeen(a, g, s, b)
      PROVE SeenInOrder'
  <2>1. SUFFICES ASSUME NEW x \in agents, NEW m \in delivered[x], NEW n \in delivered[x],
                        n < m, seenGen'[x][m] # 0, seenGen[x][n] = 0
                 PROVE  seenGen'[x][n] # 0
    <3>1. \A x \in Agents : \A n \in Seqs : seenGen[x][n] # 0 => seenGen'[x][n] # 0
      BY <1>3 DEF MarkModelSeen, TypeOK
    <3>2. agents \subseteq Agents /\ \A x \in Agents : delivered[x] \subseteq Seqs
      BY DEF TypeOK
    <3> QED BY <1>3, <3>1, <3>2 DEF MarkModelSeen
  <2>2. x \in Agents /\ m \in Seqs /\ n \in Seqs
    BY DEF TypeOK
  <2>3. seenGen[x][m] = 0
    BY <2>1
  <2>4. x = a /\ m \in b.items
    BY <1>3, <2>1, <2>2, <2>3 DEF MarkModelSeen, TypeOK
  <2>5. n \in b.items
    BY <1>3, <2>1, <2>4 DEF MarkModelSeen, BatchIsPrefix
  <2>6. seenGen'[x][n] = g
    BY <1>3, <2>1, <2>2, <2>4, <2>5 DEF MarkModelSeen, TypeOK
  <2> QED BY <2>6 DEF Generations
<1>4. ASSUME UNCHANGED <<agents, delivered, seenGen>> PROVE SeenInOrder'
  BY <1>4
<1> QED
  BY StepCases, <1>1, <1>2, <1>3, <1>4
  DEF BindRuntime, CheckInbox, KeepsGrants, KeepsInbox

-----------------------------------------------------------------------------
(* The invariant and the properties it carries.                            *)

LEMMA InitIInv == Init => IInv
<1> SUFFICES ASSUME Init PROVE IInv
  OBVIOUS
<1>1. TypeOK
  BY InitTypeOK
<1>2. Committed /\ BoundIsLive /\ Readable /\ Watermark
  BY DEF Init, Committed, BoundIsLive, Bound, Readable, Watermark
<1>3. BatchOwned /\ StaleBatchesStayFenced /\ SeenHasReceipt
  BY DEF Init, BatchOwned, StaleBatchesStayFenced, SeenHasReceipt
<1>4. BatchIsPrefix /\ SeenInOrder
  BY DEF Init, BatchIsPrefix, SeenInOrder
<1> QED BY <1>1, <1>2, <1>3, <1>4 DEF IInv

LEMMA StepIInv == IInv /\ [Next]_vars => IInv'
<1> SUFFICES ASSUME IInv, [Next]_vars PROVE IInv'
  OBVIOUS
<1>1. TypeOK'
  BY StepTypeOK DEF IInv
<1> QED
  BY <1>1, StepCommitted, StepBoundIsLive, StepReadable, StepWatermark, StepBatchOwned,
     StepStale, StepSeenHasReceipt, StepBatchIsPrefix, StepSeenInOrder
  DEF IInv

\* The inductive invariant holds in every reachable state of the ledger.
THEOREM Inductive == Spec => []IInv
<1>1. QED BY InitIInv, StepIInv, PTL DEF Spec

\* The durable watermark never lags the unseen Deliveries of a live Agent.
THEOREM WatermarkCovers == Spec => []WatermarkCoversUnseen
<1>1. IInv => WatermarkCoversUnseen
  BY DEF IInv, Watermark, WatermarkCoversUnseen
<1> QED BY <1>1, Inductive, PTL

\* Whatever happens to its Channels, no Delivery blocks an Agent's inbox.
THEOREM NeverPoisoned == Spec => []InboxNeverPoisoned
<1>1. IInv => InboxNeverPoisoned
  BY ReadableIsListed DEF IInv, Readable, InboxNeverPoisoned
<1> QED BY <1>1, Inductive, PTL

\* Every model-seen stamp is backed by a batch of the generation it names.
THEOREM ReceiptsAreReal == Spec => []SeenHasReceipt
<1>1. QED BY Inductive, PTL DEF IInv

\* A batch of a superseded binding is fenced for ever.
THEOREM GenerationFence == Spec => []StaleBatchesStayFenced
<1>1. QED BY Inductive, PTL DEF IInv

\* Receipts never overtake an older unseen Delivery.
THEOREM SeenOldestFirst == Spec => []SeenInOrder
<1>1. QED BY Inductive, PTL DEF IInv

-----------------------------------------------------------------------------
(* Refinement of AgentInbox.                                               *)

QueuedOf == [a \in Agents |-> IF a \in agents THEN Unseen(a) ELSE {}]

ReadOf == [a \in Agents |-> IF a \in agents
                            THEN {n \in delivered[a] : seenGen[a][n] # 0}
                            ELSE {}]

\* In a live inbox every unseen Delivery is listed, whatever its Channel.
LEMMA UnseenIsUnread ==
  ASSUME IInv, NEW a \in agents
  PROVE  Unseen(a) = {n \in delivered[a] : seenGen[a][n] = 0}
BY ReadableIsListed DEF IInv, Unseen

LEMMA UnseenIsUnreadNext ==
  ASSUME IInv', NEW a \in agents'
  PROVE  Unseen(a)' = {n \in delivered'[a] : seenGen'[a][n] = 0}
<1>1. \A n \in delivered'[a] : Listed(a, n)'
  BY DEF IInv, Readable, Listed, AccessGrant, TargetAccess
<1> QED BY <1>1 DEF Unseen

\* The ledger starts as an abstract inbox starts.
LEMMA InitRefines == Init => Inbox!Init
BY DEF Init, Inbox!Init, Unseen

\* A step of the ledger is a step of the inbox or changes no inbox at all.
LEMMA StepRefines == IInv /\ IInv' /\ [Next]_vars => [Inbox!Next]_(Inbox!vars)
<1> SUFFICES ASSUME IInv, IInv', [Next]_vars PROVE [Inbox!Next]_(Inbox!vars)
  OBVIOUS
<1> USE DEF deliveries
<1>0. agents \subseteq Agents
  BY DEF IInv, TypeOK
<1>1. ASSUME UNCHANGED <<agents, delivered, seenGen>> PROVE UNCHANGED Inbox!vars
  <2>1. \A a \in agents : Unseen(a)' = Unseen(a)
    BY <1>1, UnseenIsUnread, UnseenIsUnreadNext
  <2> QED BY <1>1, <2>1 DEF Inbox!vars
<1>2. ASSUME NEW a \in Agents, DeleteAgent(a) PROVE [Inbox!Next]_(Inbox!vars)
  <2>1. ASSUME NEW b \in agents \ {a} PROVE Unseen(b)' = Unseen(b)
    <3>1. b \in agents' /\ delivered'[b] = delivered[b] /\ seenGen' = seenGen
      BY <1>0, <1>2 DEF DeleteAgent, IInv, TypeOK
    <3>2. Unseen(b)' = {n \in delivered'[b] : seenGen'[b][n] = 0}
      BY <3>1, UnseenIsUnreadNext
    <3> QED BY <3>1, <3>2, UnseenIsUnread
  <2>2. CASE a \in agents
    <3>1. Inbox!Close(a)
      BY <1>2, <2>1 DEF DeleteAgent, Inbox!Close
    <3> QED BY <2>2, <3>1 DEF Inbox!Next
  <2>3. CASE a \notin agents
    BY <1>2, <2>1, <2>3 DEF DeleteAgent, Inbox!vars
  <2> QED BY <2>2, <2>3
<1>3. ASSUME NEW c \in Channels, NEW author \in Agents \cup {User}, SendMessage(c, author)
      PROVE Inbox!Next
  <2> DEFINE n == lastSeq + 1
             R == Recipients(c, author) \cap agents
  <2>1. n \in Seqs
    BY <1>3 DEF IInv, TypeOK, SendMessage, Seqs
  <2>2. \A a \in agents : delivered'[a] = IF a \in R THEN delivered[a] \cup {n} ELSE delivered[a]
    BY <1>0, <1>3 DEF SendMessage
  <2>3. \A a \in agents : \A m \in delivered[a] : m < n
    <3>1. SUFFICES ASSUME NEW a \in agents, NEW m \in delivered[a] PROVE m < n
      OBVIOUS
    <3>2. m \in Int /\ lastSeq \in Int /\ m <= lastSeq
      BY <1>0 DEF IInv, TypeOK, Committed, Seqs
    <3> QED BY <3>2
  <2>4. \A a \in agents : seenGen[a][n] = 0
    <3>1. SUFFICES ASSUME NEW a \in agents, seenGen[a][n] # 0 PROVE FALSE
      OBVIOUS
    <3>2. n \in delivered[a]
      BY <2>1, <3>1 DEF IInv, SeenHasReceipt, BatchOwned
    <3> QED BY <2>1, <2>3, <3>2 DEF Seqs
  <2>5. agents' = agents /\ seenGen' = seenGen
    BY <1>3 DEF SendMessage
  <2>6. \A a \in agents : Unseen(a)' = IF a \in R THEN Unseen(a) \cup {n} ELSE Unseen(a)
    <3>1. SUFFICES ASSUME NEW a \in agents
                   PROVE  Unseen(a)' = IF a \in R THEN Unseen(a) \cup {n} ELSE Unseen(a)
      OBVIOUS
    <3>2. Unseen(a)' = {m \in delivered'[a] : seenGen[a][m] = 0}
      BY <2>5, UnseenIsUnreadNext
    <3>3. Unseen(a) = {m \in delivered[a] : seenGen[a][m] = 0}
      BY UnseenIsUnread
    <3>4. CASE a \in R
      BY <2>2, <2>4, <3>2, <3>3, <3>4
    <3>5. CASE a \notin R
      BY <2>2, <3>2, <3>3, <3>5
    <3> QED BY <3>4, <3>5
  <2>7. \A a \in agents : {m \in delivered'[a] : seenGen'[a][m] # 0}
                            = {m \in delivered[a] : seenGen[a][m] # 0}
    BY <2>2, <2>4, <2>5
  <2>8. \A a \in R : a \in Agents /\ \A m \in QueuedOf[a] \cup ReadOf[a] : m < n
    BY <1>0, <2>3 DEF QueuedOf, ReadOf, Unseen
  <2>9. QueuedOf' = [a \in Agents |-> IF a \in R THEN QueuedOf[a] \cup {n} ELSE QueuedOf[a]]
    BY <2>5, <2>6 DEF QueuedOf
  <2>10. ReadOf' = ReadOf
    BY <2>5, <2>7 DEF ReadOf
  <2>11. Inbox!Post(n, R)
    BY <2>5, <2>8, <2>9, <2>10 DEF Inbox!Post, QueuedOf, ReadOf
  <2>12. R \in SUBSET agents
    OBVIOUS
  <2> HIDE DEF n, R
  <2> QED BY <2>1, <2>11, <2>12 DEF Inbox!Next, Inbox!Post
<1>4. ASSUME NEW a \in Agents, NEW g \in Generations, NEW s \in Sessions,
             NEW b \in batches, MarkModelSeen(a, g, s, b)
      PROVE Inbox!Next
  <2> DEFINE S == {n \in b.items : seenGen[a][n] = 0}
  <2>1. a \in agents /\ b.agent = a /\ b.items \subseteq delivered[a] /\ delivered[a] \subseteq Seqs
    BY <1>4 DEF MarkModelSeen, CurrentBinding, IInv, BoundIsLive, BatchOwned, TypeOK
  <2>2. agents' = agents /\ delivered' = delivered
    BY <1>4 DEF MarkModelSeen
  <2>3. \A x \in agents : \A n \in delivered[x] :
           seenGen'[x][n] = IF x = a /\ n \in S THEN g ELSE seenGen[x][n]
    BY <1>0, <1>4 DEF MarkModelSeen, IInv, TypeOK
  <2>4. \A x \in agents : Unseen(x)' = IF x = a THEN Unseen(x) \ S ELSE Unseen(x)
    <3>1. SUFFICES ASSUME NEW x \in agents
                   PROVE  Unseen(x)' = IF x = a THEN Unseen(x) \ S ELSE Unseen(x)
      OBVIOUS
    <3>2. Unseen(x)' = {n \in delivered[x] : seenGen'[x][n] = 0}
      BY <2>2, UnseenIsUnreadNext
    <3>3. Unseen(x) = {n \in delivered[x] : seenGen[x][n] = 0}
      BY UnseenIsUnread
    <3>4. g # 0
      BY DEF Generations
    <3> QED BY <2>3, <3>2, <3>3, <3>4
  <2>5. \A x \in agents : {n \in delivered'[x] : seenGen'[x][n] # 0}
           = {n \in delivered[x] : seenGen[x][n] # 0} \cup (IF x = a THEN S ELSE {})
    <3>1. g # 0
      BY DEF Generations
    <3> QED BY <2>1, <2>2, <2>3, <3>1
  <2>6. S \subseteq QueuedOf[a] /\ QueuedOf[a] = Unseen(a)
    BY <2>1, UnseenIsUnread DEF QueuedOf
  <2>7. \A m \in S, n \in Unseen(a) : n < m => n \in S
    BY <2>1, UnseenIsUnread DEF IInv, BatchIsPrefix
  <2>8. QueuedOf' = [QueuedOf EXCEPT ![a] = @ \ S]
    BY <2>2, <2>4 DEF QueuedOf
  <2>9. ReadOf' = [ReadOf EXCEPT ![a] = @ \cup S]
    <3>1. ReadOf \in [Agents -> SUBSET Seqs] /\ ReadOf' \in [Agents -> SUBSET Seqs]
      BY <1>0, <2>2 DEF IInv, TypeOK, ReadOf
    <3>2. \A x \in Agents : ReadOf'[x] = IF x = a THEN ReadOf[x] \cup S ELSE ReadOf[x]
      BY <2>1, <2>2, <2>5 DEF ReadOf
    <3> QED BY <3>1, <3>2
  <2>10. Inbox!Read(a, S)
    BY <2>2, <2>6, <2>7, <2>8, <2>9 DEF Inbox!Read, QueuedOf, ReadOf
  <2>11. S \in SUBSET QueuedOf[a]
    BY <2>6
  <2> HIDE DEF S
  <2> QED BY <2>1, <2>10, <2>11 DEF Inbox!Next, Inbox!Read, QueuedOf
<1>5. ASSUME KeepsGrants \/ KeepsInbox PROVE UNCHANGED <<agents, delivered, seenGen>>
  BY <1>5 DEF KeepsGrants, KeepsInbox
<1>6. ASSUME NEW a \in Agents, NEW s \in Sessions, BindRuntime(a, s)
      PROVE UNCHANGED <<agents, delivered, seenGen>>
  BY <1>6 DEF BindRuntime
<1>7. ASSUME NEW a \in Agents, NEW g \in Generations, NEW s \in Sessions,
             NEW limit \in CheckLimits, CheckInbox(a, g, s, limit)
      PROVE UNCHANGED <<agents, delivered, seenGen>>
  BY <1>7 DEF CheckInbox
<1> QED
  BY StepCases, <1>1, <1>2, <1>3, <1>4, <1>5, <1>6, <1>7 DEF IInv

\* The ledger implements the abstract inbox: no call loses queued work.
THEOREM LedgerImplementsInbox == Spec => ImplementsInbox
<1>1. QED
  BY Inductive, InitRefines, StepRefines, PTL DEF Spec, ImplementsInbox, Inbox!Spec
=============================================================================
