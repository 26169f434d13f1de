----------------------------- MODULE WakeLedger -----------------------------
(***************************************************************************)
(* The durable wake ledger of collab-core: runtime bindings and their      *)
(* generations, Channel lifecycle and membership, Messages with their      *)
(* recipient snapshot, per-Agent wake watermarks, inbox batches and        *)
(* model-seen receipts.                                                    *)
(*                                                                         *)
(* Every action is one CollabCore call.  The core serialises its calls on  *)
(* one connection and runs each in one transaction that rolls back on      *)
(* error (db/mod.rs), so a call is one atomic step, and a refused call is  *)
(* a step that does not happen.                                            *)
(*                                                                         *)
(* Data left out: texts, timestamps (only NULL or not matters, kept as     *)
(* zero or a generation), human recipients (they have Deliveries but no    *)
(* wake state), the version fences of Channels, and the change events the  *)
(* same transactions append (module ChangeLedger).  A Direct is a Channel  *)
(* on which no lifecycle operation is called; Threads are not here.        *)
(***************************************************************************)
EXTENDS Integers, FiniteSets

CONSTANTS
  Agents,         \* stable Agent ids, all created before the model starts
  User,           \* the human who owns every Channel
  Channels,
  Sessions,       \* DSH Session ids
  NoSession,
  NoChannel,
  MaxSeq,         \* bound: Messages ever committed
  MaxGeneration,  \* bound: generations ever bound to one Agent
  CheckLimits     \* the limits callers pass to check_inbox

ASSUME UserAssumption == User \notin Agents
ASSUME NoSessionAssumption == NoSession \notin Sessions
ASSUME NoChannelAssumption == NoChannel \notin Channels
ASSUME MaxSeqAssumption == MaxSeq \in Nat
ASSUME MaxGenerationAssumption == MaxGeneration \in Nat \ {0}
ASSUME CheckLimitsAssumption == CheckLimits \subseteq 1..100

VARIABLES
  agents,       \* Agents whose `agents` row exists
  session,      \* runtime_bindings.session_id
  generation,   \* runtime_bindings.generation, 0 when there is no row
  lifecycle,    \* targets: derived from archived_at_ms and deleted_at_ms
  membership,   \* memberships rows of the Agents
  msgTarget,    \* messages: target of each committed global sequence
  lastSeq,      \* messages: AUTOINCREMENT high-water mark
  delivered,    \* deliveries: sequences delivered to each Agent
  checked,      \* deliveries.checked_at_ms IS NOT NULL
  notifiedGen,  \* deliveries.notified_generation, 0 for NULL
  seenGen,      \* deliveries.seen_generation, 0 while not model-seen
  pendingSeq,   \* agent_wake_state.pending_seq, 0 when there is no row
  notifiedSeq,  \* agent_wake_state.notified_seq
  wakeGen,      \* agent_wake_state.notified_generation
  batches       \* inbox_batches with their items

bindings == <<session, generation>>
channels == <<lifecycle, membership>>
messages == <<msgTarget, lastSeq>>
deliveries == <<delivered, checked, notifiedGen, seenGen>>
wakes == <<pendingSeq, notifiedSeq, wakeGen>>

vars == <<agents, bindings, channels, messages, deliveries, wakes, batches>>

Seqs == 1..MaxSeq
Generations == 1..MaxGeneration

Batch == [agent : Agents, session : Sessions, generation : Generations,
          items : SUBSET Seqs]

TypeOK ==
  /\ agents \subseteq Agents
  /\ session \in [Agents -> Sessions \cup {NoSession}]
  /\ generation \in [Agents -> 0..MaxGeneration]
  /\ lifecycle \in [Channels -> {"active", "archived", "deleted"}]
  /\ membership \in [Channels -> [Agents -> {"none", "active", "left"}]]
  /\ msgTarget \in [Seqs -> Channels \cup {NoChannel}]
  /\ lastSeq \in 0..MaxSeq
  /\ delivered \in [Agents -> SUBSET Seqs]
  /\ checked \in [Agents -> SUBSET Seqs]
  /\ notifiedGen \in [Agents -> [Seqs -> 0..MaxGeneration]]
  /\ seenGen \in [Agents -> [Seqs -> 0..MaxGeneration]]
  /\ pendingSeq \in [Agents -> 0..MaxSeq]
  /\ notifiedSeq \in [Agents -> 0..MaxSeq]
  /\ wakeGen \in [Agents -> 0..MaxGeneration]
  /\ batches \subseteq Batch

(* Channels exist with their human owner as the only member.               *)
Init ==
  /\ agents = Agents
  /\ session = [a \in Agents |-> NoSession]
  /\ generation = [a \in Agents |-> 0]
  /\ lifecycle = [c \in Channels |-> "active"]
  /\ membership = [c \in Channels |-> [a \in Agents |-> "none"]]
  /\ msgTarget = [n \in Seqs |-> NoChannel]
  /\ lastSeq = 0
  /\ delivered = [a \in Agents |-> {}]
  /\ checked = [a \in Agents |-> {}]
  /\ notifiedGen = [a \in Agents |-> [n \in Seqs |-> 0]]
  /\ seenGen = [a \in Agents |-> [n \in Seqs |-> 0]]
  /\ pendingSeq = [a \in Agents |-> 0]
  /\ notifiedSeq = [a \in Agents |-> 0]
  /\ wakeGen = [a \in Agents |-> 0]
  /\ batches = {}

-----------------------------------------------------------------------------
(* Authorization.                                                          *)

\* Mutant: the view as it was before migration 009, blind to archived Channels.
TargetAccessActiveOnly(a, c) == membership[c][a] = "active" /\ lifecycle[c] = "active"

\* The view v_target_access: archived Channels stay readable.
TargetAccess(a, c) ==
  /\ membership[c][a] = "active"
  /\ lifecycle[c] # "deleted"

\* The predicate every inbox query repeats: a deleted Channel's deliveries
\* stay listed although nobody is an active member any more.
Listed(a, n) == TargetAccess(a, msgTarget[n]) \/ lifecycle[msgTarget[n]] = "deleted"

\* Mutant: reads of a deleted Channel need an active membership.
AccessGrantActiveOnly(a, c) == membership[c][a] = "active"

\* AccessGrant::require: a deleted Channel accepts a historical membership.
AccessGrant(a, c) ==
  IF lifecycle[c] = "deleted"
  THEN membership[c][a] # "none"
  ELSE membership[c][a] = "active"

\* require_writable for the author of a Message.
Writable(author, c) ==
  /\ lifecycle[c] = "active"
  /\ author # User => AccessGrant(author, c)

Bound(a) == generation[a] # 0

\* require_current_binding, and batch ownership, compare all three fields.
CurrentBinding(a, g, s) == Bound(a) /\ session[a] = s /\ generation[a] = g

-----------------------------------------------------------------------------
(* The level-triggered scan.                                               *)

\* Deliveries one inbox query lists: authorized and not model-seen.
Unseen(a) == {n \in delivered[a] : seenGen[a][n] = 0 /\ Listed(a, n)}

\* pending_seq of the scan: MAX(message_seq) of the listed deliveries.
IsPendingSeq(a, p) == p \in Unseen(a) /\ \A n \in Unseen(a) : n <= p

\* The rows of list_pending_wakes: an Agent with a binding and a wake row.
Due(a) ==
  /\ Bound(a)
  /\ pendingSeq[a] # 0
  /\ \E p \in Seqs :
       /\ IsPendingSeq(a, p)
       /\ \/ p > notifiedSeq[a]
          \/ wakeGen[a] # generation[a]
          \/ \E n \in Unseen(a) : notifiedGen[a][n] # generation[a]

\* Mutant: the newest Deliveries come first.
Newest(S, limit) == {n \in S : Cardinality({m \in S : n < m}) < limit}

\* The first `limit` listed deliveries in sequence order.
Oldest(S, limit) == {n \in S : Cardinality({m \in S : m < n}) < limit}

-----------------------------------------------------------------------------
(* Runtime bindings.                                                       *)

\* Mutant: a rebind keeps the generation of the row it replaces.
BindSameGeneration(a, s) ==
  /\ a \in agents
  /\ \A b \in Agents \ {a} : session[b] # s
  /\ session' = [session EXCEPT ![a] = s]
  /\ generation' = [generation EXCEPT ![a] = IF @ = 0 THEN 1 ELSE @]
  /\ UNCHANGED <<agents, channels, messages, deliveries, wakes, batches>>

\* bind_runtime: the Agent must be live and the Session id unused by others.
BindRuntime(a, s) ==
  /\ a \in agents
  /\ \A b \in Agents \ {a} : session[b] # s
  /\ generation[a] < MaxGeneration
  /\ session' = [session EXCEPT ![a] = s]
  /\ generation' = [generation EXCEPT ![a] = @ + 1]
  /\ UNCHANGED <<agents, channels, messages, deliveries, wakes, batches>>

\* Mutant: the batches of every Agent are deleted with one Agent.
DeleteAgentAllBatches(a) ==
  /\ agents' = agents \ {a}
  /\ session' = [session EXCEPT ![a] = NoSession]
  /\ generation' = [generation EXCEPT ![a] = 0]
  /\ membership' = [c \in Channels |-> [membership[c] EXCEPT ![a] = "none"]]
  /\ pendingSeq' = [pendingSeq EXCEPT ![a] = 0]
  /\ notifiedSeq' = [notifiedSeq EXCEPT ![a] = 0]
  /\ wakeGen' = [wakeGen EXCEPT ![a] = 0]
  /\ batches' = {}
  /\ UNCHANGED <<lifecycle, messages, deliveries>>

\* delete_agent: operational state goes, Messages and Deliveries stay.
DeleteAgent(a) ==
  /\ agents' = agents \ {a}
  /\ session' = [session EXCEPT ![a] = NoSession]
  /\ generation' = [generation EXCEPT ![a] = 0]
  /\ membership' = [c \in Channels |-> [membership[c] EXCEPT ![a] = "none"]]
  /\ pendingSeq' = [pendingSeq EXCEPT ![a] = 0]
  /\ notifiedSeq' = [notifiedSeq EXCEPT ![a] = 0]
  /\ wakeGen' = [wakeGen EXCEPT ![a] = 0]
  /\ batches' = {b \in batches : b.agent # a}
  /\ UNCHANGED <<lifecycle, messages, deliveries>>

-----------------------------------------------------------------------------
(* Channels and Messages.                                                  *)

\* add_member by the owner: upsert, and re-arm the Agent's wake row.  The
\* actors row of a deleted Agent still exists, so it may be added as well.
AddMember(c, a) ==
  /\ lifecycle[c] = "active"
  /\ membership' = [membership EXCEPT ![c][a] = "active"]
  /\ wakeGen' = [wakeGen EXCEPT ![a] = 0]
  /\ UNCHANGED <<agents, bindings, lifecycle, messages, deliveries, pendingSeq, notifiedSeq, batches>>

ArchiveChannel(c) ==
  /\ lifecycle[c] = "active"
  /\ lifecycle' = [lifecycle EXCEPT ![c] = "archived"]
  /\ UNCHANGED <<agents, bindings, membership, messages, deliveries, wakes, batches>>

RestoreChannel(c) ==
  /\ lifecycle[c] = "archived"
  /\ lifecycle' = [lifecycle EXCEPT ![c] = "active"]
  /\ UNCHANGED <<agents, bindings, membership, messages, deliveries, wakes, batches>>

\* delete_channel ends every active membership but keeps its row.
DeleteChannel(c) ==
  /\ lifecycle[c] # "deleted"
  /\ lifecycle' = [lifecycle EXCEPT ![c] = "deleted"]
  /\ membership' = [membership EXCEPT ![c] =
                      [a \in Agents |-> IF @[a] = "active" THEN "left" ELSE @[a]]]
  /\ UNCHANGED <<agents, bindings, messages, deliveries, wakes, batches>>

Recipients(c, author) == {a \in Agents \ {author} : membership[c][a] = "active"}

\* Mutant: an existing wake row keeps its watermark.
SendMessageKeepWatermark(c, author) ==
  LET n == lastSeq + 1
      R == Recipients(c, author)
  IN /\ n <= MaxSeq
     /\ Writable(author, c)
     /\ lastSeq' = n
     /\ msgTarget' = [msgTarget EXCEPT ![n] = c]
     /\ delivered' = [a \in Agents |-> IF a \in R THEN delivered[a] \cup {n}
                                                 ELSE delivered[a]]
     /\ pendingSeq' = [a \in Agents |-> IF a \in R /\ pendingSeq[a] = 0
                                        THEN n ELSE pendingSeq[a]]
     /\ UNCHANGED <<agents, bindings, channels, checked, notifiedGen, seenGen,
                    notifiedSeq, wakeGen, batches>>

\* send_message: the Message, one Delivery per active member except the
\* author, and every recipient's wake watermark, in one transaction.
SendMessage(c, author) ==
  LET n == lastSeq + 1
      R == Recipients(c, author)
  IN /\ n <= MaxSeq
     /\ Writable(author, c)
     /\ lastSeq' = n
     /\ msgTarget' = [msgTarget EXCEPT ![n] = c]
     /\ delivered' = [a \in Agents |-> IF a \in R THEN delivered[a] \cup {n}
                                                 ELSE delivered[a]]
     /\ pendingSeq' = [a \in Agents |-> IF a \in R /\ pendingSeq[a] < n
                                        THEN n ELSE pendingSeq[a]]
     /\ UNCHANGED <<agents, bindings, channels, checked, notifiedGen, seenGen,
                    notifiedSeq, wakeGen, batches>>

-----------------------------------------------------------------------------
(* Wake and inbox calls of one runtime generation.                         *)

\* mark_notified: the wake row and every listed Delivery up to p.
MarkNotified(a, g, s, p) ==
  /\ CurrentBinding(a, g, s)
  /\ p > 0 /\ p <= pendingSeq[a]
  /\ notifiedSeq' = [notifiedSeq EXCEPT ![a] = IF @ < p THEN p ELSE @]
  /\ wakeGen' = [wakeGen EXCEPT ![a] = g]
  /\ notifiedGen' = [notifiedGen EXCEPT ![a] =
                       [n \in Seqs |-> IF n \in Unseen(a) /\ n <= p THEN g ELSE @[n]]]
  /\ UNCHANGED <<agents, bindings, channels, messages, delivered, checked, seenGen,
                 pendingSeq, batches>>

\* rearm_runtime_wake: updates no row when the Agent has no wake row.
Rearm(a, g, s) ==
  /\ CurrentBinding(a, g, s)
  /\ wakeGen' = [wakeGen EXCEPT ![a] = 0]
  /\ UNCHANGED <<agents, bindings, channels, messages, deliveries, pendingSeq, notifiedSeq,
                 batches>>

\* The batch a successful check of one runtime returns.
NewBatch(a, g, s, limit) ==
  [agent |-> a, session |-> s, generation |-> g, items |-> Oldest(Unseen(a), limit)]

\* check_inbox: one target that refuses the Agent fails the whole check; an
\* empty inbox persists nothing.
CheckInbox(a, g, s, limit) ==
  LET b == NewBatch(a, g, s, limit)
  IN /\ CurrentBinding(a, g, s)
     /\ b.items # {}
     /\ \A n \in b.items : AccessGrant(a, msgTarget[n])
     /\ batches' = batches \cup {b}
     /\ checked' = [checked EXCEPT ![a] = @ \cup b.items]
     /\ UNCHANGED <<agents, bindings, channels, messages, delivered, notifiedGen, seenGen,
                    wakes>>

\* mark_model_seen: the batch must carry the caller's own fence, and a
\* receipt never replaces an earlier one.
MarkModelSeen(a, g, s, b) ==
  /\ CurrentBinding(a, g, s)
  /\ b.agent = a /\ b.session = s /\ b.generation = g
  /\ seenGen' = [seenGen EXCEPT ![a] =
                   [n \in Seqs |-> IF n \in b.items /\ @[n] = 0 THEN g ELSE @[n]]]
  /\ UNCHANGED <<agents, bindings, channels, messages, delivered, checked, notifiedGen,
                 wakes, batches>>

-----------------------------------------------------------------------------
ChannelNext ==
  \E c \in Channels :
     \/ ArchiveChannel(c)
     \/ RestoreChannel(c)
     \/ DeleteChannel(c)
     \/ \E a \in Agents : AddMember(c, a)
     \/ \E author \in Agents \cup {User} : SendMessage(c, author)

\* The fence a caller presents is any it was ever given.
AgentNext ==
  \E a \in Agents :
     \/ DeleteAgent(a)
     \/ \E s \in Sessions : BindRuntime(a, s)
     \/ \E g \in Generations, s \in Sessions :
          \/ \E p \in Seqs : MarkNotified(a, g, s, p)
          \/ Rearm(a, g, s)
          \/ \E limit \in CheckLimits : CheckInbox(a, g, s, limit)
          \/ \E b \in batches : MarkModelSeen(a, g, s, b)

Next == ChannelNext \/ AgentNext

Spec == Init /\ [][Next]_vars
-----------------------------------------------------------------------------
(* Properties.                                                             *)

\* The wake row of a live Agent covers every Delivery its model has not seen,
\* so mark_notified (delivery/mod.rs) never refuses a scanned watermark as
\* exceeding the durable one, and unseen work is never without a wake row.
WatermarkCoversUnseen ==
  \A a \in agents : \A n \in delivered[a] :
     seenGen[a][n] = 0 => n <= pendingSeq[a]

\* One refused target would fail a whole check_inbox, and one unlisted Delivery
\* would never be read: every unseen Delivery of a live Agent is listed by the
\* inbox queries and passes AccessGrant, whatever happened to its Channel.
InboxNeverPoisoned ==
  \A a \in agents : \A n \in delivered[a] :
     seenGen[a][n] = 0 => Listed(a, n) /\ AccessGrant(a, msgTarget[n])

\* A model-seen stamp is backed by a batch that the same generation checked and
\* that returned this Delivery: no receipt of another generation counts.
SeenHasReceipt ==
  \A a \in agents : \A n \in Seqs :
     seenGen[a][n] # 0 =>
        \E b \in batches : b.agent = a /\ b.generation = seenGen[a][n] /\ n \in b.items

\* A batch belongs to a generation its Agent really had, and one that carries
\* the current generation carries the current Session: a superseded batch can
\* never pass the fence of mark_model_seen again.
StaleBatchesStayFenced ==
  \A b \in batches :
     /\ b.generation <= generation[b.agent]
     /\ b.generation = generation[b.agent] => b.session = session[b.agent]

\* Receipts respect the order of the conversation: however many batches are
\* outstanding and in whatever order they are confirmed, a Delivery is not
\* model-seen while an older one of the same Agent is unseen.
SeenInOrder ==
  \A a \in agents : \A m, n \in delivered[a] :
     n < m /\ seenGen[a][m] # 0 => seenGen[a][n] # 0

\* The ledger implements the abstract inbox: a step of the ledger posts, reads,
\* closes or leaves the inboxes alone; in particular archiving, restoring or
\* deleting a Channel and rebinding an Agent lose no queued Message.
Inbox == INSTANCE AgentInbox WITH
  open <- agents,
  queued <- [a \in Agents |-> IF a \in agents THEN Unseen(a) ELSE {}],
  read <- [a \in Agents |-> IF a \in agents
                            THEN {n \in delivered[a] : seenGen[a][n] # 0}
                            ELSE {}]

ImplementsInbox == Inbox!Spec
=============================================================================
