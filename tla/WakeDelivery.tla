---------------------------- MODULE WakeDelivery ----------------------------
(***************************************************************************)
(* The host side of wake delivery: RuntimeManager (runtime.ts),            *)
(* DeliveryBridge (delivery.ts), the message_check tool and the idle hook  *)
(* (tools.ts) and the receipt confirmation in front of a model request     *)
(* (index.ts), composed with the wake ledger of the core.                  *)
(*                                                                         *)
(* The host is one event loop, so code between two awaits is one step; a   *)
(* core call is issued in one step, committed in another and answered in a *)
(* third wherever anything may happen in between.  Calls about one Agent   *)
(* are committed and answered in the order they were issued.               *)
(*                                                                         *)
(* Modelled from its use only: the DSH Agent behind a handle.  It runs     *)
(* turns of model requests, queues notices, is torn down by dispose(), and *)
(* may abort a turn.  Notices have equal content, so the queue is a flag.  *)
(***************************************************************************)
EXTENDS WakeLedger, Sequences

CONSTANTS
  NoBinding,   \* no lease
  NoBatch,     \* a check that returned no batch
  NoScan,      \* scanOnce is not holding a list of wakes
  Faults,      \* what goes wrong: a subset of {"dispose", "turn"}
  MaxCrashes   \* bound: process crashes

ASSUME NoBindingAssumption == NoBinding \notin [session : Sessions, generation : Generations]
ASSUME NoBatchAssumption == NoBatch \notin Batch
ASSUME FaultsAssumption == Faults \subseteq {"dispose", "turn"}
ASSUME MaxCrashesAssumption == MaxCrashes \in Nat

VARIABLES
  lease,       \* RuntimeManager.active: the binding of each live handle
  op,          \* the operation that holds each Agent's lock
  receipts,    \* RuntimeManager.pendingReceipts, of the leased Session
  restoring,   \* Agents restore() is still waiting for
  deleting,    \* deleteAgent calls that stopped the Session, uncommitted
  notice,      \* a wake notice is queued in the DSH Agent
  turn,        \* the DSH Agent's turn
  asked,       \* the model was shown a notice it has not answered
  confirming,  \* receipts a confirmModelSeen loop has still to mark
  tool,        \* the message_check execution
  calls,       \* core calls issued and uncommitted, per Agent
  scan,        \* wakes scanOnce read and has not delivered
  crashes

runtimes == <<lease, op, receipts, restoring, deleting>>
turns == <<notice, turn, asked, confirming, tool>>
wires == <<calls, scan>>
hostVars == <<runtimes, turns, wires, crashes>>
allVars == <<vars, hostVars>>

Binding == [session : Sessions, generation : Generations]
AnyBinding == Binding \cup {NoBinding}

\* An operation under the lock of its Agent: the lease it is disposing and the
\* binding it is to publish.
Op == [stage : {"free", "disposing", "creating", "bound", "resuming", "rearming", "rearmed"},
       kind : {"none", "create", "resume", "delete"},
       held : AnyBinding, target : AnyBinding]

Free == [stage |-> "free", kind |-> "none", held |-> NoBinding, target |-> NoBinding]

Call == [kind : {"mark"}, binding : Binding, arg : Seqs]
        \cup [kind : {"check"}, binding : Binding, arg : CheckLimits]
        \cup [kind : {"rearm", "resume"}, binding : Binding, arg : {0}]

Tool == [stage : {"none", "issued", "answered"}, binding : AnyBinding,
         batch : Batch \cup {NoBatch}]

NoTool == [stage |-> "none", binding |-> NoBinding, batch |-> NoBatch]

Wake == [agent : Agents, binding : Binding, seq : Seqs]

HostTypeOK ==
  /\ lease \in [Agents -> AnyBinding]
  /\ op \in [Agents -> Op]
  /\ receipts \in [Agents -> SUBSET Batch]
  /\ restoring \subseteq Agents /\ deleting \subseteq Agents
  /\ notice \in [Agents -> BOOLEAN]
  /\ turn \in [Agents -> {"idle", "confirming", "thinking", "checking", "answered"}]
  /\ asked \in [Agents -> BOOLEAN]
  /\ confirming \in [Agents -> SUBSET Batch]
  /\ tool \in [Agents -> Tool]
  /\ calls \in [Agents -> Seq(Call)]
  /\ scan = NoScan \/ scan \subseteq Wake
  /\ crashes \in 0..MaxCrashes

-----------------------------------------------------------------------------
Durable(a) == [session |-> session[a], generation |-> generation[a]]

Current(a, b) == CurrentBinding(a, b.generation, b.session)

\* resumeLocked, once it read the binding and left no lease.
Resuming(a) ==
  [stage |-> "resuming", kind |-> "resume", held |-> NoBinding, target |-> Durable(a)]

\* The host after a start: no handle, no receipt, no call, every turn over;
\* restore() takes the lock of every bound Agent.
Started ==
  /\ lease' = [a \in Agents |-> NoBinding]
  /\ receipts' = [a \in Agents |-> {}]
  /\ op' = [a \in Agents |->
              IF Bound(a) THEN Resuming(a) ELSE Free]
  /\ restoring' = {a \in Agents : Bound(a)}
  /\ deleting' = {}
  /\ notice' = [a \in Agents |-> FALSE]
  /\ turn' = [a \in Agents |-> "idle"]
  /\ asked' = [a \in Agents |-> FALSE]
  /\ confirming' = [a \in Agents |-> {}]
  /\ tool' = [a \in Agents |-> NoTool]
  /\ calls' = [a \in Agents |-> <<>>]
  /\ scan' = NoScan

HostInit ==
  /\ Init
  /\ lease = [a \in Agents |-> NoBinding]
  /\ op = [a \in Agents |-> Free]
  /\ receipts = [a \in Agents |-> {}]
  /\ restoring = {} /\ deleting = {}
  /\ notice = [a \in Agents |-> FALSE]
  /\ turn = [a \in Agents |-> "idle"]
  /\ asked = [a \in Agents |-> FALSE]
  /\ confirming = [a \in Agents |-> {}]
  /\ tool = [a \in Agents |-> NoTool]
  /\ calls = [a \in Agents |-> <<>>]
  /\ scan = NoScan
  /\ crashes = 0

Issued(a, kind, b, arg) ==
  [calls EXCEPT ![a] = Append(@, [kind |-> kind, binding |-> b, arg |-> arg])]

\* The oldest uncommitted call of an Agent reaches the core.
Commits(a, kind) ==
  /\ calls[a] # <<>>
  /\ Head(calls[a]).kind = kind
  /\ calls' = [calls EXCEPT ![a] = Tail(@)]

-----------------------------------------------------------------------------
(* RuntimeManager.                                                         *)

\* What the operation does once the old handle is gone.
AfterDispose(o) ==
  CASE o.kind = "create" -> [o EXCEPT !.stage = "creating", !.held = NoBinding]
    [] o.kind = "resume" -> [o EXCEPT !.stage = "resuming", !.held = NoBinding]
    [] OTHER -> Free

\* disposeLease up to its await: the lease and its receipts go first.
Dispose(a, kind, target) ==
  LET o == [stage |-> "disposing", kind |-> kind, held |-> lease[a], target |-> target]
  IN /\ op[a] = Free
     /\ op' = [op EXCEPT ![a] = IF lease[a] = NoBinding THEN AfterDispose(o) ELSE o]
     /\ lease' = [lease EXCEPT ![a] = NoBinding]
     /\ receipts' = [receipts EXCEPT ![a] = IF lease[a] = NoBinding THEN @ ELSE {}]
     /\ UNCHANGED <<vars, restoring, turns, wires, crashes>>

\* create or reset, once the new runtime is prepared.
BeginCreate(a) ==
  /\ a \in agents
  /\ Dispose(a, "create", NoBinding)
  /\ UNCHANGED deleting

\* resume, once the durable binding is read.
BeginResume(a) ==
  /\ Bound(a)
  /\ Dispose(a, "resume", Durable(a))
  /\ UNCHANGED deleting

\* Mutant: the Session is not stopped.
BeginDeleteLive(a) ==
  /\ op[a] = Free
  /\ deleting' = deleting \cup {a}
  /\ UNCHANGED <<vars, lease, op, receipts, restoring, turns, wires, crashes>>

\* deleteAgent stops the Session under the lock ...
BeginDelete(a) ==
  /\ Dispose(a, "delete", NoBinding)
  /\ deleting' = IF lease[a] = NoBinding THEN deleting \cup {a} ELSE deleting

\* dispose() resolves: whatever the DSH Agent was doing is torn down.
DisposeDone(a) ==
  /\ op[a].stage = "disposing"
  /\ op' = [op EXCEPT ![a] = AfterDispose(@)]
  /\ deleting' = IF op[a].kind = "delete" THEN deleting \cup {a} ELSE deleting
  /\ notice' = [notice EXCEPT ![a] = FALSE]
  /\ turn' = [turn EXCEPT ![a] = "idle"]
  /\ asked' = [asked EXCEPT ![a] = FALSE]
  /\ UNCHANGED <<vars, lease, receipts, restoring, confirming, tool, wires, crashes>>

\* dispose() rejects: the lease comes back, and the operation fails.
DisposeFails(a) ==
  /\ "dispose" \in Faults
  /\ op[a].stage = "disposing"
  /\ lease' = [lease EXCEPT ![a] = op[a].held]
  /\ op' = [op EXCEPT ![a] = Free]
  /\ restoring' = restoring \ {a}
  /\ UNCHANGED <<vars, receipts, deleting, turns, wires, crashes>>

\* ... and deletes the Agent outside it.
DeleteCommit(a) ==
  /\ a \in deleting
  /\ DeleteAgent(a)
  /\ deleting' = deleting \ {a}
  /\ UNCHANGED <<lease, op, receipts, restoring, turns, wires, crashes>>

\* bind_runtime of the fresh Session; a deletion issued before it is over.
CommitBind(a, s) ==
  /\ op[a].stage = "creating" /\ a \notin deleting
  /\ s # session[a]
  /\ BindRuntime(a, s)
  /\ op' = [op EXCEPT ![a].stage = "bound",
                      ![a].target = [session |-> s, generation |-> generation[a] + 1]]
  /\ UNCHANGED <<lease, receipts, restoring, deleting, turns, wires, crashes>>

\* DSH or the core refuses the new Session: reset resumes the binding it was
\* to replace, if any; create does not.
CreateFails(a) ==
  /\ op[a].stage = "creating"
  /\ \/ op' = [op EXCEPT ![a] = Free]
     \/ Bound(a) /\ op' = [op EXCEPT ![a] = Resuming(a)]
  /\ UNCHANGED <<vars, lease, receipts, restoring, deleting, turns, wires, crashes>>

\* active.set at the end of create.
PublishCreate(a) ==
  /\ op[a].stage = "bound"
  /\ lease' = [lease EXCEPT ![a] = op[a].target]
  /\ op' = [op EXCEPT ![a] = Free]
  /\ UNCHANGED <<vars, receipts, restoring, deleting, turns, wires, crashes>>

\* registry.resume rejects, or the binding changed meanwhile.
ResumeFails(a) ==
  /\ op[a].stage = "resuming"
  /\ op' = [op EXCEPT ![a] = Free]
  /\ restoring' = restoring \ {a}
  /\ UNCHANGED <<vars, lease, receipts, deleting, turns, wires, crashes>>

\* Mutant: the Session is published without a re-arm.
IssueRearmSkipped(a) ==
  /\ op[a].stage = "resuming" /\ a \notin deleting
  /\ Current(a, op[a].target)
  /\ op' = [op EXCEPT ![a].stage = "rearmed"]
  /\ UNCHANGED <<vars, lease, receipts, restoring, deleting, turns, wires, crashes>>

\* The binding is still the one that was read: re-arm it.
IssueRearm(a) ==
  /\ op[a].stage = "resuming" /\ a \notin deleting
  /\ Current(a, op[a].target)
  /\ op' = [op EXCEPT ![a].stage = "rearming"]
  /\ calls' = Issued(a, "resume", op[a].target, 0)
  /\ UNCHANGED <<vars, lease, receipts, restoring, deleting, turns, scan, crashes>>

ResumeRearm(a) ==
  /\ op[a].stage = "rearming"
  /\ Commits(a, "resume")
  /\ IF Current(a, op[a].target)
     THEN /\ Rearm(a, op[a].target.generation, op[a].target.session)
          /\ op' = [op EXCEPT ![a].stage = "rearmed"]
          /\ UNCHANGED restoring
     ELSE /\ op' = [op EXCEPT ![a] = Free]
          /\ restoring' = restoring \ {a}
          /\ UNCHANGED vars
  /\ UNCHANGED <<lease, receipts, deleting, turns, scan, crashes>>

\* active.set at the end of resume, once every older call has answered.
PublishResume(a) ==
  /\ op[a].stage = "rearmed"
  /\ tool[a] = NoTool
  /\ lease' = [lease EXCEPT ![a] = op[a].target]
  /\ op' = [op EXCEPT ![a] = Free]
  /\ restoring' = restoring \ {a}
  /\ UNCHANGED <<vars, receipts, deleting, turns, wires, crashes>>

-----------------------------------------------------------------------------
(* DeliveryBridge.                                                         *)

Wakes == {w \in Wake : Due(w.agent) /\ w.binding = Durable(w.agent)
                       /\ IsPendingSeq(w.agent, w.seq)}

\* list_pending_wakes commits.  restore() is over, and so is the last scan,
\* which waited for every mark it issued.
ScanRead ==
  /\ restoring = {} /\ scan = NoScan
  /\ \A a \in Agents : \A i \in DOMAIN calls[a] : calls[a][i].kind # "mark"
  /\ Wakes # {}
  /\ scan' = Wakes
  /\ UNCHANGED <<vars, runtimes, turns, calls, crashes>>

\* Its answer arrives: in one go, every wake whose exact binding is leased is
\* put in its Agent's queue, and its mark_notified is issued.
Delivered == {w \in scan : lease[w.agent] = w.binding}

ScanDeliver ==
  /\ scan # NoScan
  /\ notice' = [a \in Agents |-> notice[a] \/ \E w \in Delivered : w.agent = a]
  /\ calls' = [a \in Agents |->
       IF \E w \in Delivered : w.agent = a
       THEN LET w == CHOOSE w \in Delivered : w.agent = a
            IN Append(calls[a], [kind |-> "mark", binding |-> w.binding, arg |-> w.seq])
       ELSE calls[a]]
  /\ scan' = NoScan
  /\ UNCHANGED <<vars, runtimes, turn, asked, confirming, tool, crashes>>

\* A mark the core refuses is logged and forgotten.
MarkCommit(a) ==
  LET c == Head(calls[a])
  IN /\ Commits(a, "mark")
     /\ IF Current(a, c.binding) /\ c.arg <= pendingSeq[a]
        THEN MarkNotified(a, c.binding.generation, c.binding.session, c.arg)
        ELSE UNCHANGED vars
     /\ UNCHANGED <<runtimes, turns, scan, crashes>>

-----------------------------------------------------------------------------
(* Turns of the DSH Agent.                                                 *)

\* A model request is assembled; its iteration starts with confirmModelSeen,
\* which loops over a copy of the receipts.
BeginRequest(a) ==
  /\ \/ turn[a] = "idle" /\ notice[a]
     \/ turn[a] = "answered"
  /\ turn' = [turn EXCEPT ![a] = "confirming"]
  /\ asked' = [asked EXCEPT ![a] = @ \/ notice[a]]
  /\ notice' = [notice EXCEPT ![a] = FALSE]
  /\ confirming' = [confirming EXCEPT ![a] = @ \cup receipts[a]]
  /\ UNCHANGED <<vars, runtimes, tool, wires, crashes>>

\* One mark_model_seen of that loop; a refused receipt is kept.
Confirm(a, b) ==
  /\ b \in confirming[a]
  /\ confirming' = [confirming EXCEPT ![a] = @ \ {b}]
  /\ IF CurrentBinding(a, b.generation, b.session) /\ b \in batches
     THEN /\ MarkModelSeen(a, b.generation, b.session, b)
          /\ receipts' = [receipts EXCEPT ![a] = @ \ {b}]
     ELSE UNCHANGED <<vars, receipts>>
  /\ UNCHANGED <<lease, op, restoring, deleting, notice, turn, asked, tool, wires, crashes>>

\* The loop is over and the request streams.
RequestSent(a) ==
  /\ turn[a] = "confirming" /\ confirming[a] = {}
  /\ turn' = [turn EXCEPT ![a] = "thinking"]
  /\ UNCHANGED <<vars, runtimes, notice, asked, confirming, tool, wires, crashes>>

\* The model answers a notice with message_check.  bindingForExecution refuses
\* it unless the durable binding of the Session is leased.
CallCheck(a, limit) ==
  /\ turn[a] = "thinking" /\ asked[a] /\ tool[a] = NoTool
  /\ IF lease[a] # NoBinding /\ lease[a] = Durable(a)
     THEN /\ turn' = [turn EXCEPT ![a] = "checking"]
          /\ tool' = [tool EXCEPT ![a] = [stage |-> "issued", binding |-> lease[a],
                                         batch |-> NoBatch]]
          /\ calls' = Issued(a, "check", lease[a], limit)
          /\ UNCHANGED asked
     ELSE /\ turn' = [turn EXCEPT ![a] = "answered"]
          /\ asked' = [asked EXCEPT ![a] = FALSE]
          /\ UNCHANGED <<tool, calls>>
  /\ UNCHANGED <<vars, runtimes, notice, confirming, scan, crashes>>

\* check_inbox commits, or finds nothing, or is refused.
CheckCommit(a) ==
  LET c == Head(calls[a])
      b == NewBatch(a, c.binding.generation, c.binding.session, c.arg)
      answer(x) == [tool EXCEPT ![a] = [stage |-> "answered", binding |-> @.binding,
                                        batch |-> x]]
  IN /\ Commits(a, "check")
     /\ \/ /\ CheckInbox(a, c.binding.generation, c.binding.session, c.arg)
           /\ tool' = answer(b)
        \/ /\ \/ ~Current(a, c.binding)
              \/ b.items = {}
              \/ \E n \in b.items : ~AccessGrant(a, msgTarget[n])
           /\ tool' = answer(NoBatch)
           /\ UNCHANGED vars
     /\ UNCHANGED <<runtimes, notice, turn, asked, confirming, scan, crashes>>

\* Mutant: a batch is recorded whatever runtime it was checked for.
CheckRecordUnfenced(a) ==
  /\ tool[a].stage = "answered"
  /\ receipts' = [receipts EXCEPT ![a] =
       IF tool[a].batch # NoBatch THEN @ \cup {tool[a].batch} ELSE @]
  /\ tool' = [tool EXCEPT ![a] = NoTool]
  /\ IF turn[a] = "checking"
     THEN /\ turn' = [turn EXCEPT ![a] = "answered"]
          /\ asked' = [asked EXCEPT ![a] = FALSE]
     ELSE UNCHANGED <<turn, asked>>
  /\ UNCHANGED <<vars, lease, op, restoring, deleting, notice, confirming, wires, crashes>>

\* The tool resumes: recordInboxBatch, which throws when the lease is another.
CheckRecord(a) ==
  /\ tool[a].stage = "answered"
  /\ receipts' = [receipts EXCEPT ![a] =
       IF tool[a].batch # NoBatch /\ lease[a] = tool[a].binding
       THEN @ \cup {tool[a].batch} ELSE @]
  /\ tool' = [tool EXCEPT ![a] = NoTool]
  /\ IF turn[a] = "checking"
     THEN /\ turn' = [turn EXCEPT ![a] = "answered"]
          /\ asked' = [asked EXCEPT ![a] = FALSE]
     ELSE UNCHANGED <<turn, asked>>
  /\ UNCHANGED <<vars, lease, op, restoring, deleting, notice, confirming, wires, crashes>>

\* Mutant: there is no idle hook.
FinishTurnNoRearm(a) ==
  /\ turn[a] \in {"confirming", "thinking", "answered"}
  /\ asked[a] => "turn" \in Faults
  /\ turn' = [turn EXCEPT ![a] = "idle"]
  /\ asked' = [asked EXCEPT ![a] = FALSE]
  /\ UNCHANGED <<vars, runtimes, notice, confirming, tool, wires, crashes>>

\* The turn ends, normally or aborted, and the idle hook runs rearmUnconfirmed.
\* Only the fault "turn" aborts it between a notice and its message_check.
FinishTurn(a) ==
  /\ turn[a] \in {"confirming", "thinking", "answered"}
  /\ asked[a] => "turn" \in Faults
  /\ turn' = [turn EXCEPT ![a] = "idle"]
  /\ asked' = [asked EXCEPT ![a] = FALSE]
  /\ calls' = IF lease[a] # NoBinding /\ receipts[a] # {}
              THEN Issued(a, "rearm", lease[a], 0) ELSE calls
  /\ UNCHANGED <<vars, runtimes, notice, confirming, tool, scan, crashes>>

RearmCommit(a) ==
  LET b == Head(calls[a]).binding
  IN /\ Commits(a, "rearm")
     /\ IF Current(a, b) THEN Rearm(a, b.generation, b.session) ELSE UNCHANGED vars
     /\ UNCHANGED <<runtimes, turns, scan, crashes>>

-----------------------------------------------------------------------------
\* The process dies and starts again; the database is all that survives.
Crash ==
  /\ crashes < MaxCrashes
  /\ crashes' = crashes + 1
  /\ Started
  /\ UNCHANGED vars

ManagerNext(a) ==
  \/ BeginCreate(a) \/ BeginResume(a) \/ BeginDelete(a)
  \/ DisposeDone(a) \/ DisposeFails(a) \/ DeleteCommit(a)
  \/ \E s \in Sessions : CommitBind(a, s)
  \/ CreateFails(a) \/ PublishCreate(a)
  \/ ResumeFails(a) \/ IssueRearm(a) \/ ResumeRearm(a) \/ PublishResume(a)

TurnNext(a) ==
  \/ BeginRequest(a) \/ RequestSent(a)
  \/ \E b \in confirming[a] : Confirm(a, b)
  \/ \E limit \in CheckLimits : CallCheck(a, limit)
  \/ CheckCommit(a) \/ CheckRecord(a)
  \/ FinishTurn(a) \/ RearmCommit(a)

HostNext ==
  \/ \E a \in Agents : ManagerNext(a) \/ TurnNext(a) \/ MarkCommit(a)
  \/ ScanRead \/ ScanDeliver
  \/ Crash
  \/ ChannelNext /\ UNCHANGED hostVars

HostSpec == HostInit /\ [][HostNext]_allVars

\* The poll timer keeps scanning, the core answers, dispose() settles, and the
\* DSH Agent works through its queue.  No operation need ever be requested.
HostFairness ==
  /\ WF_allVars(ScanRead) /\ WF_allVars(ScanDeliver)
  /\ \A a \in Agents :
       /\ WF_allVars(MarkCommit(a)) /\ WF_allVars(RearmCommit(a))
       /\ WF_allVars(CheckCommit(a)) /\ WF_allVars(CheckRecord(a))
       /\ WF_allVars(ResumeRearm(a))
       /\ WF_allVars(BeginRequest(a)) /\ WF_allVars(RequestSent(a))
       /\ WF_allVars(\E b \in confirming[a] : Confirm(a, b))
       /\ WF_allVars(\E limit \in CheckLimits : CallCheck(a, limit))
       /\ WF_allVars(FinishTurn(a))

FairHostSpec == HostSpec /\ HostFairness
-----------------------------------------------------------------------------
(* Properties.                                                             *)

\* runtime.ts: "Resolve only the handle matching the exact durable Session
\* generation".  However operations, deletion and crashes interleave, a live
\* handle is the one the durable binding names; a deleted Agent has none.
LeaseIsCurrent == \A a \in Agents : lease[a] # NoBinding => Current(a, lease[a])

\* A receipt that waits for the next model request carries the fence of the
\* leased runtime and stands for a stored batch, so confirmModelSeen is never
\* refused and no receipt outlives its Session.
ReceiptsAreCurrent ==
  \A a \in Agents : \A b \in receipts[a] :
     /\ lease[a] = [session |-> b.session, generation |-> b.generation]
     /\ b \in batches

\* The work of a leased Agent is in somebody's hands: listed by the next scan,
\* or in a queued or unanswered notice, or in a re-arm under way, or in a turn
\* that is checking it or has still to confirm it.
NoLostWake ==
  \A a \in Agents : lease[a] # NoBinding /\ Unseen(a) # {} =>
     \/ Due(a) \/ notice[a] \/ asked[a]
     \/ \E i \in DOMAIN calls[a] : calls[a][i].kind = "rearm"
     \/ turn[a] # "idle" /\ (tool[a] # NoTool \/ receipts[a] # {} \/ confirming[a] # {})

\* Nothing about the Agent is under way.
Quiet(a) ==
  /\ lease[a] # NoBinding /\ op[a] = Free /\ turn[a] = "idle" /\ ~notice[a]
  /\ calls[a] = <<>> /\ tool[a] = NoTool /\ confirming[a] = {}

\* runtime.ts: "Re-arm an idle Agent whose checked batch never reached another
\* model request": a quiet Agent's checked and unseen Messages are reported.
CheckedIsRearmed ==
  \A a \in Agents : Quiet(a) /\ Unseen(a) \cap checked[a] # {} => Due(a)

\* A Message delivered to an Agent whose runtime stays up reaches its model.
EventuallySeen ==
  \A a \in Agents, n \in Seqs :
     (lease[a] # NoBinding /\ n \in Unseen(a)) ~> (seenGen[a][n] # 0 \/ lease[a] = NoBinding)
=============================================================================
