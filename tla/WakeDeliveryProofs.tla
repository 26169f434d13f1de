------------------------- MODULE WakeDeliveryProofs -------------------------
(***************************************************************************)
(* Theorems about WakeDelivery, for every value of its constants: the host *)
(* drives the ledger only through its calls, so the ledger's theorems hold *)
(* of the composition; a live handle is the durable runtime, and so is     *)
(* every receipt; no wake is lost.                                         *)
(***************************************************************************)
EXTENDS WakeDelivery, WakeLedgerProofs

USE UserAssumption, NoSessionAssumption, NoChannelAssumption, MaxSeqAssumption,
    MaxGenerationAssumption, CheckLimitsAssumption, NoBindingAssumption, NoBatchAssumption

-----------------------------------------------------------------------------
(* The inductive invariant.                                                *)

\* A binding row names a Session.
BoundHasSession(a) == Bound(a) => session[a] \in Sessions

\* An operation that is to publish a binding knows which one.
TargetReady(a) ==
  \/ op[a].stage \in {"bound", "resuming", "rearming", "rearmed"}
  \/ op[a].stage = "disposing" /\ op[a].kind = "resume"
  => op[a].target \in Binding

\* The holder of the Agent's lock has taken its lease away.
LockTakesLease(a) == lease[a] # NoBinding => op[a].stage = "free"

\* The lease a failed dispose() puts back is current.
HeldIsCurrent(a) ==
  op[a].stage = "disposing" => op[a].held \in Binding /\ Current(a, op[a].held)

\* What an operation is about to publish is current.
TargetIsCurrent(a) == op[a].stage \in {"bound", "rearmed"} => Current(a, op[a].target)

\* While a deletion is under way no handle lives and none is being published.
DeletionStops(a) ==
  a \in deleting => lease[a] = NoBinding /\ op[a].stage \in {"free", "creating", "resuming"}

AgentOK(a) ==
  /\ BoundHasSession(a) /\ TargetReady(a) /\ LockTakesLease(a) /\ HeldIsCurrent(a)
  /\ TargetIsCurrent(a) /\ DeletionStops(a)
  /\ lease[a] # NoBinding => Current(a, lease[a])

HInv == TypeOK /\ HostTypeOK /\ \A a \in Agents : AgentOK(a)

-----------------------------------------------------------------------------
(* Every step of the host is a step of the ledger.                         *)

\* A fence the core accepts is one the ledger's next-state relation offers.
LEMMA FenceInRange ==
  ASSUME TypeOK, NEW a \in Agents, BoundHasSession(a), NEW g, NEW s, CurrentBinding(a, g, s)
  PROVE  g \in Generations /\ s \in Sessions
BY DEF TypeOK, BoundHasSession, CurrentBinding, Bound, Generations

\* The oldest call of an Agent is a call.
LEMMA HeadIsCall ==
  ASSUME HostTypeOK, NEW a \in Agents, NEW kind, Commits(a, kind)
  PROVE  /\ Head(calls[a]) \in Call
         /\ Head(calls[a]).kind = kind
         /\ calls' \in [Agents -> Seq(Call)]
<1>1. calls \in [Agents -> Seq(Call)] /\ calls[a] \in Seq(Call)
  BY DEF HostTypeOK
<1>2. Head(calls[a]) \in Call /\ Tail(calls[a]) \in Seq(Call)
  BY <1>1 DEF Commits
<1> QED BY <1>1, <1>2 DEF Commits

LEMMA StepLedger == HInv /\ [HostNext]_allVars => [Next]_vars
<1> SUFFICES ASSUME HInv, [HostNext]_allVars PROVE [Next]_vars
  OBVIOUS
<1>0. TypeOK /\ HostTypeOK /\ \A a \in Agents : BoundHasSession(a)
  BY DEF HInv, AgentOK
<1>1. ASSUME NEW a \in Agents, DeleteCommit(a) PROVE Next
  BY <1>1 DEF DeleteCommit, Next, AgentNext
<1>2. ASSUME NEW a \in Agents, NEW s \in Sessions, CommitBind(a, s) PROVE Next
  BY <1>2 DEF CommitBind, Next, AgentNext
<1>3. ASSUME NEW a \in Agents, ResumeRearm(a) PROVE [Next]_vars
  <2>1. CASE Current(a, op[a].target)
    <3> DEFINE g == op[a].target.generation
               s == op[a].target.session
    <3>1. Rearm(a, g, s)
      BY <1>3, <2>1 DEF ResumeRearm
    <3>2. g \in Generations /\ s \in Sessions
      BY <2>1, <1>0, FenceInRange DEF Current
    <3> QED BY <3>1, <3>2 DEF Next, AgentNext
  <2>2. CASE ~Current(a, op[a].target)
    BY <1>3, <2>2 DEF ResumeRearm
  <2> QED BY <2>1, <2>2
<1>4. ASSUME NEW a \in Agents, RearmCommit(a) PROVE [Next]_vars
  <2> DEFINE b == Head(calls[a]).binding
  <2>1. CASE Current(a, b)
    <3>1. Rearm(a, b.generation, b.session)
      BY <1>4, <2>1 DEF RearmCommit
    <3>2. b.generation \in Generations /\ b.session \in Sessions
      BY <2>1, <1>0, FenceInRange DEF Current
    <3> QED BY <3>1, <3>2 DEF Next, AgentNext
  <2>2. CASE ~Current(a, b)
    BY <1>4, <2>2 DEF RearmCommit
  <2> QED BY <2>1, <2>2
<1>5. ASSUME NEW a \in Agents, MarkCommit(a) PROVE [Next]_vars
  <2> DEFINE c == Head(calls[a])
  <2>1. CASE Current(a, c.binding) /\ c.arg <= pendingSeq[a]
    <3>1. MarkNotified(a, c.binding.generation, c.binding.session, c.arg)
      BY <1>5, <2>1 DEF MarkCommit
    <3>2. c.binding.generation \in Generations /\ c.binding.session \in Sessions
      BY <2>1, <1>0, FenceInRange DEF Current
    <3>3. c.arg \in Seqs
      BY <1>5, <1>0, HeadIsCall DEF MarkCommit, Call
    <3> QED BY <3>1, <3>2, <3>3 DEF Next, AgentNext
  <2>2. CASE ~(Current(a, c.binding) /\ c.arg <= pendingSeq[a])
    BY <1>5, <2>2 DEF MarkCommit
  <2> QED BY <2>1, <2>2
<1>6. ASSUME NEW a \in Agents, CheckCommit(a) PROVE [Next]_vars
  <2> DEFINE c == Head(calls[a])
  <2>1. CASE CheckInbox(a, c.binding.generation, c.binding.session, c.arg)
    <3>1. c.binding.generation \in Generations /\ c.binding.session \in Sessions
      BY <2>1, <1>0, FenceInRange DEF CheckInbox
    <3>2. c.arg \in CheckLimits
      <4>1. c \in Call /\ c.kind = "check"
        BY <1>6, <1>0, HeadIsCall DEF CheckCommit
      <4> QED BY <4>1 DEF Call
    <3> QED BY <2>1, <3>1, <3>2 DEF Next, AgentNext
  <2>2. CASE ~CheckInbox(a, c.binding.generation, c.binding.session, c.arg)
    BY <1>6, <2>2 DEF CheckCommit
  <2> QED BY <2>1, <2>2
<1>7. ASSUME NEW a \in Agents, NEW b \in confirming[a], Confirm(a, b) PROVE [Next]_vars
  <2>1. CASE CurrentBinding(a, b.generation, b.session) /\ b \in batches
    <3>1. MarkModelSeen(a, b.generation, b.session, b)
      BY <1>7, <2>1 DEF Confirm
    <3>2. b.generation \in Generations /\ b.session \in Sessions
      BY <2>1, <1>0, FenceInRange
    <3> QED BY <2>1, <3>1, <3>2 DEF Next, AgentNext
  <2>2. CASE ~(CurrentBinding(a, b.generation, b.session) /\ b \in batches)
    BY <1>7, <2>2 DEF Confirm
  <2> QED BY <2>1, <2>2
<1>8. ASSUME NEW a \in Agents, ManagerNext(a) PROVE [Next]_vars
  <2>1. CASE BeginCreate(a) \/ BeginResume(a) \/ BeginDelete(a)
    BY <2>1 DEF BeginCreate, BeginResume, BeginDelete, Dispose
  <2>2. CASE DisposeDone(a) \/ DisposeFails(a) \/ CreateFails(a) \/ PublishCreate(a)
    BY <2>2 DEF DisposeDone, DisposeFails, CreateFails, PublishCreate
  <2>3. CASE ResumeFails(a) \/ IssueRearm(a) \/ PublishResume(a)
    BY <2>3 DEF ResumeFails, IssueRearm, PublishResume
  <2> QED BY <1>8, <1>1, <1>2, <1>3, <2>1, <2>2, <2>3 DEF ManagerNext
<1>9. ASSUME NEW a \in Agents, TurnNext(a) PROVE [Next]_vars
  <2>1. CASE BeginRequest(a) \/ RequestSent(a) \/ FinishTurn(a) \/ CheckRecord(a)
    BY <2>1 DEF BeginRequest, RequestSent, FinishTurn, CheckRecord
  <2>2. ASSUME NEW limit \in CheckLimits, CallCheck(a, limit) PROVE UNCHANGED vars
    BY <2>2 DEF CallCheck
  <2> QED BY <1>9, <1>4, <1>6, <1>7, <2>1, <2>2 DEF TurnNext
<1>10. CASE ScanRead \/ ScanDeliver \/ Crash
  BY <1>10 DEF ScanRead, ScanDeliver, Crash
<1>11. CASE ChannelNext
  BY <1>11 DEF Next
<1>12. CASE UNCHANGED allVars
  BY <1>12 DEF allVars
<1> QED BY <1>5, <1>8, <1>9, <1>10, <1>11, <1>12 DEF HostNext

-----------------------------------------------------------------------------
(* What each operation does to the Agent it is about.                      *)

LEMMA AfterDisposeIsOp ==
  ASSUME NEW o \in Op
  PROVE  /\ AfterDispose(o) \in Op
         /\ AfterDispose(o).stage \in {"free", "creating", "resuming"}
         /\ AfterDispose(o).stage = "resuming" => o.kind = "resume"
         /\ AfterDispose(o).stage = "resuming" => AfterDispose(o).target = o.target
         /\ o.kind = "delete" => AfterDispose(o) = Free
BY DEF AfterDispose, Op, Free, AnyBinding

LEMMA FreeIsOp == Free \in Op /\ Free.stage = "free"
BY DEF Free, Op, AnyBinding

\* A step about one Agent leaves the others as they were.
LEMMA OtherAgent ==
  ASSUME NEW x \in Agents, AgentOK(x),
         session'[x] = session[x], generation'[x] = generation[x],
         lease'[x] = lease[x], op'[x] = op[x], x \in deleting' => x \in deleting
  PROVE  AgentOK(x)'
BY DEF AgentOK, BoundHasSession, TargetReady, LockTakesLease, HeldIsCurrent, TargetIsCurrent,
       DeletionStops, Bound, Current, CurrentBinding, Durable

\* The runtime variables stay well typed.
RuntimesOK ==
  /\ lease \in [Agents -> AnyBinding] /\ op \in [Agents -> Op] /\ deleting \subseteq Agents

LEMMA DurableIsBinding ==
  ASSUME TypeOK, NEW a \in Agents, BoundHasSession(a), Bound(a)
  PROVE  Durable(a) \in Binding /\ Current(a, Durable(a))
BY DEF TypeOK, BoundHasSession, Bound, Durable, Binding, Generations, Current, CurrentBinding

LEMMA StepDispose ==
  ASSUME HInv, NEW a \in Agents, NEW kind \in {"create", "resume", "delete"},
         NEW target \in AnyBinding, kind = "resume" => target \in Binding,
         Dispose(a, kind, target),
         \/ deleting' = deleting
         \/ deleting' = deleting \cup {a} /\ kind = "delete" /\ lease[a] = NoBinding
  PROVE  RuntimesOK' /\ \A x \in Agents : AgentOK(x)'
<1> DEFINE o == [stage |-> "disposing", kind |-> kind, held |-> lease[a], target |-> target]
<1>1. lease \in [Agents -> AnyBinding] /\ op \in [Agents -> Op] /\ deleting \subseteq Agents
  BY DEF HInv, HostTypeOK
<1>2. o \in Op
  BY <1>1 DEF Op
<1>3. op' = [op EXCEPT ![a] = IF lease[a] = NoBinding THEN AfterDispose(o) ELSE o]
      /\ lease' = [lease EXCEPT ![a] = NoBinding] /\ session' = session /\ generation' = generation
  BY DEF Dispose, vars, bindings
<1>4. RuntimesOK'
  BY <1>1, <1>2, <1>3, AfterDisposeIsOp DEF RuntimesOK, AnyBinding
<1>5. ASSUME NEW x \in Agents, x # a PROVE AgentOK(x)'
  BY <1>1, <1>3, <1>5, OtherAgent DEF HInv
<1>6. AgentOK(a) /\ op[a] = Free
  BY DEF HInv, Dispose
<1>7. AgentOK(a)'
  <2>1. lease'[a] = NoBinding /\ op'[a] = IF lease[a] = NoBinding THEN AfterDispose(o) ELSE o
    BY <1>1, <1>3
  <2>2. CASE lease[a] = NoBinding
    <3>1. op'[a].stage \in {"free", "creating", "resuming"}
          /\ (op'[a].stage = "resuming" => op'[a].target \in Binding)
      BY <2>1, <2>2, <1>2, AfterDisposeIsOp
    <3> QED BY <2>1, <3>1, <1>3, <1>6
            DEF AgentOK, BoundHasSession, TargetReady, LockTakesLease, HeldIsCurrent,
                TargetIsCurrent, DeletionStops, Bound
  <2>3. CASE lease[a] # NoBinding
    <3>1. lease[a] \in Binding /\ Current(a, lease[a]) /\ a \notin deleting'
      BY <1>1, <1>6, <2>3 DEF AnyBinding, AgentOK, DeletionStops
    <3> QED BY <2>1, <2>3, <3>1, <1>3, <1>6
            DEF AgentOK, BoundHasSession, TargetReady, LockTakesLease, HeldIsCurrent,
                TargetIsCurrent, DeletionStops, Bound, Current, CurrentBinding
  <2> QED BY <2>2, <2>3
<1> QED BY <1>4, <1>5, <1>7

\* Every operation of RuntimeManager, and the deletion that follows one.
LEMMA StepManager ==
  ASSUME HInv, NEW a \in Agents, ManagerNext(a)
  PROVE  RuntimesOK' /\ \A x \in Agents : AgentOK(x)'
<1>1. /\ lease \in [Agents -> AnyBinding] /\ op \in [Agents -> Op] /\ deleting \subseteq Agents
      /\ AgentOK(a) /\ op[a] \in Op /\ TypeOK
  BY DEF HInv, HostTypeOK
<1> DEFINE Others == \A x \in Agents : x # a => AgentOK(x)'
<1> USE DEF vars, bindings
<1>2. CASE BeginCreate(a)
  <2>1. Dispose(a, "create", NoBinding) /\ deleting' = deleting /\ NoBinding \in AnyBinding
    BY <1>2 DEF BeginCreate, AnyBinding
  <2> QED BY <2>1, StepDispose
<1>3. CASE BeginResume(a)
  <2>1. Durable(a) \in Binding
    BY <1>1, <1>3, DurableIsBinding DEF BeginResume, AgentOK
  <2>2. Dispose(a, "resume", Durable(a)) /\ deleting' = deleting /\ Durable(a) \in AnyBinding
    BY <1>3, <2>1 DEF BeginResume, AnyBinding
  <2> QED BY <2>1, <2>2, StepDispose
<1>4. CASE BeginDelete(a)
  <2>1. Dispose(a, "delete", NoBinding) /\ NoBinding \in AnyBinding
        /\ \/ deleting' = deleting
           \/ deleting' = deleting \cup {a} /\ lease[a] = NoBinding
    BY <1>4 DEF BeginDelete, AnyBinding
  <2> QED BY <2>1, StepDispose
<1>5. CASE DisposeDone(a)
  <2>1. AfterDispose(op[a]) \in Op
        /\ AfterDispose(op[a]).stage \in {"free", "creating", "resuming"}
        /\ (AfterDispose(op[a]).stage = "resuming"
              => AfterDispose(op[a]).target = op[a].target /\ op[a].kind = "resume")
        /\ lease[a] = NoBinding
    BY <1>1, <1>5, AfterDisposeIsOp DEF DisposeDone, AgentOK, LockTakesLease
  <2>2. RuntimesOK'
    BY <2>1, <1>1, <1>5 DEF DisposeDone, RuntimesOK
  <2>3. Others
    BY <1>1, <1>5, OtherAgent DEF DisposeDone, HInv
  <2>4. AgentOK(a)'
    BY <2>1, <1>1, <1>5 DEF DisposeDone, AgentOK, BoundHasSession, TargetReady, LockTakesLease, HeldIsCurrent,
          TargetIsCurrent, DeletionStops, Bound, Current, CurrentBinding, Durable
  <2> QED BY <2>2, <2>3, <2>4
<1>6. CASE DisposeFails(a)
  <2>1. op[a].held \in Binding /\ Current(a, op[a].held) /\ a \notin deleting
    BY <1>1, <1>6 DEF DisposeFails, AgentOK, HeldIsCurrent, DeletionStops
  <2>2. RuntimesOK'
    BY <2>1, FreeIsOp, <1>1, <1>6 DEF DisposeFails, RuntimesOK, AnyBinding
  <2>3. Others
    BY <1>1, <1>6, OtherAgent DEF DisposeFails, HInv
  <2>4. AgentOK(a)'
    BY <2>1, FreeIsOp, <1>1, <1>6 DEF DisposeFails, AnyBinding, AgentOK, BoundHasSession, TargetReady, LockTakesLease, HeldIsCurrent,
          TargetIsCurrent, DeletionStops, Bound, Current, CurrentBinding, Durable
  <2> QED BY <2>2, <2>3, <2>4
<1>7. CASE DeleteCommit(a)
  <2>1. lease[a] = NoBinding /\ op[a].stage \in {"free", "creating", "resuming"}
    BY <1>1, <1>7 DEF DeleteCommit, AgentOK, DeletionStops
  <2>2. RuntimesOK'
    BY <2>1, <1>1, <1>7 DEF DeleteCommit, RuntimesOK
  <2>3. Others
    BY <1>1, <1>7, OtherAgent DEF DeleteCommit, HInv, DeleteAgent, TypeOK
  <2>4. AgentOK(a)'
    BY <2>1, <1>1, <1>7 DEF DeleteCommit, DeleteAgent, TypeOK, AgentOK, BoundHasSession, TargetReady, LockTakesLease, HeldIsCurrent,
          TargetIsCurrent, DeletionStops, Bound, Current, CurrentBinding, Durable
  <2> QED BY <2>2, <2>3, <2>4
<1>8. CASE CreateFails(a)
  <2>1. Bound(a) => /\ Resuming(a) \in Op /\ Resuming(a).stage = "resuming"
                    /\ Resuming(a).target \in Binding
    BY <1>1, DurableIsBinding DEF Resuming, Op, AnyBinding, AgentOK
  <2>2. RuntimesOK'
    BY FreeIsOp, <1>1, <1>8, <2>1 DEF CreateFails, RuntimesOK
  <2>3. Others
    BY <1>1, <1>8, OtherAgent DEF CreateFails, HInv
  <2>4. AgentOK(a)'
    BY FreeIsOp, <1>1, <1>8, <2>1 DEF CreateFails, AgentOK, BoundHasSession, TargetReady, LockTakesLease, HeldIsCurrent,
          TargetIsCurrent, DeletionStops, Bound, Current, CurrentBinding, Durable
  <2> QED BY <2>2, <2>3, <2>4
<1>9. CASE PublishCreate(a)
  <2>1. op[a].target \in Binding /\ Current(a, op[a].target) /\ a \notin deleting
    BY <1>1, <1>9 DEF PublishCreate, AgentOK, TargetReady, TargetIsCurrent, DeletionStops
  <2>2. RuntimesOK'
    BY <2>1, FreeIsOp, <1>1, <1>9 DEF PublishCreate, RuntimesOK, AnyBinding
  <2>3. Others
    BY <1>1, <1>9, OtherAgent DEF PublishCreate, HInv
  <2>4. AgentOK(a)'
    BY <2>1, FreeIsOp, <1>1, <1>9 DEF PublishCreate, AnyBinding, AgentOK, BoundHasSession, TargetReady, LockTakesLease, HeldIsCurrent,
          TargetIsCurrent, DeletionStops, Bound, Current, CurrentBinding, Durable
  <2> QED BY <2>2, <2>3, <2>4
<1>10. CASE ResumeFails(a)
  <2>2. RuntimesOK'
    BY FreeIsOp, <1>1, <1>10 DEF ResumeFails, RuntimesOK
  <2>3. Others
    BY <1>1, <1>10, OtherAgent DEF ResumeFails, HInv
  <2>4. AgentOK(a)'
    BY FreeIsOp, <1>1, <1>10 DEF ResumeFails, AgentOK, BoundHasSession, TargetReady, LockTakesLease, HeldIsCurrent,
          TargetIsCurrent, DeletionStops, Bound, Current, CurrentBinding, Durable
  <2> QED BY <2>2, <2>3, <2>4
<1>11. CASE IssueRearm(a)
  <2>2. RuntimesOK'
    BY <1>1, <1>11 DEF IssueRearm, RuntimesOK, Op
  <2>3. Others
    BY <1>1, <1>11, OtherAgent DEF IssueRearm, HInv
  <2>4. AgentOK(a)'
    BY <1>1, <1>11 DEF IssueRearm, Op, AgentOK, BoundHasSession, TargetReady, LockTakesLease, HeldIsCurrent,
          TargetIsCurrent, DeletionStops, Bound, Current, CurrentBinding, Durable
  <2> QED BY <2>2, <2>3, <2>4
<1>12. CASE PublishResume(a)
  <2>1. op[a].target \in Binding /\ Current(a, op[a].target) /\ a \notin deleting
    BY <1>1, <1>12 DEF PublishResume, AgentOK, TargetReady, TargetIsCurrent, DeletionStops
  <2>2. RuntimesOK'
    BY <2>1, FreeIsOp, <1>1, <1>12 DEF PublishResume, RuntimesOK, AnyBinding
  <2>3. Others
    BY <1>1, <1>12, OtherAgent DEF PublishResume, HInv
  <2>4. AgentOK(a)'
    BY <2>1, FreeIsOp, <1>1, <1>12 DEF PublishResume, AnyBinding, AgentOK, BoundHasSession, TargetReady, LockTakesLease, HeldIsCurrent,
          TargetIsCurrent, DeletionStops, Bound, Current, CurrentBinding, Durable
  <2> QED BY <2>2, <2>3, <2>4
<1>13. ASSUME NEW s \in Sessions, CommitBind(a, s) PROVE RuntimesOK' /\ \A x \in Agents : AgentOK(x)'
  <2> DEFINE b == [session |-> s, generation |-> generation[a] + 1]
  <2>1. b \in Binding /\ op'[a] = [op[a] EXCEPT !.stage = "bound", !.target = b]
    BY <1>1, <1>13 DEF CommitBind, BindRuntime, TypeOK, Binding, Generations
  <2>2. session'[a] = s /\ generation'[a] = generation[a] + 1 /\ generation'[a] # 0
    BY <1>1, <1>13 DEF CommitBind, BindRuntime, TypeOK
  <2>3. RuntimesOK'
    BY <1>1, <1>13, <2>1 DEF CommitBind, RuntimesOK, Op, AnyBinding
  <2>4. Others
    BY <1>1, <1>13, OtherAgent DEF CommitBind, BindRuntime, HInv, TypeOK
  <2>5. AgentOK(a)'
    BY <1>1, <1>13, <2>1, <2>2 DEF CommitBind, Op, AgentOK, BoundHasSession, TargetReady, LockTakesLease, HeldIsCurrent,
          TargetIsCurrent, DeletionStops, Bound, Current, CurrentBinding, Durable
  <2> QED BY <2>3, <2>4, <2>5
<1>14. CASE ResumeRearm(a)
  <2>1. session' = session /\ generation' = generation /\ lease' = lease /\ deleting' = deleting
        /\ op[a].stage = "rearming"
    BY <1>14 DEF ResumeRearm, Rearm
  <2>2. \/ op' = [op EXCEPT ![a] = Free]
        \/ Current(a, op[a].target) /\ op' = [op EXCEPT ![a].stage = "rearmed"]
    BY <1>14 DEF ResumeRearm
  <2>3. RuntimesOK'
    BY <1>1, <2>1, <2>2, FreeIsOp DEF RuntimesOK, Op
  <2>4. Others
    BY <1>1, <2>1, <2>2, OtherAgent DEF HInv
  <2>5. AgentOK(a)'
    BY <1>1, <2>1, <2>2, FreeIsOp DEF Op, AgentOK, BoundHasSession, TargetReady, LockTakesLease, HeldIsCurrent,
          TargetIsCurrent, DeletionStops, Bound, Current, CurrentBinding, Durable
  <2> QED BY <2>3, <2>4, <2>5
<1> QED BY <1>2, <1>3, <1>4, <1>5, <1>6, <1>7, <1>8, <1>9, <1>10, <1>11, <1>12, <1>13, <1>14 DEF ManagerNext

\* A crash leaves every Agent without a lease and, if bound, in resume.
LEMMA StepCrash ==
  ASSUME HInv, Crash
  PROVE  RuntimesOK' /\ \A x \in Agents : AgentOK(x)'
<1>1. TypeOK /\ \A x \in Agents : AgentOK(x)
  BY DEF HInv
<1>2. session' = session /\ generation' = generation /\ deleting' = {}
      /\ lease' = [x \in Agents |-> NoBinding]
      /\ op' = [x \in Agents |-> IF Bound(x) THEN Resuming(x) ELSE Free]
  BY DEF Crash, Started, vars, bindings
<1>3. ASSUME NEW x \in Agents
      PROVE  /\ op'[x] \in Op /\ op'[x].stage \in {"free", "resuming"}
             /\ op'[x].stage = "resuming" => op'[x].target \in Binding
  <2>1. CASE Bound(x)
    <3>1. Durable(x) \in Binding /\ op'[x] = Resuming(x)
      BY <1>1, <1>2, <2>1, DurableIsBinding DEF AgentOK
    <3> QED BY <3>1 DEF Resuming, Op, AnyBinding
  <2>2. CASE ~Bound(x)
    BY <1>2, <2>2, FreeIsOp
  <2> QED BY <2>1, <2>2
<1>4. RuntimesOK'
  BY <1>2, <1>3 DEF RuntimesOK, AnyBinding
<1>5. ASSUME NEW x \in Agents PROVE AgentOK(x)'
  BY <1>1, <1>2, <1>3 DEF AgentOK, BoundHasSession, TargetReady, LockTakesLease, HeldIsCurrent,
        TargetIsCurrent, DeletionStops, Bound
<1> QED BY <1>4, <1>5

\* Every other step leaves bindings, leases, locks and deletions alone.
LEMMA StepAgents ==
  ASSUME HInv, [HostNext]_allVars
  PROVE  RuntimesOK' /\ \A x \in Agents : AgentOK(x)'
<1> DEFINE Same == UNCHANGED <<session, generation, lease, op, deleting>>
<1> USE DEF bindings, vars, runtimes
<1>1. Same => RuntimesOK' /\ \A x \in Agents : AgentOK(x)'
  BY OtherAgent DEF HInv, HostTypeOK, RuntimesOK
<1>2. ASSUME NEW a \in Agents, TurnNext(a) PROVE Same
  <2>1. CASE BeginRequest(a) \/ RequestSent(a) \/ CheckRecord(a) \/ FinishTurn(a)
    BY <2>1 DEF BeginRequest, RequestSent, CheckRecord, FinishTurn
  <2>2. ASSUME NEW b \in confirming[a], Confirm(a, b) PROVE Same
    BY <2>2 DEF Confirm, MarkModelSeen
  <2>3. ASSUME NEW limit \in CheckLimits, CallCheck(a, limit) PROVE Same
    BY <2>3 DEF CallCheck
  <2>4. CASE CheckCommit(a)
    BY <2>4 DEF CheckCommit, CheckInbox
  <2>5. CASE RearmCommit(a)
    BY <2>5 DEF RearmCommit, Rearm
  <2> QED BY <1>2, <2>1, <2>2, <2>3, <2>4, <2>5 DEF TurnNext
<1>3. ASSUME NEW a \in Agents, MarkCommit(a) PROVE Same
  BY <1>3 DEF MarkCommit, MarkNotified
<1>4. ASSUME ScanRead \/ ScanDeliver PROVE Same
  BY <1>4 DEF ScanRead, ScanDeliver
<1>5. ASSUME ChannelNext, UNCHANGED hostVars PROVE Same
  BY <1>5 DEF ChannelNext, hostVars, ArchiveChannel, RestoreChannel, DeleteChannel, AddMember,
              SendMessage
<1>6. ASSUME UNCHANGED allVars PROVE Same
  BY <1>6 DEF allVars, hostVars
<1> QED BY <1>1, <1>2, <1>3, <1>4, <1>5, <1>6, StepManager, StepCrash DEF HostNext

-----------------------------------------------------------------------------
(* Type correctness of the rest of the host.                               *)

TurnsOK ==
  /\ receipts \in [Agents -> SUBSET Batch] /\ confirming \in [Agents -> SUBSET Batch]
  /\ restoring \subseteq Agents
  /\ notice \in [Agents -> BOOLEAN] /\ asked \in [Agents -> BOOLEAN]
  /\ turn \in [Agents -> {"idle", "confirming", "thinking", "checking", "answered"}]
  /\ tool \in [Agents -> Tool]
  /\ calls \in [Agents -> Seq(Call)]
  /\ scan = NoScan \/ scan \subseteq Wake
  /\ crashes \in 0..MaxCrashes

LEMMA HostTypeSplit == HostTypeOK <=> RuntimesOK /\ TurnsOK
BY DEF HostTypeOK, RuntimesOK, TurnsOK

LEMMA NoToolIsTool == NoTool \in Tool
BY DEF NoTool, Tool, AnyBinding

\* Issuing a call of an Agent keeps the queues well typed.
LEMMA IssuedIsQueue ==
  ASSUME TurnsOK, NEW a \in Agents, NEW kind, NEW b, NEW arg,
         [kind |-> kind, binding |-> b, arg |-> arg] \in Call
  PROVE  Issued(a, kind, b, arg) \in [Agents -> Seq(Call)]
<1>1. calls \in [Agents -> Seq(Call)] /\ calls[a] \in Seq(Call)
  BY DEF TurnsOK
<1>2. Append(calls[a], [kind |-> kind, binding |-> b, arg |-> arg]) \in Seq(Call)
  BY <1>1
<1> QED BY <1>1, <1>2 DEF Issued

LEMMA ManagerTurns ==
  ASSUME HInv, NEW a \in Agents, ManagerNext(a)
  PROVE  TurnsOK'
<1>1. TurnsOK /\ AgentOK(a) /\ HostTypeOK
  BY HostTypeSplit DEF HInv
<1> USE DEF turns, wires
<1>2. CASE BeginCreate(a) \/ BeginResume(a) \/ BeginDelete(a)
  BY <1>1, <1>2 DEF BeginCreate, BeginResume, BeginDelete, Dispose, TurnsOK
<1>3. CASE DisposeDone(a) \/ DisposeFails(a) \/ DeleteCommit(a)
  BY <1>1, <1>3 DEF DisposeDone, DisposeFails, DeleteCommit, TurnsOK
<1>4. ASSUME NEW s \in Sessions, CommitBind(a, s) PROVE TurnsOK'
  BY <1>1, <1>4 DEF CommitBind, TurnsOK
<1>5. CASE CreateFails(a) \/ PublishCreate(a) \/ ResumeFails(a) \/ PublishResume(a)
  BY <1>1, <1>5 DEF CreateFails, PublishCreate, ResumeFails, PublishResume, TurnsOK
<1>6. CASE IssueRearm(a)
  <2>1. [kind |-> "resume", binding |-> op[a].target, arg |-> 0] \in Call
    BY <1>1, <1>6 DEF IssueRearm, AgentOK, TargetReady, Call
  <2>2. calls' \in [Agents -> Seq(Call)]
    BY <1>1, <1>6, <2>1, IssuedIsQueue DEF IssueRearm
  <2> QED BY <1>1, <1>6, <2>2 DEF IssueRearm, TurnsOK
<1>7. CASE ResumeRearm(a)
  <2>1. calls' \in [Agents -> Seq(Call)]
    BY <1>1, <1>7, HeadIsCall DEF ResumeRearm
  <2> QED BY <1>1, <1>7, <2>1 DEF ResumeRearm, TurnsOK
<1> QED BY <1>2, <1>3, <1>4, <1>5, <1>6, <1>7 DEF ManagerNext

LEMMA TurnTurns ==
  ASSUME HInv, NEW a \in Agents, TurnNext(a)
  PROVE  TurnsOK'
<1>1. TurnsOK /\ AgentOK(a) /\ HostTypeOK /\ TypeOK
  BY HostTypeSplit DEF HInv
<1> USE DEF turns, wires, runtimes
<1>2. CASE BeginRequest(a)
  <2>1. confirming' \in [Agents -> SUBSET Batch]
    BY <1>1, <1>2 DEF BeginRequest, TurnsOK
  <2>2. asked[a] \in BOOLEAN /\ notice[a] \in BOOLEAN
    BY <1>1 DEF TurnsOK
  <2>3. (asked[a] \/ notice[a]) \in BOOLEAN
    BY <2>2
  <2>4. asked' \in [Agents -> BOOLEAN] /\ notice' \in [Agents -> BOOLEAN]
    BY <1>1, <1>2, <2>3, Zenon DEF BeginRequest, TurnsOK
  <2> QED BY <1>1, <1>2, <2>1, <2>4 DEF BeginRequest, TurnsOK
<1>9. CASE RequestSent(a)
  BY <1>1, <1>9 DEF RequestSent, TurnsOK
<1>3. ASSUME NEW b \in confirming[a], Confirm(a, b) PROVE TurnsOK'
  <2>1. confirming' \in [Agents -> SUBSET Batch]
    BY <1>1, <1>3 DEF Confirm, TurnsOK
  <2>2. CASE receipts' = receipts
    BY <1>1, <1>3, <2>1, <2>2 DEF Confirm, TurnsOK
  <2>3. CASE receipts' = [receipts EXCEPT ![a] = receipts[a] \ {b}]
    <3>1. receipts \in [Agents -> SUBSET Batch] /\ receipts[a] \ {b} \in SUBSET Batch
      BY <1>1 DEF TurnsOK
    <3>2. receipts' \in [Agents -> SUBSET Batch]
      BY <3>1, <2>3
    <3> QED BY <1>1, <1>3, <2>1, <3>2 DEF Confirm, TurnsOK
  <2> QED BY <1>3, <2>2, <2>3 DEF Confirm
<1>4. ASSUME NEW limit \in CheckLimits, CallCheck(a, limit) PROVE TurnsOK'
  <2>1. CASE lease[a] # NoBinding /\ lease[a] = Durable(a)
    <3>1. lease[a] \in Binding
      BY <1>1, <2>1 DEF HostTypeOK, AnyBinding
    <3>2. [kind |-> "check", binding |-> lease[a], arg |-> limit] \in Call
      BY <3>1 DEF Call
    <3>3. calls' \in [Agents -> Seq(Call)]
      BY <1>1, <1>4, <2>1, <3>2, IssuedIsQueue DEF CallCheck
    <3>4. tool' \in [Agents -> Tool]
      BY <1>1, <1>4, <2>1, <3>1 DEF CallCheck, TurnsOK, Tool, AnyBinding
    <3> QED BY <1>1, <1>4, <2>1, <3>3, <3>4 DEF CallCheck, TurnsOK
  <2>2. CASE ~(lease[a] # NoBinding /\ lease[a] = Durable(a))
    <3>1. asked' \in [Agents -> BOOLEAN]
          /\ turn' \in [Agents -> {"idle", "confirming", "thinking", "checking", "answered"}]
      BY <1>1, <1>4, <2>2 DEF CallCheck, TurnsOK
    <3>2. UNCHANGED <<receipts, restoring, tool, calls, notice, confirming, scan, crashes>>
      BY <1>4, <2>2 DEF CallCheck, runtimes
    <3> QED BY <1>1, <3>1, <3>2 DEF TurnsOK
  <2> QED BY <2>1, <2>2
<1>5. CASE CheckCommit(a)
  <2> DEFINE c == Head(calls[a])
             b == NewBatch(a, c.binding.generation, c.binding.session, c.arg)
  <2>1. calls' \in [Agents -> Seq(Call)] /\ c.binding \in Binding
    BY <1>1, <1>5, HeadIsCall DEF CheckCommit, Call
  <2>2. b \in Batch
    BY <1>1, <2>1 DEF NewBatch, Batch, Binding, Oldest, Unseen, TypeOK
  <2>3. tool[a] \in Tool
    BY <1>1 DEF TurnsOK
  <2>4. PICK x \in {b, NoBatch} :
          tool' = [tool EXCEPT ![a] = [stage |-> "answered", binding |-> @.binding, batch |-> x]]
    BY <1>5 DEF CheckCommit
  <2>5. tool' \in [Agents -> Tool]
    BY <1>1, <2>2, <2>3, <2>4 DEF TurnsOK, Tool
  <2> QED BY <1>1, <1>5, <2>1, <2>5 DEF CheckCommit, TurnsOK
<1>6. CASE CheckRecord(a)
  <2>1. tool[a] \in Tool
    BY <1>1 DEF TurnsOK
  <2>2. receipts' \in [Agents -> SUBSET Batch]
    BY <1>1, <1>6, <2>1 DEF CheckRecord, TurnsOK, Tool
  <2>3. tool' \in [Agents -> Tool]
    BY <1>1, <1>6, NoToolIsTool DEF CheckRecord, TurnsOK
  <2>4. asked' \in [Agents -> BOOLEAN]
        /\ turn' \in [Agents -> {"idle", "confirming", "thinking", "checking", "answered"}]
    BY <1>1, <1>6 DEF CheckRecord, TurnsOK
  <2>5. UNCHANGED <<confirming, restoring, notice, calls, scan, crashes>>
    BY <1>6 DEF CheckRecord, wires
  <2> QED BY <1>1, <2>2, <2>3, <2>4, <2>5 DEF TurnsOK
<1>7. CASE FinishTurn(a)
  <2>1. calls' \in [Agents -> Seq(Call)]
    <3>1. CASE lease[a] # NoBinding /\ receipts[a] # {}
      <4>1. [kind |-> "rearm", binding |-> lease[a], arg |-> 0] \in Call
        BY <1>1, <3>1 DEF HostTypeOK, AnyBinding, Call
      <4> QED BY <1>1, <1>7, <3>1, <4>1, IssuedIsQueue DEF FinishTurn
    <3>2. CASE ~(lease[a] # NoBinding /\ receipts[a] # {})
      BY <1>1, <1>7, <3>2 DEF FinishTurn, TurnsOK
    <3> QED BY <3>1, <3>2
  <2> QED BY <1>1, <1>7, <2>1 DEF FinishTurn, TurnsOK
<1>8. CASE RearmCommit(a)
  <2>1. calls' \in [Agents -> Seq(Call)]
    BY <1>1, <1>8, HeadIsCall DEF RearmCommit
  <2> QED BY <1>1, <1>8, <2>1 DEF RearmCommit, TurnsOK
<1> QED BY <1>2, <1>3, <1>4, <1>5, <1>6, <1>7, <1>8, <1>9 DEF TurnNext

LEMMA StepTurns ==
  ASSUME HInv, [HostNext]_allVars
  PROVE  TurnsOK'
<1>1. TurnsOK /\ HostTypeOK /\ TypeOK
  BY HostTypeSplit DEF HInv
<1> USE DEF turns, wires, runtimes
<1>2. ASSUME NEW a \in Agents, MarkCommit(a) PROVE TurnsOK'
  <2>1. calls' \in [Agents -> Seq(Call)]
    BY <1>1, <1>2, HeadIsCall DEF MarkCommit
  <2> QED BY <1>1, <1>2, <2>1 DEF MarkCommit, TurnsOK
<1>3. CASE ScanRead
  BY <1>1, <1>3 DEF ScanRead, TurnsOK, Wakes
<1>4. CASE ScanDeliver
  <2>1. Delivered \subseteq Wake
    BY <1>1, <1>4 DEF ScanDeliver, TurnsOK, Delivered
  <2>2. ASSUME NEW a \in Agents PROVE calls'[a] \in Seq(Call)
    <3> DEFINE w == CHOOSE w \in Delivered : w.agent = a
    <3>1. calls[a] \in Seq(Call)
      BY <1>1 DEF TurnsOK
    <3>2. CASE \E v \in Delivered : v.agent = a
      <4>1. w \in Wake
        BY <2>1, <3>2
      <4> HIDE DEF w
      <4>2. [kind |-> "mark", binding |-> w.binding, arg |-> w.seq] \in Call
        BY <4>1 DEF Wake, Call
      <4>3. Append(calls[a], [kind |-> "mark", binding |-> w.binding, arg |-> w.seq]) \in Seq(Call)
        BY <3>1, <4>2
      <4>4. calls'[a] = Append(calls[a], [kind |-> "mark", binding |-> w.binding, arg |-> w.seq])
        BY <1>4, <3>2 DEF ScanDeliver, w
      <4> QED BY <4>3, <4>4
    <3>3. CASE ~\E v \in Delivered : v.agent = a
      BY <1>4, <3>1, <3>3 DEF ScanDeliver
    <3> QED BY <3>2, <3>3
  <2>3. calls' \in [Agents -> Seq(Call)]
    BY <1>4, <2>2 DEF ScanDeliver
  <2> QED BY <1>1, <1>4, <2>3 DEF ScanDeliver, TurnsOK
<1>5. CASE Crash
  <2>1. << >> \in Seq(Call)
    OBVIOUS
  <2> QED BY <1>1, <1>5, <2>1, NoToolIsTool, MaxCrashesAssumption DEF Crash, Started, TurnsOK
<1>6. CASE UNCHANGED hostVars
  BY <1>1, <1>6 DEF hostVars, TurnsOK
<1> QED BY <1>2, <1>3, <1>4, <1>5, <1>6, ManagerTurns, TurnTurns DEF HostNext, allVars

-----------------------------------------------------------------------------
(* The theorems.                                                           *)

LEMMA InitHInv == HostInit => HInv
<1> SUFFICES ASSUME HostInit PROVE HInv
  OBVIOUS
<1>1. TypeOK
  BY InitTypeOK DEF HostInit
<1>2. RuntimesOK
  BY FreeIsOp DEF HostInit, RuntimesOK, AnyBinding
<1>3. TurnsOK
  BY NoToolIsTool, MaxCrashesAssumption DEF HostInit, TurnsOK
<1>4. ASSUME NEW a \in Agents PROVE AgentOK(a)
  BY FreeIsOp DEF HostInit, Init, AgentOK, BoundHasSession, TargetReady, LockTakesLease,
        HeldIsCurrent, TargetIsCurrent, DeletionStops, Bound
<1> QED BY <1>1, <1>2, <1>3, <1>4, HostTypeSplit DEF HInv

LEMMA StepHInv == HInv /\ [HostNext]_allVars => HInv'
<1> SUFFICES ASSUME HInv, [HostNext]_allVars PROVE HInv'
  OBVIOUS
<1>1. TypeOK'
  BY StepLedger, StepTypeOK DEF HInv
<1>2. HostTypeOK'
  BY StepAgents, StepTurns DEF HostTypeOK, RuntimesOK, TurnsOK
<1> QED BY <1>1, <1>2, StepAgents DEF HInv

\* The invariant of the host: types, the lock discipline of each Agent's lease,
\* and the currency of whatever is leased, held or about to be published.
THEOREM HostInductive == HostSpec => []HInv
BY InitHInv, StepHInv, PTL DEF HostSpec

\* Type correctness of the host.
THEOREM HostTypeCorrect == HostSpec => []HostTypeOK
<1>1. HInv => HostTypeOK
  BY DEF HInv
<1> QED BY <1>1, HostInductive, PTL

\* A live handle is the durable runtime of its Agent (runtime.ts resolve), for
\* any Agents, Sessions and bounds, with every fault and any number of crashes.
THEOREM LeaseAlwaysCurrent == HostSpec => []LeaseIsCurrent
<1>1. HInv => LeaseIsCurrent
  BY DEF HInv, AgentOK, LeaseIsCurrent
<1> QED BY <1>1, HostInductive, PTL

\* The host drives the ledger only through its calls, with fences and limits
\* the ledger offers: every theorem about the ledger holds of the composition.
THEOREM HostImplementsLedger == HostSpec => Spec
<1>1. HostInit => Init
  BY DEF HostInit
<1> QED BY <1>1, StepLedger, HostInductive, PTL DEF HostSpec, Spec

\* So no interleaving of operations, turns, scans and crashes of the host ever
\* loses a queued Message of a live Agent, or reads one twice or out of order.
THEOREM HostImplementsInbox == HostSpec => ImplementsInbox
BY HostImplementsLedger, LedgerImplementsInbox

-----------------------------------------------------------------------------
(* What a call queue holds before and after a call is issued or commits.   *)

\* The elements of a queue that lost its head.
LEMMA TailEntry ==
  ASSUME NEW q \in Seq(Call), q # <<>>, NEW i \in DOMAIN Tail(q)
  PROVE  i + 1 \in DOMAIN q /\ Tail(q)[i] = q[i + 1]
OBVIOUS

\* The elements of a queue that gained a call.
LEMMA AppendEntry ==
  ASSUME NEW q \in Seq(Call), NEW e, NEW i \in DOMAIN Append(q, e)
  PROVE  \/ i \in DOMAIN q /\ Append(q, e)[i] = q[i]
         \/ i = Len(q) + 1 /\ Append(q, e)[i] = e
OBVIOUS

\* A queue whose checks are the one check that this tool execution waits for.
Awaits(q, t) ==
  /\ \A i \in DOMAIN q : q[i].kind = "check" =>
       t.stage = "issued" /\ q[i].binding = t.binding
  /\ \A i, j \in DOMAIN q : q[i].kind = "check" /\ q[j].kind = "check" => i = j

\* A queue without a call of some kind.
Without(q, kind) == \A i \in DOMAIN q : q[i].kind # kind

\* A check that commits was the only one.
LEMMA AwaitsTail ==
  ASSUME NEW q \in Seq(Call), q # <<>>, NEW t, Awaits(q, t)
  PROVE  /\ Awaits(Tail(q), t)
         /\ Head(q).kind = "check" =>
              Without(Tail(q), "check") /\ t.stage = "issued" /\ Head(q).binding = t.binding
<1>1. 1 \in DOMAIN q /\ Head(q) = q[1]
  OBVIOUS
<1>2. Awaits(Tail(q), t)
  <2>1. ASSUME NEW i \in DOMAIN Tail(q), Tail(q)[i].kind = "check"
        PROVE  t.stage = "issued" /\ Tail(q)[i].binding = t.binding
    BY <2>1, TailEntry DEF Awaits
  <2>2. ASSUME NEW i \in DOMAIN Tail(q), NEW j \in DOMAIN Tail(q),
               Tail(q)[i].kind = "check", Tail(q)[j].kind = "check"
        PROVE  i = j
    <3>1. i + 1 \in DOMAIN q /\ j + 1 \in DOMAIN q /\ i \in Int /\ j \in Int
          /\ q[i + 1].kind = "check" /\ q[j + 1].kind = "check"
      BY <2>2, TailEntry
    <3>2. i + 1 = j + 1
      BY <3>1 DEF Awaits
    <3> QED BY <3>1, <3>2
  <2> QED BY <2>1, <2>2 DEF Awaits
<1>3. ASSUME Head(q).kind = "check", NEW i \in DOMAIN Tail(q)
      PROVE  Tail(q)[i].kind # "check"
  <2>1. i + 1 \in DOMAIN q /\ Tail(q)[i] = q[i + 1] /\ i \in Nat \ {0}
    BY TailEntry
  <2> QED BY <1>1, <1>3, <2>1 DEF Awaits
<1> QED BY <1>1, <1>2, <1>3 DEF Awaits, Without

\* Other calls may be issued behind it.
LEMMA AwaitsAppend ==
  ASSUME NEW q \in Seq(Call), NEW t, Awaits(q, t), NEW e, e.kind # "check"
  PROVE  Awaits(Append(q, e), t)
<1>1. ASSUME NEW i \in DOMAIN Append(q, e), Append(q, e)[i].kind = "check"
      PROVE  i \in DOMAIN q /\ q[i].kind = "check" /\ Append(q, e)[i] = q[i]
  BY <1>1, AppendEntry
<1> HIDE DEF Awaits
<1> QED BY <1>1 DEF Awaits

\* A check is issued where there is none.
LEMMA AwaitsCheck ==
  ASSUME NEW q \in Seq(Call), Without(q, "check"), NEW e, NEW t,
         t.stage = "issued", e.binding = t.binding
  PROVE  Awaits(Append(q, e), t)
<1>1. ASSUME NEW i \in DOMAIN Append(q, e), Append(q, e)[i].kind = "check"
      PROVE  i = Len(q) + 1 /\ Append(q, e)[i] = e
  BY <1>1, AppendEntry DEF Without
<1> QED BY <1>1 DEF Awaits

\* The queue of a tool that waits for nothing holds no check.
LEMMA AwaitsNothing ==
  ASSUME NEW q, NEW t
  PROVE  /\ Without(q, "check") => Awaits(q, t)
         /\ Awaits(q, t) /\ t.stage # "issued" => Without(q, "check")
BY DEF Awaits, Without

-----------------------------------------------------------------------------
(* Receipts.                                                               *)

\* A receipt carries the fence of the leased runtime and is stored.
ReceiptsFenced(a) ==
  \A b \in receipts[a] :
     /\ b.agent = a /\ b \in batches
     /\ lease[a] = [session |-> b.session, generation |-> b.generation]

\* What the tool was answered is a stored batch of the runtime it asked for.
AnswerFenced(a) ==
  tool[a].stage # "none" =>
    /\ tool[a].binding \in Binding
    /\ tool[a].stage = "answered" /\ tool[a].batch # NoBatch =>
         /\ tool[a].batch.agent = a
         /\ tool[a].binding = [session |-> tool[a].batch.session,
                               generation |-> tool[a].batch.generation]
         /\ a \in agents => tool[a].batch \in batches

ReceiptOK(a) == ReceiptsFenced(a) /\ Awaits(calls[a], tool[a]) /\ AnswerFenced(a)

\* The batches of an Agent stay while it lives, and a deleted one stays deleted.
BatchesStay(a) ==
  /\ a \in agents' => a \in agents /\ \A b \in batches : b.agent = a => b \in batches'
  /\ receipts'[a] # {} => \A b \in batches : b.agent = a => b \in batches'

\* A step that adds no receipt and takes the lease only with them keeps them.
LEMMA ReceiptsStay ==
  ASSUME NEW a \in Agents, ReceiptOK(a), BatchesStay(a), receipts'[a] \subseteq receipts[a],
         receipts'[a] # {} => lease'[a] = lease[a],
         tool'[a] = tool[a], Awaits(calls'[a], tool[a])
  PROVE  ReceiptOK(a)'
<1>1. ReceiptsFenced(a)'
  BY DEF ReceiptOK, ReceiptsFenced, BatchesStay
<1>2. Awaits(calls[a], tool[a])'
  BY DEF Awaits
<1>3. AnswerFenced(a)'
  BY DEF ReceiptOK, AnswerFenced, BatchesStay
<1> QED BY <1>1, <1>2, <1>3 DEF ReceiptOK

\* An Agent without a lease has no receipt.
LEMMA UnleasedNoReceipt ==
  ASSUME NEW a \in Agents, ReceiptOK(a), HostTypeOK, lease[a] = NoBinding
  PROVE  receipts[a] = {}
<1> SUFFICES ASSUME NEW b \in receipts[a] PROVE FALSE
  OBVIOUS
<1>1. b \in Batch /\ lease[a] = [session |-> b.session, generation |-> b.generation]
  BY DEF HostTypeOK, ReceiptOK, ReceiptsFenced
<1>2. [session |-> b.session, generation |-> b.generation] \in Binding
  BY <1>1 DEF Batch, Binding
<1> QED BY <1>1, <1>2, NoBindingAssumption DEF Binding

-----------------------------------------------------------------------------
(* The ledger and the host as they look from one Agent.                    *)

\* The host keeps what belongs to this Agent.
HostStill(x) ==
  /\ lease'[x] = lease[x] /\ op'[x] = op[x] /\ receipts'[x] = receipts[x]
  /\ notice'[x] = notice[x] /\ turn'[x] = turn[x] /\ asked'[x] = asked[x]
  /\ tool'[x] = tool[x] /\ calls'[x] = calls[x]

\* The ledger keeps what belongs to this Agent.
LedgerStill(x) ==
  /\ session'[x] = session[x] /\ generation'[x] = generation[x]
  /\ delivered'[x] = delivered[x] /\ seenGen'[x] = seenGen[x]
  /\ notifiedGen'[x] = notifiedGen[x]
  /\ pendingSeq'[x] = pendingSeq[x] /\ notifiedSeq'[x] = notifiedSeq[x]
  /\ wakeGen'[x] = wakeGen[x] /\ lastSeq' = lastSeq
  /\ x \in agents' => x \in agents
  /\ \A b \in batches : b.agent = x => b \in batches'

\* An operation on one Agent leaves the host of the others alone.
LEMMA ManagerElsewhere ==
  ASSUME HostTypeOK, NEW a \in Agents, ManagerNext(a), NEW x \in Agents, x # a
  PROVE  HostStill(x)
<1> USE DEF HostTypeOK, HostStill, turns, wires
<1>1. CASE BeginCreate(a) \/ BeginResume(a) \/ BeginDelete(a)
  BY <1>1 DEF BeginCreate, BeginResume, BeginDelete, Dispose
<1>2. CASE DisposeDone(a) \/ DisposeFails(a) \/ DeleteCommit(a)
  BY <1>2 DEF DisposeDone, DisposeFails, DeleteCommit
<1>3. ASSUME NEW s \in Sessions, CommitBind(a, s) PROVE HostStill(x)
  BY <1>3 DEF CommitBind
<1>4. CASE CreateFails(a) \/ PublishCreate(a) \/ ResumeFails(a)
  BY <1>4 DEF CreateFails, PublishCreate, ResumeFails
<1>5. CASE IssueRearm(a) \/ PublishResume(a)
  BY <1>5 DEF IssueRearm, PublishResume, Issued
<1>6. CASE ResumeRearm(a)
  <2>1. op'[x] = op[x]
    BY <1>6 DEF ResumeRearm
  <2> QED BY <1>6, <2>1 DEF ResumeRearm, Commits
<1> QED BY <1>1, <1>2, <1>3, <1>4, <1>5, <1>6 DEF ManagerNext

\* So does a step of its turn, and a mark that commits.
LEMMA TurnElsewhere ==
  ASSUME HostTypeOK, NEW a \in Agents, TurnNext(a) \/ MarkCommit(a), NEW x \in Agents, x # a
  PROVE  HostStill(x)
<1> USE DEF HostTypeOK, HostStill, turns, wires, runtimes
<1>1. CASE BeginRequest(a) \/ RequestSent(a)
  BY <1>1 DEF BeginRequest, RequestSent
<1>2. ASSUME NEW b \in confirming[a], Confirm(a, b) PROVE HostStill(x)
  <2>1. receipts'[x] = receipts[x]
    BY <1>2 DEF Confirm
  <2> QED BY <1>2, <2>1 DEF Confirm
<1>3. ASSUME NEW limit \in CheckLimits, CallCheck(a, limit) PROVE HostStill(x)
  <2>1. CASE lease[a] # NoBinding /\ lease[a] = Durable(a)
    BY <1>3, <2>1 DEF CallCheck, Issued
  <2>2. CASE ~(lease[a] # NoBinding /\ lease[a] = Durable(a))
    BY <1>3, <2>2 DEF CallCheck
  <2> QED BY <2>1, <2>2
<1>4. CASE CheckCommit(a)
  <2>1. tool'[x] = tool[x]
    BY <1>4 DEF CheckCommit
  <2> QED BY <1>4, <2>1 DEF CheckCommit, Commits
<1>5. CASE CheckRecord(a)
  <2>1. CASE turn[a] = "checking"
    BY <1>5, <2>1 DEF CheckRecord
  <2>2. CASE turn[a] # "checking"
    BY <1>5, <2>2 DEF CheckRecord
  <2> QED BY <2>1, <2>2
<1>6. CASE FinishTurn(a)
  BY <1>6 DEF FinishTurn, Issued
<1>7. CASE RearmCommit(a) \/ MarkCommit(a)
  BY <1>7 DEF RearmCommit, MarkCommit, Commits
<1> QED BY <1>1, <1>2, <1>3, <1>4, <1>5, <1>6, <1>7 DEF TurnNext

\* What an operation on one Agent, or a step of its turn, does to the ledger.
LedgerCall(a) ==
  \/ UNCHANGED vars
  \/ DeleteAgent(a)
  \/ \E s \in Sessions : BindRuntime(a, s)
  \/ \E g, s : \E p \in Seqs : MarkNotified(a, g, s, p)
  \/ \E g, s : Rearm(a, g, s)
  \/ \E g, s : \E limit \in CheckLimits : CheckInbox(a, g, s, limit)
  \/ \E g, s : \E b \in batches : MarkModelSeen(a, g, s, b)

\* A call about one Agent leaves the rows of every other Agent alone.
LEMMA LedgerElsewhere ==
  ASSUME TypeOK, NEW a \in Agents, LedgerCall(a), NEW x \in Agents, x # a
  PROVE  LedgerStill(x)
<1> USE DEF TypeOK, LedgerStill, bindings, channels, messages, deliveries, wakes
<1>1. CASE UNCHANGED vars
  BY <1>1 DEF vars
<1>2. CASE DeleteAgent(a)
  BY <1>2 DEF DeleteAgent
<1>3. ASSUME NEW s \in Sessions, BindRuntime(a, s) PROVE LedgerStill(x)
  BY <1>3 DEF BindRuntime
<1>4. ASSUME NEW g, NEW s, NEW p \in Seqs, MarkNotified(a, g, s, p) PROVE LedgerStill(x)
  BY <1>4 DEF MarkNotified
<1>5. ASSUME NEW g, NEW s, Rearm(a, g, s) PROVE LedgerStill(x)
  BY <1>5 DEF Rearm
<1>6. ASSUME NEW g, NEW s, NEW limit \in CheckLimits, CheckInbox(a, g, s, limit)
      PROVE LedgerStill(x)
  BY <1>6 DEF CheckInbox
<1>7. ASSUME NEW g, NEW s, NEW b \in batches, MarkModelSeen(a, g, s, b) PROVE LedgerStill(x)
  BY <1>7 DEF MarkModelSeen
<1> QED BY <1>1, <1>2, <1>3, <1>4, <1>5, <1>6, <1>7 DEF LedgerCall

\* Every step of the host about one Agent makes at most one call about it.
LEMMA HostMakesLedgerCall ==
  ASSUME HInv, NEW a \in Agents, ManagerNext(a) \/ TurnNext(a) \/ MarkCommit(a)
  PROVE  LedgerCall(a)
<1>1. HostTypeOK
  BY DEF HInv
<1> USE DEF LedgerCall
<1>2. CASE BeginCreate(a) \/ BeginResume(a) \/ BeginDelete(a)
  BY <1>2 DEF BeginCreate, BeginResume, BeginDelete, Dispose
<1>3. CASE DisposeDone(a) \/ DisposeFails(a) \/ CreateFails(a) \/ PublishCreate(a)
  BY <1>3 DEF DisposeDone, DisposeFails, CreateFails, PublishCreate
<1>4. CASE ResumeFails(a) \/ IssueRearm(a) \/ PublishResume(a)
  BY <1>4 DEF ResumeFails, IssueRearm, PublishResume
<1>5. CASE DeleteCommit(a) \/ \E s \in Sessions : CommitBind(a, s)
  BY <1>5 DEF DeleteCommit, CommitBind
<1>6. CASE ResumeRearm(a) \/ RearmCommit(a)
  BY <1>6 DEF ResumeRearm, RearmCommit
<1>7. CASE BeginRequest(a) \/ RequestSent(a) \/ FinishTurn(a) \/ CheckRecord(a)
  BY <1>7 DEF BeginRequest, RequestSent, FinishTurn, CheckRecord
<1>8. ASSUME NEW limit \in CheckLimits, CallCheck(a, limit) PROVE UNCHANGED vars
  BY <1>8 DEF CallCheck
<1>9. CASE \E b \in confirming[a] : Confirm(a, b)
  BY <1>9 DEF Confirm
<1>10. CASE CheckCommit(a)
  <2>1. Head(calls[a]).arg \in CheckLimits
    <3>1. Head(calls[a]) \in Call /\ Head(calls[a]).kind = "check"
      BY <1>1, <1>10, HeadIsCall DEF CheckCommit
    <3> QED BY <3>1 DEF Call
  <2> QED BY <1>10, <2>1 DEF CheckCommit
<1>11. CASE MarkCommit(a)
  <2>1. Head(calls[a]).arg \in Seqs
    BY <1>1, <1>11, HeadIsCall DEF MarkCommit, Call
  <2> QED BY <1>11, <2>1 DEF MarkCommit
<1> QED BY <1>2, <1>3, <1>4, <1>5, <1>6, <1>7, <1>8, <1>9, <1>10, <1>11
        DEF ManagerNext, TurnNext

\* A step of another Agent keeps the receipts.
LEMMA ReceiptsElsewhere ==
  ASSUME NEW x \in Agents, ReceiptOK(x), HostStill(x), LedgerStill(x)
  PROVE  ReceiptOK(x)'
<1>1. BatchesStay(x) /\ receipts'[x] \subseteq receipts[x] /\ Awaits(calls'[x], tool[x])
  BY DEF BatchesStay, LedgerStill, HostStill, ReceiptOK
<1> QED BY <1>1, ReceiptsStay DEF HostStill

\* Operations take the receipts with the lease and publish where there are none.
LEMMA ManagerReceipts ==
  ASSUME HInv, NEW a \in Agents, ManagerNext(a), ReceiptOK(a)
  PROVE  ReceiptOK(a)'
<1>1. /\ HostTypeOK /\ LockTakesLease(a) /\ DeletionStops(a)
      /\ lease \in [Agents -> AnyBinding] /\ receipts \in [Agents -> SUBSET Batch]
      /\ calls \in [Agents -> Seq(Call)] /\ calls[a] \in Seq(Call)
      /\ tool \in [Agents -> Tool] /\ Awaits(calls[a], tool[a])
  BY DEF HInv, HostTypeOK, AgentOK, ReceiptOK
<1>2. ASSUME UNCHANGED <<agents, batches>> PROVE BatchesStay(a)
  BY <1>2 DEF BatchesStay
<1> USE DEF turns, wires
<1>3. CASE BeginCreate(a) \/ BeginResume(a) \/ BeginDelete(a)
  <2>1. PICK kind, target : Dispose(a, kind, target)
    BY <1>3 DEF BeginCreate, BeginResume, BeginDelete
  <2>2. receipts'[a] = {} /\ tool' = tool /\ calls' = calls /\ UNCHANGED <<agents, batches>>
    BY <1>1, <2>1, UnleasedNoReceipt DEF Dispose, vars
  <2> QED BY <1>1, <1>2, <2>2, ReceiptsStay
<1>4. CASE DisposeDone(a) \/ CreateFails(a) \/ ResumeFails(a)
  <2>1. UNCHANGED <<lease, receipts, tool, calls, agents, batches>>
    BY <1>4 DEF DisposeDone, CreateFails, ResumeFails, vars
  <2> QED BY <1>1, <1>2, <2>1, ReceiptsStay
<1>5. CASE DisposeFails(a) \/ PublishCreate(a) \/ PublishResume(a)
  <2>1. receipts[a] = {}
    <3>1. op[a].stage # "free"
      BY <1>5 DEF DisposeFails, PublishCreate, PublishResume
    <3> QED BY <1>1, <3>1, UnleasedNoReceipt DEF LockTakesLease
  <2>2. UNCHANGED <<receipts, tool, calls, agents, batches>>
    BY <1>5 DEF DisposeFails, PublishCreate, PublishResume, vars
  <2> QED BY <1>1, <1>2, <2>1, <2>2, ReceiptsStay
<1>6. CASE DeleteCommit(a)
  <2>1. receipts[a] = {}
    BY <1>1, <1>6, UnleasedNoReceipt DEF DeleteCommit, DeletionStops
  <2>2. UNCHANGED <<lease, receipts, tool, calls>> /\ a \notin agents'
    BY <1>6 DEF DeleteCommit, DeleteAgent
  <2>3. BatchesStay(a)
    BY <2>1, <2>2 DEF BatchesStay
  <2> QED BY <1>1, <2>2, <2>3, ReceiptsStay
<1>7. ASSUME NEW s \in Sessions, CommitBind(a, s) PROVE ReceiptOK(a)'
  <2>1. UNCHANGED <<lease, receipts, tool, calls, agents, batches>>
    BY <1>7 DEF CommitBind, BindRuntime
  <2> QED BY <1>1, <1>2, <2>1, ReceiptsStay
<1>8. CASE IssueRearm(a)
  <2> DEFINE e == [kind |-> "resume", binding |-> op[a].target, arg |-> 0]
  <2>1. calls'[a] = Append(calls[a], e) /\ e.kind # "check"
    BY <1>1, <1>8 DEF IssueRearm, Issued
  <2>2. UNCHANGED <<lease, receipts, tool, agents, batches>>
    BY <1>8 DEF IssueRearm, vars
  <2> HIDE DEF e
  <2>3. Awaits(calls'[a], tool[a])
    BY <1>1, <2>1, AwaitsAppend
  <2> QED BY <1>1, <1>2, <2>2, <2>3, ReceiptsStay
<1>9. CASE ResumeRearm(a)
  <2>1. calls[a] # <<>> /\ calls'[a] = Tail(calls[a])
    BY <1>1, <1>9 DEF ResumeRearm, Commits
  <2>2. UNCHANGED <<lease, receipts, tool, agents, batches>>
    BY <1>9 DEF ResumeRearm, Rearm, vars
  <2>3. Awaits(calls'[a], tool[a])
    BY <1>1, <2>1, AwaitsTail
  <2> QED BY <1>1, <1>2, <2>2, <2>3, ReceiptsStay
<1> QED BY <1>3, <1>4, <1>5, <1>6, <1>7, <1>8, <1>9 DEF ManagerNext

\* A turn confirms receipts, and records an answer only for the leased runtime.
LEMMA TurnReceipts ==
  ASSUME HInv, BoundIsLive, NEW a \in Agents, TurnNext(a) \/ MarkCommit(a), ReceiptOK(a)
  PROVE  ReceiptOK(a)'
<1>1. /\ HostTypeOK /\ TypeOK
      /\ lease \in [Agents -> AnyBinding] /\ receipts \in [Agents -> SUBSET Batch]
      /\ calls \in [Agents -> Seq(Call)] /\ calls[a] \in Seq(Call)
      /\ tool \in [Agents -> Tool] /\ Awaits(calls[a], tool[a])
      /\ lease[a] # NoBinding => Current(a, lease[a])
  BY DEF HInv, HostTypeOK, AgentOK, ReceiptOK
<1>2. ASSUME UNCHANGED <<agents, batches>> PROVE BatchesStay(a)
  BY <1>2 DEF BatchesStay
<1> USE DEF turns, wires, runtimes
<1>3. CASE BeginRequest(a) \/ RequestSent(a)
  <2>1. UNCHANGED <<lease, receipts, tool, calls, agents, batches>>
    BY <1>3 DEF BeginRequest, RequestSent, vars
  <2> QED BY <1>1, <1>2, <2>1, ReceiptsStay
<1>4. ASSUME NEW b \in confirming[a], Confirm(a, b) PROVE ReceiptOK(a)'
  <2>1. UNCHANGED <<lease, tool, calls, agents, batches>>
    BY <1>4 DEF Confirm, MarkModelSeen, vars
  <2>2. receipts'[a] \subseteq receipts[a]
    BY <1>1, <1>4 DEF Confirm
  <2> QED BY <1>1, <1>2, <2>1, <2>2, ReceiptsStay
<1>5. ASSUME NEW limit \in CheckLimits, CallCheck(a, limit) PROVE ReceiptOK(a)'
  <2>1. UNCHANGED <<lease, receipts, agents, batches>> /\ tool[a] = NoTool
    BY <1>5 DEF CallCheck, vars
  <2>2. CASE lease[a] # NoBinding /\ lease[a] = Durable(a)
    <3> DEFINE e == [kind |-> "check", binding |-> lease[a], arg |-> limit]
    <3>1. calls'[a] = Append(calls[a], e) /\ e.binding = lease[a]
      BY <1>1, <1>5, <2>2 DEF CallCheck, Issued
    <3>2. tool'[a].stage = "issued" /\ tool'[a].binding = lease[a] /\ lease[a] \in Binding
      BY <1>1, <1>5, <2>2 DEF CallCheck, AnyBinding
    <3> HIDE DEF e
    <3>3. Without(calls[a], "check")
      BY <1>1, <2>1, AwaitsNothing DEF NoTool
    <3>4. Awaits(calls'[a], tool'[a])
      BY <1>1, <3>1, <3>2, <3>3, AwaitsCheck
    <3>5. Awaits(calls[a], tool[a])'
      BY <3>4 DEF Awaits
    <3> QED BY <2>1, <3>2, <3>5 DEF ReceiptOK, ReceiptsFenced, AnswerFenced
  <2>3. CASE ~(lease[a] # NoBinding /\ lease[a] = Durable(a))
    <3>1. UNCHANGED <<tool, calls>>
      BY <1>5, <2>3 DEF CallCheck
    <3> QED BY <1>1, <1>2, <2>1, <3>1, ReceiptsStay
  <2> QED BY <2>2, <2>3
<1>6. CASE CheckCommit(a)
  <2> DEFINE c == Head(calls[a])
             b == NewBatch(a, c.binding.generation, c.binding.session, c.arg)
  <2>1. calls[a] # <<>> /\ c.kind = "check" /\ calls'[a] = Tail(calls[a])
    BY <1>1, <1>6 DEF CheckCommit, Commits
  <2>2. Without(calls'[a], "check") /\ c.binding = tool[a].binding
    BY <1>1, <2>1, AwaitsTail
  <2>3. c.binding \in Binding
    BY <1>1, <1>6, HeadIsCall DEF CheckCommit, Call
  <2>4. UNCHANGED <<lease, receipts, agents>> /\ batches \subseteq batches'
    BY <1>6 DEF CheckCommit, CheckInbox, vars
  <2>5. \/ tool' = [tool EXCEPT ![a] = [stage |-> "answered", binding |-> @.binding,
                                        batch |-> NoBatch]]
        \/ /\ b \in batches'
           /\ tool' = [tool EXCEPT ![a] = [stage |-> "answered", binding |-> @.binding,
                                           batch |-> b]]
    BY <1>6 DEF CheckCommit, CheckInbox
  <2>6. /\ b.agent = a
        /\ c.binding = [session |-> b.session, generation |-> b.generation]
    BY <2>3 DEF NewBatch, Binding
  <2> HIDE DEF b
  <2>7. /\ tool'[a].stage = "answered" /\ tool'[a].binding = c.binding
        /\ tool'[a].batch = NoBatch \/ (tool'[a].batch = b /\ b \in batches')
    BY <1>1, <2>2, <2>5
  <2>8. Awaits(calls[a], tool[a])'
    <3>1. Awaits(calls'[a], tool'[a])
      BY <2>2, AwaitsNothing
    <3> QED BY <3>1 DEF Awaits
  <2>9. AnswerFenced(a)'
    BY <2>3, <2>6, <2>7 DEF AnswerFenced
  <2> QED BY <2>4, <2>8, <2>9 DEF ReceiptOK, ReceiptsFenced
<1>7. CASE CheckRecord(a)
  <2>1. UNCHANGED <<lease, calls, agents, batches>> /\ tool[a].stage = "answered"
        /\ tool'[a] = NoTool
    BY <1>1, <1>7 DEF CheckRecord, vars
  <2>2. Awaits(calls[a], tool[a])'
    <3>1. Awaits(calls'[a], tool'[a])
      BY <1>1, <2>1, AwaitsNothing
    <3> QED BY <3>1 DEF Awaits
  <2>3. AnswerFenced(a)'
    BY <2>1 DEF AnswerFenced, NoTool
  <2>4. ReceiptsFenced(a)'
    <3>1. CASE tool[a].batch # NoBatch /\ lease[a] = tool[a].binding
      <4>1. receipts'[a] = receipts[a] \cup {tool[a].batch}
        BY <1>1, <1>7, <3>1 DEF CheckRecord
      <4>2. lease[a] \in Binding /\ lease[a] # NoBinding
        BY <2>1, <3>1, NoBindingAssumption DEF ReceiptOK, AnswerFenced, Binding
      <4>3. a \in agents
        BY <1>1, <4>2 DEF Current, CurrentBinding, BoundIsLive
      <4> QED BY <2>1, <3>1, <4>1, <4>3 DEF ReceiptOK, AnswerFenced, ReceiptsFenced
    <3>2. CASE ~(tool[a].batch # NoBatch /\ lease[a] = tool[a].binding)
      <4>1. receipts'[a] = receipts[a]
        BY <1>1, <1>7, <3>2 DEF CheckRecord
      <4> QED BY <2>1, <4>1 DEF ReceiptOK, ReceiptsFenced
    <3> QED BY <3>1, <3>2
  <2> QED BY <2>2, <2>3, <2>4 DEF ReceiptOK
<1>8. CASE FinishTurn(a)
  <2>1. UNCHANGED <<lease, receipts, tool, agents, batches>>
    BY <1>8 DEF FinishTurn, vars
  <2>2. CASE lease[a] # NoBinding /\ receipts[a] # {}
    <3> DEFINE e == [kind |-> "rearm", binding |-> lease[a], arg |-> 0]
    <3>1. calls'[a] = Append(calls[a], e) /\ e.kind # "check"
      BY <1>1, <1>8, <2>2 DEF FinishTurn, Issued
    <3> HIDE DEF e
    <3>2. Awaits(calls'[a], tool[a])
      BY <1>1, <3>1, AwaitsAppend
    <3> QED BY <1>1, <1>2, <2>1, <3>2, ReceiptsStay
  <2>3. CASE ~(lease[a] # NoBinding /\ receipts[a] # {})
    <3>1. calls' = calls
      BY <1>8, <2>3 DEF FinishTurn
    <3> QED BY <1>1, <1>2, <2>1, <3>1, ReceiptsStay
  <2> QED BY <2>2, <2>3
<1>9. CASE RearmCommit(a) \/ MarkCommit(a)
  <2>1. calls[a] # <<>> /\ calls'[a] = Tail(calls[a])
    BY <1>1, <1>9 DEF RearmCommit, MarkCommit, Commits
  <2>2. UNCHANGED <<lease, receipts, tool, agents, batches>>
    BY <1>9 DEF RearmCommit, MarkCommit, Rearm, MarkNotified, vars
  <2>3. Awaits(calls'[a], tool[a])
    BY <1>1, <2>1, AwaitsTail
  <2> QED BY <1>1, <1>2, <2>2, <2>3, ReceiptsStay
<1> QED BY <1>3, <1>4, <1>5, <1>6, <1>7, <1>8, <1>9 DEF TurnNext

\* The scan only issues marks, and the other calls of the core keep batches.
LEMMA OtherReceipts ==
  ASSUME HInv, NEW x \in Agents, ReceiptOK(x),
         ScanRead \/ ScanDeliver \/ Crash \/ (ChannelNext /\ UNCHANGED hostVars)
  PROVE  ReceiptOK(x)'
<1>1. calls \in [Agents -> Seq(Call)] /\ calls[x] \in Seq(Call) /\ Awaits(calls[x], tool[x])
  BY DEF HInv, HostTypeOK, ReceiptOK
<1>2. ASSUME UNCHANGED <<agents, batches>> PROVE BatchesStay(x)
  BY <1>2 DEF BatchesStay
<1>3. CASE ScanRead
  <2>1. UNCHANGED <<lease, receipts, tool, calls, agents, batches>>
    BY <1>3 DEF ScanRead, vars, runtimes, turns
  <2> QED BY <1>1, <1>2, <2>1, ReceiptsStay
<1>4. CASE ScanDeliver
  <2>1. UNCHANGED <<lease, receipts, tool, agents, batches>>
    BY <1>4 DEF ScanDeliver, vars, runtimes
  <2>2. Awaits(calls'[x], tool[x])
    <3>1. CASE \E w \in Delivered : w.agent = x
      <4> DEFINE w == CHOOSE w \in Delivered : w.agent = x
                 e == [kind |-> "mark", binding |-> w.binding, arg |-> w.seq]
      <4>1. calls'[x] = Append(calls[x], e) /\ e.kind # "check"
        BY <1>4, <3>1 DEF ScanDeliver
      <4> HIDE DEF e
      <4> QED BY <1>1, <4>1, AwaitsAppend
    <3>2. CASE ~\E w \in Delivered : w.agent = x
      BY <1>1, <1>4, <3>2 DEF ScanDeliver
    <3> QED BY <3>1, <3>2
  <2> QED BY <1>2, <2>1, <2>2, ReceiptsStay
<1>5. CASE Crash
  <2>1. receipts'[x] = {} /\ tool'[x] = NoTool /\ calls'[x] = <<>>
    BY <1>5 DEF Crash, Started
  <2> QED BY <2>1 DEF ReceiptOK, ReceiptsFenced, AnswerFenced, Awaits, NoTool
<1>6. CASE ChannelNext /\ UNCHANGED hostVars
  <2>1. UNCHANGED <<lease, receipts, tool, calls, agents, batches>>
    BY <1>6 DEF ChannelNext, hostVars, runtimes, turns, wires, ArchiveChannel, RestoreChannel,
                DeleteChannel, AddMember, SendMessage
  <2> QED BY <1>1, <1>2, <2>1, ReceiptsStay
<1> QED BY <1>3, <1>4, <1>5, <1>6

\* Receipts stay current in every step.
LEMMA StepReceipts ==
  ASSUME HInv, BoundIsLive, \A a \in Agents : ReceiptOK(a), [HostNext]_allVars
  PROVE  \A a \in Agents : ReceiptOK(a)'
<1> SUFFICES ASSUME NEW x \in Agents PROVE ReceiptOK(x)'
  OBVIOUS
<1>1. HostTypeOK /\ TypeOK /\ ReceiptOK(x)
  BY DEF HInv
<1>2. ASSUME NEW a \in Agents, ManagerNext(a) \/ TurnNext(a) \/ MarkCommit(a)
      PROVE  ReceiptOK(x)'
  <2>1. CASE x = a
    BY <1>1, <1>2, <2>1, ManagerReceipts, TurnReceipts
  <2>2. CASE x # a
    <3>1. HostStill(x)
      BY <1>1, <1>2, <2>2, ManagerElsewhere, TurnElsewhere
    <3>2. LedgerStill(x)
      BY <1>1, <1>2, <2>2, HostMakesLedgerCall, LedgerElsewhere
    <3> QED BY <1>1, <3>1, <3>2, ReceiptsElsewhere
  <2> QED BY <2>1, <2>2
<1>3. CASE UNCHANGED allVars
  <2>1. HostStill(x) /\ LedgerStill(x)
    BY <1>3 DEF allVars, hostVars, runtimes, turns, wires, HostStill, LedgerStill, vars, bindings,
                messages, deliveries, wakes
  <2> QED BY <1>1, <2>1, ReceiptsElsewhere
<1> QED BY <1>1, <1>2, <1>3, OtherReceipts DEF HostNext

\* A receipt that waits for the next model request carries the fence of the
\* leased runtime and stands for a stored batch, whatever operations, deletions,
\* failed disposals and crashes come between the check and the request.
THEOREM ReceiptsAlwaysCurrent == HostSpec => []ReceiptsAreCurrent
<1> DEFINE RInv == HInv /\ \A a \in Agents : ReceiptOK(a)
<1>1. HostInit => RInv
  <2> SUFFICES ASSUME HostInit PROVE \A a \in Agents : ReceiptOK(a)
    BY InitHInv
  <2> QED BY DEF HostInit, ReceiptOK, ReceiptsFenced, AnswerFenced, Awaits, NoTool
<1>2. RInv /\ IInv /\ [HostNext]_allVars => RInv'
  <2> SUFFICES ASSUME RInv, IInv, [HostNext]_allVars PROVE RInv'
    OBVIOUS
  <2>1. HInv'
    BY StepHInv
  <2>2. \A a \in Agents : ReceiptOK(a)'
    BY StepReceipts DEF IInv
  <2> QED BY <2>1, <2>2
<1>3. RInv => ReceiptsAreCurrent
  BY DEF ReceiptOK, ReceiptsFenced, ReceiptsAreCurrent
<1>4. HostSpec => []IInv
  BY HostImplementsLedger, Inductive
<1> QED BY <1>1, <1>2, <1>3, <1>4, PTL DEF HostSpec

-----------------------------------------------------------------------------
(* Watermarks and queues never run ahead of the binding they are of.       *)

\* No watermark is ahead of the generations and Messages there are.
MarksAreOld(a) ==
  /\ wakeGen[a] <= generation[a]
  /\ notifiedSeq[a] <= pendingSeq[a] /\ pendingSeq[a] <= lastSeq

\* No call of the core puts a watermark ahead of its Agent.
LEMMA StepMarksAreOld ==
  ASSUME TypeOK, \A a \in Agents : MarksAreOld(a), [Next]_vars
  PROVE  \A a \in Agents : MarksAreOld(a)'
<1> SUFFICES ASSUME NEW x \in Agents PROVE MarksAreOld(x)'
  OBVIOUS
<1>1. /\ TypeOK /\ MarksAreOld(x)
      /\ wakeGen[x] \in Nat /\ generation[x] \in Nat /\ notifiedSeq[x] \in Nat
      /\ pendingSeq[x] \in Nat /\ lastSeq \in Nat
  BY DEF TypeOK
<1> USE DEF MarksAreOld, bindings, channels, messages, deliveries, wakes
<1>2. ASSUME NEW c \in Channels, ArchiveChannel(c) \/ RestoreChannel(c) \/ DeleteChannel(c)
      PROVE  MarksAreOld(x)'
  BY <1>1, <1>2 DEF ArchiveChannel, RestoreChannel, DeleteChannel
<1>3. ASSUME NEW c \in Channels, NEW a \in Agents, AddMember(c, a) PROVE MarksAreOld(x)'
  <2>1. wakeGen'[x] \in {0, wakeGen[x]}
    BY <1>1, <1>3 DEF AddMember, TypeOK
  <2> QED BY <1>1, <1>3, <2>1 DEF AddMember
<1>4. ASSUME NEW c \in Channels, NEW author \in Agents \cup {User}, SendMessage(c, author)
      PROVE MarksAreOld(x)'
  <2>1. pendingSeq'[x] = pendingSeq[x] \/ (pendingSeq[x] < lastSeq + 1
                                           /\ pendingSeq'[x] = lastSeq + 1)
    BY <1>1, <1>4 DEF SendMessage
  <2> QED BY <1>1, <1>4, <2>1 DEF SendMessage
<1>5. ASSUME NEW a \in Agents, DeleteAgent(a) PROVE MarksAreOld(x)'
  <2>1. CASE x = a
    BY <1>1, <1>5, <2>1 DEF DeleteAgent, TypeOK
  <2>2. CASE x # a
    BY <1>1, <1>5, <2>2 DEF DeleteAgent, TypeOK
  <2> QED BY <2>1, <2>2
<1>6. ASSUME NEW a \in Agents, NEW s \in Sessions, BindRuntime(a, s) PROVE MarksAreOld(x)'
  <2>1. generation'[x] \in {generation[x], generation[x] + 1}
    BY <1>1, <1>6 DEF BindRuntime, TypeOK
  <2> QED BY <1>1, <1>6, <2>1 DEF BindRuntime
<1>7. ASSUME NEW a \in Agents, NEW g \in Generations, NEW s \in Sessions, NEW p \in Seqs,
             MarkNotified(a, g, s, p)
      PROVE MarksAreOld(x)'
  <2>1. CASE x = a
    <3>1. wakeGen'[x] = g /\ g = generation[x] /\ notifiedSeq'[x] \in {p, notifiedSeq[x]}
          /\ p <= pendingSeq[x] /\ p \in Nat
      BY <1>1, <1>7, <2>1 DEF MarkNotified, CurrentBinding, TypeOK, Seqs
    <3> QED BY <1>1, <1>7, <3>1 DEF MarkNotified
  <2>2. CASE x # a
    BY <1>1, <1>7, <2>2 DEF MarkNotified, TypeOK
  <2> QED BY <2>1, <2>2
<1>8. ASSUME NEW a \in Agents, NEW g \in Generations, NEW s \in Sessions, Rearm(a, g, s)
      PROVE MarksAreOld(x)'
  <2>1. wakeGen'[x] \in {0, wakeGen[x]}
    BY <1>1, <1>8 DEF Rearm, TypeOK
  <2> QED BY <1>1, <1>8, <2>1 DEF Rearm
<1>9. ASSUME NEW a \in Agents, NEW g \in Generations, NEW s \in Sessions,
             NEW limit \in CheckLimits, CheckInbox(a, g, s, limit)
      PROVE MarksAreOld(x)'
  BY <1>1, <1>9 DEF CheckInbox
<1>10. ASSUME NEW a \in Agents, NEW g \in Generations, NEW s \in Sessions,
              NEW b \in batches, MarkModelSeen(a, g, s, b)
       PROVE MarksAreOld(x)'
  BY <1>1, <1>10 DEF MarkModelSeen
<1>11. CASE UNCHANGED vars
  BY <1>1, <1>11 DEF vars
<1> QED BY <1>2, <1>3, <1>4, <1>5, <1>6, <1>7, <1>8, <1>9, <1>10, <1>11
        DEF Next, ChannelNext, AgentNext

\* Every call of a queue was issued for a generation up to g.
UpTo(q, g) == \A i \in DOMAIN q : q[i].binding.generation <= g

\* A call of this kind has nothing behind it.
OnlyLast(q, kind) == \A i \in DOMAIN q : q[i].kind = kind => i = Len(q)

\* A queue that lost its head was issued for no later a generation.
LEMMA TailUpTo ==
  ASSUME NEW q \in Seq(Call), q # <<>>, NEW g, UpTo(q, g)
  PROVE  UpTo(Tail(q), g) /\ Head(q).binding.generation <= g
<1>1. 1 \in DOMAIN q /\ Head(q) = q[1]
  OBVIOUS
<1>2. ASSUME NEW i \in DOMAIN Tail(q) PROVE i + 1 \in DOMAIN q /\ Tail(q)[i] = q[i + 1]
  BY TailEntry
<1> QED BY <1>1, <1>2 DEF UpTo

\* A queue that lost its head keeps what was last last, and what it is without out.
LEMMA TailKeeps ==
  ASSUME NEW q \in Seq(Call), q # <<>>, NEW kind
  PROVE  /\ OnlyLast(q, kind) => OnlyLast(Tail(q), kind)
         /\ OnlyLast(q, kind) /\ Head(q).kind = kind => Tail(q) = <<>>
         /\ Without(q, kind) => Without(Tail(q), kind)
<1>1. 1 \in DOMAIN q /\ Head(q) = q[1] /\ Len(Tail(q)) = Len(q) - 1
      /\ Tail(q) \in Seq(Call) /\ Len(q) \in Nat
  OBVIOUS
<1>2. ASSUME NEW i \in DOMAIN Tail(q)
      PROVE  i + 1 \in DOMAIN q /\ Tail(q)[i] = q[i + 1] /\ i \in Nat
  BY TailEntry
<1>3. OnlyLast(q, kind) => OnlyLast(Tail(q), kind)
  <2> SUFFICES ASSUME OnlyLast(q, kind), NEW i \in DOMAIN Tail(q), Tail(q)[i].kind = kind
               PROVE  i = Len(Tail(q))
    BY DEF OnlyLast
  <2>1. i + 1 \in DOMAIN q /\ q[i + 1].kind = kind
    BY <1>2
  <2>2. i + 1 = Len(q)
    BY <2>1 DEF OnlyLast
  <2> QED BY <1>1, <1>2, <2>2
<1>4. OnlyLast(q, kind) /\ Head(q).kind = kind => Tail(q) = <<>>
  <2> SUFFICES ASSUME OnlyLast(q, kind), Head(q).kind = kind PROVE Tail(q) = <<>>
    OBVIOUS
  <2>1. Len(q) = 1
    BY <1>1 DEF OnlyLast
  <2>2. Tail(q) \in Seq(Call) /\ Len(Tail(q)) = 0
    BY <1>1, <2>1
  <2>3. \A t \in Seq(Call) : Len(t) = 0 => t = <<>>
    OBVIOUS
  <2> QED BY <2>2, <2>3
<1>5. Without(q, kind) => Without(Tail(q), kind)
  BY <1>2 DEF Without
<1> QED BY <1>3, <1>4, <1>5

\* A queue that gained a call of no later a generation.
LEMMA AppendUpTo ==
  ASSUME NEW q \in Seq(Call), NEW g, UpTo(q, g), NEW e, e.binding.generation <= g
  PROVE  UpTo(Append(q, e), g)
<1>1. ASSUME NEW i \in DOMAIN Append(q, e)
      PROVE  \/ i \in DOMAIN q /\ Append(q, e)[i] = q[i]
             \/ i = Len(q) + 1 /\ Append(q, e)[i] = e
  BY AppendEntry
<1> QED BY <1>1 DEF UpTo

\* A queue that gained the first call of its kind has nothing behind it.
LEMMA AppendKeeps ==
  ASSUME NEW q \in Seq(Call), NEW e, NEW kind, Without(q, kind)
  PROVE  /\ OnlyLast(Append(q, e), kind)
         /\ e.kind # kind => Without(Append(q, e), kind)
<1>1. Len(Append(q, e)) = Len(q) + 1
  OBVIOUS
<1>2. ASSUME NEW i \in DOMAIN Append(q, e)
      PROVE  \/ i \in DOMAIN q /\ Append(q, e)[i] = q[i]
             \/ i = Len(q) + 1 /\ Append(q, e)[i] = e
  BY AppendEntry
<1>3. OnlyLast(Append(q, e), kind)
  BY <1>1, <1>2 DEF Without, OnlyLast
<1>4. e.kind # kind => Without(Append(q, e), kind)
  BY <1>2 DEF Without
<1> QED BY <1>3, <1>4

\* Calls of a later generation are none of an earlier one.
LEMMA UpToMore ==
  ASSUME NEW q \in Seq(Call), NEW g \in Int, NEW h \in Int, g <= h, UpTo(q, g)
  PROVE  UpTo(q, h)
<1>1. \A i \in DOMAIN q : q[i].binding.generation \in Int
  <2> SUFFICES ASSUME NEW i \in DOMAIN q PROVE q[i].binding.generation \in Int
    OBVIOUS
  <2>1. q[i] \in Call
    OBVIOUS
  <2>2. q[i].binding \in Binding
    BY <2>1 DEF Call
  <2> QED BY <2>2 DEF Binding, Generations
<1> QED BY <1>1 DEF UpTo

\* Whatever is about to be published, nothing was notified to it, and nothing
\* that could be notified to it is under way.
QueueOK(a) ==
  /\ a \in agents => UpTo(calls[a], generation[a])
  /\ op[a].stage = "bound" =>
       wakeGen[a] < generation[a] /\ UpTo(calls[a], generation[a] - 1)
  /\ OnlyLast(calls[a], "resume")
  /\ op[a].stage # "rearming" => Without(calls[a], "resume")
  /\ op[a].stage = "rearmed" => calls[a] = <<>> /\ wakeGen[a] = 0

\* A step that issues nothing and publishes nothing.
LEMMA QueueStays ==
  ASSUME NEW a \in Agents, QueueOK(a), calls'[a] = calls[a],
         generation'[a] = generation[a], wakeGen'[a] = wakeGen[a], a \in agents' => a \in agents,
         \/ op'[a].stage = op[a].stage
         \/ op[a].stage # "rearming" /\ op'[a].stage \notin {"bound", "rearmed"}
  PROVE  QueueOK(a)'
<1>1. (a \in agents => UpTo(calls[a], generation[a]))'
  BY DEF QueueOK, UpTo
<1>2. (op[a].stage = "bound" =>
         wakeGen[a] < generation[a] /\ UpTo(calls[a], generation[a] - 1))'
  BY DEF QueueOK, UpTo
<1>3. OnlyLast(calls[a], "resume")'
  BY DEF QueueOK, OnlyLast
<1>4. (op[a].stage # "rearming" => Without(calls[a], "resume"))'
  BY DEF QueueOK, Without
<1>5. (op[a].stage = "rearmed" => calls[a] = <<>> /\ wakeGen[a] = 0)'
  BY DEF QueueOK
<1> QED BY <1>1, <1>2, <1>3, <1>4, <1>5 DEF QueueOK

\* A step of another Agent.
LEMMA QueueElsewhere ==
  ASSUME NEW x \in Agents, QueueOK(x), HostStill(x), LedgerStill(x)
  PROVE  QueueOK(x)'
BY QueueStays DEF HostStill, LedgerStill

\* An operation publishes only over a queue that cannot mark what it publishes.
LEMMA ManagerQueue ==
  ASSUME HInv, BoundIsLive, NEW a \in Agents, MarksAreOld(a), ManagerNext(a), QueueOK(a)
  PROVE  QueueOK(a)'
<1>1. /\ op \in [Agents -> Op] /\ calls \in [Agents -> Seq(Call)] /\ calls[a] \in Seq(Call)
      /\ generation \in [Agents -> 0..MaxGeneration] /\ wakeGen \in [Agents -> 0..MaxGeneration]
      /\ op[a] \in Op
      /\ DeletionStops(a) /\ TargetReady(a) /\ a \in Agents /\ HostTypeOK
  BY DEF HInv, HostTypeOK, TypeOK, AgentOK
<1> USE DEF turns, wires
<1>2. CASE BeginCreate(a) \/ BeginResume(a) \/ BeginDelete(a)
  <2>1. PICK kind \in {"create", "resume", "delete"}, target \in AnyBinding :
          Dispose(a, kind, target)
    <3>1. BeginResume(a) => Durable(a) \in AnyBinding
      BY <1>1, DurableIsBinding DEF BeginResume, HInv, AgentOK, AnyBinding
    <3>2. NoBinding \in AnyBinding
      BY DEF AnyBinding
    <3> QED BY <1>2, <3>1, <3>2 DEF BeginCreate, BeginResume, BeginDelete
  <2>2. op'[a].stage \in {"free", "disposing", "creating", "resuming"}
    <3> DEFINE o == [stage |-> "disposing", kind |-> kind, held |-> lease[a], target |-> target]
    <3>1. o \in Op /\ o.stage = "disposing"
      BY DEF Op, HInv, HostTypeOK
    <3>2. op'[a] = IF lease[a] = NoBinding THEN AfterDispose(o) ELSE o
      BY <1>1, <2>1 DEF Dispose
    <3> HIDE DEF o
    <3> QED BY <3>1, <3>2, AfterDisposeIsOp
  <2>3. op[a].stage = "free" /\ UNCHANGED <<calls, generation, wakeGen, agents>>
    BY <2>1, FreeIsOp DEF Dispose, vars, bindings, wakes
  <2> QED BY <2>2, <2>3, QueueStays
<1>3. CASE DisposeDone(a)
  <2>1. op'[a].stage \in {"free", "creating", "resuming"} /\ op[a].stage = "disposing"
    BY <1>1, <1>3, AfterDisposeIsOp DEF DisposeDone
  <2>2. UNCHANGED <<calls, generation, wakeGen, agents>>
    BY <1>3 DEF DisposeDone, vars, bindings, wakes
  <2> QED BY <2>1, <2>2, QueueStays
<1>4. CASE DisposeFails(a) \/ PublishCreate(a) \/ ResumeFails(a) \/ PublishResume(a)
  <2>1. op'[a].stage = "free" /\ op[a].stage \in {"disposing", "bound", "resuming", "rearmed"}
    BY <1>1, <1>4, FreeIsOp DEF DisposeFails, PublishCreate, ResumeFails, PublishResume
  <2>2. UNCHANGED <<calls, generation, wakeGen, agents>>
    BY <1>4 DEF DisposeFails, PublishCreate, ResumeFails, PublishResume, vars,
                bindings, wakes
  <2> QED BY <2>1, <2>2, QueueStays
<1>5. CASE CreateFails(a)
  <2>1. op'[a].stage \in {"free", "resuming"} /\ op[a].stage = "creating"
    BY <1>1, <1>5, FreeIsOp DEF CreateFails, Resuming
  <2>2. UNCHANGED <<calls, generation, wakeGen, agents>>
    BY <1>5 DEF CreateFails, vars, bindings, wakes
  <2> QED BY <2>1, <2>2, QueueStays
<1>6. CASE DeleteCommit(a)
  <2>1. op' = op /\ calls' = calls /\ a \notin agents'
        /\ op[a].stage \in {"free", "creating", "resuming"}
    BY <1>1, <1>6 DEF DeleteCommit, DeleteAgent, DeletionStops
  <2> QED BY <2>1 DEF QueueOK, OnlyLast, Without
<1>7. ASSUME NEW s \in Sessions, CommitBind(a, s) PROVE QueueOK(a)'
  <2>1. /\ op'[a].stage = "bound" /\ op[a].stage = "creating" /\ calls' = calls
        /\ wakeGen' = wakeGen /\ generation'[a] = generation[a] + 1 /\ a \in agents
    BY <1>1, <1>7 DEF CommitBind, BindRuntime, Op, wakes
  <2>2. UpTo(calls[a], generation[a]) /\ UpTo(calls[a], generation[a] + 1)
    BY <1>1, <2>1, UpToMore DEF QueueOK
  <2>3. wakeGen[a] < generation[a] + 1 /\ generation'[a] - 1 = generation[a]
    BY <1>1, <2>1 DEF MarksAreOld
  <2> QED BY <2>1, <2>2, <2>3 DEF QueueOK, UpTo, OnlyLast, Without
<1>8. CASE IssueRearm(a)
  <2> DEFINE e == [kind |-> "resume", binding |-> op[a].target, arg |-> 0]
  <2>1. calls'[a] = Append(calls[a], e) /\ e.binding = op[a].target
    BY <1>1, <1>8 DEF IssueRearm, Issued
  <2>2. op[a].stage = "resuming" /\ op'[a].stage = "rearming"
        /\ UNCHANGED <<generation, wakeGen, agents>> /\ op[a].target.generation = generation[a]
        /\ a \in agents
    BY <1>1, <1>8 DEF IssueRearm, vars, bindings, wakes, Current, CurrentBinding, BoundIsLive
  <2> HIDE DEF e
  <2>3. UpTo(calls'[a], generation[a]) /\ OnlyLast(calls'[a], "resume")
    <3>1. UpTo(calls[a], generation[a]) /\ Without(calls[a], "resume")
      BY <2>2 DEF QueueOK
    <3>2. e.binding.generation <= generation[a]
      BY <1>1, <2>1, <2>2
    <3>3. UpTo(calls'[a], generation[a])
      BY <1>1, <2>1, <3>1, <3>2, AppendUpTo
    <3>4. OnlyLast(calls'[a], "resume")
      BY <1>1, <2>1, <3>1, AppendKeeps
    <3> QED BY <3>3, <3>4
  <2> QED BY <2>2, <2>3 DEF QueueOK, UpTo, OnlyLast
<1>9. CASE ResumeRearm(a)
  <2>1. calls[a] # <<>> /\ Head(calls[a]).kind = "resume" /\ calls'[a] = Tail(calls[a])
        /\ op[a].stage = "rearming"
    BY <1>1, <1>9 DEF ResumeRearm, Commits
  <2>2. calls'[a] = <<>>
    BY <1>1, <2>1, TailKeeps DEF QueueOK
  <2>3. op'[a].stage \in {"free", "rearmed"} /\ (op'[a].stage = "rearmed" => wakeGen'[a] = 0)
    <3>1. CASE Current(a, op[a].target)
      BY <1>1, <1>9, <3>1 DEF ResumeRearm, Rearm, Op
    <3>2. CASE ~Current(a, op[a].target)
      BY <1>1, <1>9, <3>2, FreeIsOp DEF ResumeRearm
    <3> QED BY <3>1, <3>2
  <2> QED BY <2>2, <2>3 DEF QueueOK, UpTo, OnlyLast, Without
<1> QED BY <1>2, <1>3, <1>4, <1>5, <1>6, <1>7, <1>8, <1>9 DEF ManagerNext

\* A call of the leased runtime is issued only while nothing is published.
LEMMA LeasedIssue ==
  ASSUME HInv, BoundIsLive, NEW a \in Agents, QueueOK(a), lease[a] # NoBinding,
         NEW e, e.binding = lease[a], e.kind # "resume", calls'[a] = Append(calls[a], e),
         op'[a] = op[a], generation'[a] = generation[a], a \in agents' => a \in agents
  PROVE  QueueOK(a)'
<1>1. /\ calls[a] \in Seq(Call) /\ op[a].stage = "free" /\ lease[a].generation = generation[a]
      /\ a \in agents /\ generation[a] \in Int
  BY DEF HInv, HostTypeOK, TypeOK, AgentOK, LockTakesLease, Current, CurrentBinding, BoundIsLive
<1>2. UpTo(calls[a], generation[a]) /\ Without(calls[a], "resume")
      /\ e.binding.generation <= generation[a]
  BY <1>1 DEF QueueOK
<1>3. Without(calls'[a], "resume") /\ UpTo(calls'[a], generation[a])
  <2>1. Without(calls'[a], "resume")
    BY <1>1, <1>2, AppendKeeps
  <2>2. UpTo(calls'[a], generation[a])
    BY <1>1, <1>2, AppendUpTo
  <2> QED BY <2>1, <2>2
<1>4. OnlyLast(calls'[a], "resume")
  BY <1>3 DEF Without, OnlyLast
<1> QED BY <1>1, <1>3, <1>4 DEF QueueOK, UpTo, OnlyLast, Without

\* A call that commits notifies nothing that is about to be published.
LEMMA CommitQueue ==
  ASSUME HInv, BoundIsLive, NEW a \in Agents, QueueOK(a), calls[a] # <<>>,
         calls'[a] = Tail(calls[a]), op'[a] = op[a], generation'[a] = generation[a],
         a \in agents' => a \in agents,
         \/ wakeGen'[a] \in {0, wakeGen[a]}
         \/ Head(calls[a]).binding.generation = generation[a]
  PROVE  QueueOK(a)'
<1>1. calls[a] \in Seq(Call) /\ generation[a] \in Nat /\ wakeGen[a] \in Nat
  BY DEF HInv, HostTypeOK, TypeOK
<1>2. /\ OnlyLast(calls'[a], "resume")
      /\ Without(calls[a], "resume") => Without(calls'[a], "resume")
      /\ \A g : UpTo(calls[a], g) =>
                  UpTo(calls'[a], g) /\ Head(calls[a]).binding.generation <= g
  <2>1. /\ OnlyLast(calls'[a], "resume")
        /\ Without(calls[a], "resume") => Without(calls'[a], "resume")
    BY <1>1, TailKeeps DEF QueueOK
  <2>2. ASSUME NEW g, UpTo(calls[a], g)
        PROVE  UpTo(calls'[a], g) /\ Head(calls[a]).binding.generation <= g
    BY <1>1, <2>2, TailUpTo
  <2> QED BY <2>1, <2>2
<1>3. (a \in agents => UpTo(calls[a], generation[a]))'
  BY <1>2 DEF QueueOK, UpTo
<1>4. (op[a].stage = "bound" =>
         wakeGen[a] < generation[a] /\ UpTo(calls[a], generation[a] - 1))'
  <2> SUFFICES ASSUME op[a].stage = "bound"
               PROVE  wakeGen'[a] < generation[a] /\ UpTo(calls'[a], generation[a] - 1)
    BY DEF UpTo
  <2>1. wakeGen[a] < generation[a] /\ UpTo(calls'[a], generation[a] - 1)
        /\ Head(calls[a]).binding.generation <= generation[a] - 1
    BY <1>2 DEF QueueOK
  <2>2. wakeGen'[a] \in {0, wakeGen[a]}
    BY <1>1, <2>1
  <2> QED BY <1>1, <2>1, <2>2
<1> QED BY <1>2, <1>3, <1>4 DEF QueueOK, OnlyLast, Without

\* A turn issues its calls for the leased binding, and commits the oldest first.
LEMMA TurnQueue ==
  ASSUME HInv, BoundIsLive, NEW a \in Agents, TurnNext(a) \/ MarkCommit(a), QueueOK(a)
  PROVE  QueueOK(a)'
<1>1. /\ op \in [Agents -> Op] /\ calls \in [Agents -> Seq(Call)] /\ calls[a] \in Seq(Call)
      /\ wakeGen \in [Agents -> 0..MaxGeneration] /\ HostTypeOK
  BY DEF HInv, HostTypeOK, TypeOK
<1> USE DEF turns, wires, runtimes
<1>2. CASE BeginRequest(a) \/ RequestSent(a) \/ CheckRecord(a)
  <2>1. UNCHANGED <<op, calls, generation, wakeGen, agents>>
    BY <1>2 DEF BeginRequest, RequestSent, CheckRecord, vars, bindings, wakes
  <2> QED BY <2>1, QueueStays
<1>3. ASSUME NEW b \in confirming[a], Confirm(a, b) PROVE QueueOK(a)'
  <2>1. UNCHANGED <<op, calls, generation, wakeGen, agents>>
    BY <1>3 DEF Confirm, MarkModelSeen, vars, bindings, wakes
  <2> QED BY <2>1, QueueStays
<1>4. ASSUME NEW limit \in CheckLimits, CallCheck(a, limit) PROVE QueueOK(a)'
  <2>1. UNCHANGED <<op, generation, wakeGen, agents>>
    BY <1>4 DEF CallCheck, vars, bindings, wakes
  <2>2. CASE lease[a] # NoBinding /\ lease[a] = Durable(a)
    <3> DEFINE e == [kind |-> "check", binding |-> lease[a], arg |-> limit]
    <3>1. calls'[a] = Append(calls[a], e) /\ e.kind # "resume" /\ e.binding = lease[a]
      BY <1>1, <1>4, <2>2 DEF CallCheck, Issued
    <3> HIDE DEF e
    <3> QED BY <2>1, <2>2, <3>1, LeasedIssue
  <2>3. CASE ~(lease[a] # NoBinding /\ lease[a] = Durable(a))
    <3>1. calls' = calls
      BY <1>4, <2>3 DEF CallCheck
    <3> QED BY <2>1, <3>1, QueueStays
  <2> QED BY <2>2, <2>3
<1>5. CASE CheckCommit(a)
  <2>1. UNCHANGED <<op, generation, wakeGen, agents>>
    BY <1>5 DEF CheckCommit, CheckInbox, vars, bindings, wakes
  <2>2. calls[a] # <<>> /\ calls'[a] = Tail(calls[a])
    BY <1>1, <1>5 DEF CheckCommit, Commits
  <2> QED BY <2>1, <2>2, CommitQueue
<1>6. CASE FinishTurn(a)
  <2>1. UNCHANGED <<op, generation, wakeGen, agents>>
    BY <1>6 DEF FinishTurn, vars, bindings, wakes
  <2>2. CASE lease[a] # NoBinding /\ receipts[a] # {}
    <3> DEFINE e == [kind |-> "rearm", binding |-> lease[a], arg |-> 0]
    <3>1. calls'[a] = Append(calls[a], e) /\ e.kind # "resume" /\ e.binding = lease[a]
      BY <1>1, <1>6, <2>2 DEF FinishTurn, Issued
    <3> HIDE DEF e
    <3> QED BY <2>1, <2>2, <3>1, LeasedIssue
  <2>3. CASE ~(lease[a] # NoBinding /\ receipts[a] # {})
    <3>1. calls' = calls
      BY <1>6, <2>3 DEF FinishTurn
    <3> QED BY <2>1, <3>1, QueueStays
  <2> QED BY <2>2, <2>3
<1>7. CASE RearmCommit(a)
  <2>1. UNCHANGED <<op, generation, agents>> /\ wakeGen'[a] \in {0, wakeGen[a]}
    BY <1>1, <1>7 DEF RearmCommit, Rearm, vars, bindings, wakes
  <2>2. calls[a] # <<>> /\ calls'[a] = Tail(calls[a])
    BY <1>1, <1>7 DEF RearmCommit, Commits
  <2> QED BY <2>1, <2>2, CommitQueue
<1>8. CASE MarkCommit(a)
  <2>1. UNCHANGED <<op, generation, agents>>
    BY <1>8 DEF MarkCommit, MarkNotified, vars, bindings
  <2>2. \/ wakeGen'[a] = wakeGen[a]
        \/ Head(calls[a]).binding.generation = generation[a]
    BY <1>8 DEF MarkCommit, MarkNotified, vars, wakes, Current, CurrentBinding
  <2>3. calls[a] # <<>> /\ calls'[a] = Tail(calls[a])
    BY <1>1, <1>8 DEF MarkCommit, Commits
  <2> QED BY <2>1, <2>2, <2>3, CommitQueue
<1> QED BY <1>2, <1>3, <1>4, <1>5, <1>6, <1>7, <1>8 DEF TurnNext

\* So does a scan; a restart empties the queue.
LEMMA OtherQueue ==
  ASSUME HInv, BoundIsLive, NEW x \in Agents, QueueOK(x),
         ScanRead \/ ScanDeliver \/ Crash \/ (ChannelNext /\ UNCHANGED hostVars)
  PROVE  QueueOK(x)'
<1>1. /\ calls[x] \in Seq(Call) /\ wakeGen \in [Agents -> 0..MaxGeneration]
      /\ generation[x] \in Nat /\ wakeGen[x] \in Nat
      /\ (scan = NoScan \/ scan \subseteq Wake)
  BY DEF HInv, HostTypeOK, TypeOK
<1>2. CASE ScanRead
  <2>1. UNCHANGED <<op, calls, generation, wakeGen, agents>>
    BY <1>2 DEF ScanRead, vars, runtimes, turns, bindings, wakes
  <2> QED BY <2>1, QueueStays
<1>3. CASE ScanDeliver
  <2>1. UNCHANGED <<op, generation, wakeGen, agents>>
    BY <1>3 DEF ScanDeliver, vars, runtimes, bindings, wakes
  <2>2. CASE \E w \in Delivered : w.agent = x
    <3> DEFINE w == CHOOSE w \in Delivered : w.agent = x
               e == [kind |-> "mark", binding |-> w.binding, arg |-> w.seq]
    <3>1. calls'[x] = Append(calls[x], e) /\ e.kind # "resume" /\ e.binding = w.binding
      BY <1>3, <2>2 DEF ScanDeliver
    <3>2. w \in Delivered /\ w.agent = x
      BY <2>2
    <3> HIDE DEF e, w
    <3>3. lease[x] = w.binding /\ w.binding \in Binding
      BY <1>1, <1>3, <3>2 DEF ScanDeliver, Delivered, Wake
    <3>4. lease[x] # NoBinding
      BY <3>3, NoBindingAssumption DEF Binding
    <3> QED BY <2>1, <3>1, <3>3, <3>4, LeasedIssue
  <2>3. CASE ~\E w \in Delivered : w.agent = x
    <3>1. calls'[x] = calls[x]
      BY <1>3, <2>3 DEF ScanDeliver
    <3> QED BY <2>1, <3>1, QueueStays
  <2> QED BY <2>2, <2>3
<1>4. CASE Crash
  <2>1. calls'[x] = <<>> /\ op'[x].stage \in {"free", "resuming"}
    BY <1>4, FreeIsOp DEF Crash, Started, Resuming
  <2> QED BY <2>1 DEF QueueOK, UpTo, OnlyLast, Without
<1>5. CASE ChannelNext /\ UNCHANGED hostVars
  <2>1. UNCHANGED <<op, calls, generation, agents>> /\ wakeGen'[x] \in {0, wakeGen[x]}
    <3>1. ASSUME NEW c \in Channels, NEW a \in Agents, AddMember(c, a)
          PROVE  UNCHANGED <<generation, agents>> /\ wakeGen'[x] \in {0, wakeGen[x]}
      BY <1>1, <3>1 DEF AddMember, bindings
    <3> QED BY <1>5, <3>1 DEF ChannelNext, hostVars, runtimes, wires, ArchiveChannel,
              RestoreChannel, DeleteChannel, SendMessage, bindings, wakes
  <2>2. (op[x].stage = "bound" =>
           wakeGen[x] < generation[x] /\ UpTo(calls[x], generation[x] - 1))'
    BY <1>1, <2>1 DEF QueueOK, UpTo
  <2> QED BY <1>1, <2>1, <2>2 DEF QueueOK, UpTo, OnlyLast, Without
<1> QED BY <1>2, <1>3, <1>4, <1>5

\* No step lets a queue run ahead of its binding.
LEMMA StepQueue ==
  ASSUME HInv, BoundIsLive, [HostNext]_allVars,
         \A a \in Agents : QueueOK(a) /\ MarksAreOld(a)
  PROVE  \A a \in Agents : QueueOK(a)'
<1> SUFFICES ASSUME NEW x \in Agents PROVE QueueOK(x)'
  OBVIOUS
<1>1. HostTypeOK /\ TypeOK /\ QueueOK(x)
  BY DEF HInv
<1>2. ASSUME NEW a \in Agents, ManagerNext(a) \/ TurnNext(a) \/ MarkCommit(a)
      PROVE  QueueOK(x)'
  <2>1. CASE x = a
    BY <1>1, <1>2, <2>1, ManagerQueue, TurnQueue
  <2>2. CASE x # a
    <3>1. HostStill(x)
      BY <1>1, <1>2, <2>2, ManagerElsewhere, TurnElsewhere
    <3>2. LedgerStill(x)
      BY <1>1, <1>2, <2>2, HostMakesLedgerCall, LedgerElsewhere
    <3> QED BY <1>1, <3>1, <3>2, QueueElsewhere
  <2> QED BY <2>1, <2>2
<1>3. CASE UNCHANGED allVars
  <2>1. HostStill(x) /\ LedgerStill(x)
    BY <1>3 DEF allVars, hostVars, runtimes, turns, wires, HostStill, LedgerStill, vars, bindings,
                messages, deliveries, wakes
  <2> QED BY <1>1, <2>1, QueueElsewhere
<1> QED BY <1>1, <1>2, <1>3, OtherQueue DEF HostNext

-----------------------------------------------------------------------------
(* Custody of unseen work.                                                 *)

\* The Deliveries of an Agent that its model has not seen.
Unread(a) == {n \in delivered[a] : seenGen[a][n] = 0}

\* The next scan reports the Delivery n.
Fresh(a, n) ==
  \/ n > notifiedSeq[a]
  \/ wakeGen[a] # generation[a]
  \/ notifiedGen[a][n] # generation[a]

\* The tool has the answer of the check and has not recorded it.
AnswerArrived(a) == turn[a] = "checking" /\ tool[a].stage = "answered"

\* The model has a notice to answer, and its check has not been served.
Asking(a) == asked[a] /\ ~AnswerArrived(a)

\* A running turn holds n in a receipt or in the answer of its check.
Holds(a, n) ==
  /\ turn[a] # "idle"
  /\ \/ \E b \in receipts[a] : n \in b.items
     \/ AnswerArrived(a) /\ tool[a].batch # NoBatch /\ n \in tool[a].batch.items

\* A call of this kind is under way for this binding.
Queued(q, kind, b) == \E i \in DOMAIN q : q[i].kind = kind /\ q[i].binding = b

\* Somebody will act on n.
Kept(a, n) ==
  Fresh(a, n) \/ notice[a] \/ Asking(a) \/ Queued(calls[a], "rearm", lease[a]) \/ Holds(a, n)

InCustody(a) == lease[a] # NoBinding => \A n \in Unread(a) : Kept(a, n)

\* A mark that has still to commit takes no Delivery out of custody.
MarkIsAsked(a) ==
  lease[a] # NoBinding /\ Queued(calls[a], "mark", lease[a]) => notice[a] \/ Asking(a)

\* Whatever was delivered after the check was issued left a notice.
CheckIsLast(a) == turn[a] = "checking" /\ ~notice[a] => OnlyLast(calls[a], "check")

\* The check of a running turn is one of the leased runtime.
CheckIsLeased(a) ==
  turn[a] = "checking" /\ lease[a] # NoBinding =>
    tool[a].stage # "none" /\ tool[a].binding = lease[a]

\* Once the old handle is disposed of, and without one, nothing runs.
IdleUnleased(a) ==
  lease[a] = NoBinding /\ op[a].stage # "disposing" => turn[a] = "idle" /\ ~notice[a]

CustodyOK(a) ==
  InCustody(a) /\ MarkIsAsked(a) /\ CheckIsLast(a) /\ CheckIsLeased(a) /\ IdleUnleased(a)

\* A queue that lost its head.
LEMMA TailQueued ==
  ASSUME NEW q \in Seq(Call), q # <<>>, NEW kind, NEW b
  PROVE  /\ Queued(Tail(q), kind, b) => Queued(q, kind, b)
         /\ Queued(q, kind, b) /\ ~(Head(q).kind = kind /\ Head(q).binding = b)
              => Queued(Tail(q), kind, b)
<1>1. Queued(Tail(q), kind, b) => Queued(q, kind, b)
  BY TailEntry DEF Queued
<1>2. ASSUME NEW i \in DOMAIN q, q[i].kind = kind, q[i].binding = b,
             ~(Head(q).kind = kind /\ Head(q).binding = b)
      PROVE  Queued(Tail(q), kind, b)
  <2>1. i # 1 /\ i \in 1..Len(q) /\ Len(q) \in Nat
    BY <1>2
  <2>2. i - 1 \in DOMAIN Tail(q) /\ Tail(q)[i - 1] = q[i]
    BY <2>1
  <2> QED BY <1>2, <2>2 DEF Queued
<1> QED BY <1>1, <1>2 DEF Queued

\* A queue that gained a call.
LEMMA AppendQueued ==
  ASSUME NEW q \in Seq(Call), NEW e, NEW kind, NEW b
  PROVE  /\ Queued(q, kind, b) => Queued(Append(q, e), kind, b)
         /\ e.kind = kind /\ e.binding = b => Queued(Append(q, e), kind, b)
         /\ Queued(Append(q, e), kind, b) =>
              Queued(q, kind, b) \/ (e.kind = kind /\ e.binding = b)
<1>1. \A i \in DOMAIN q : i \in DOMAIN Append(q, e) /\ Append(q, e)[i] = q[i]
  OBVIOUS
<1>2. Len(q) + 1 \in DOMAIN Append(q, e) /\ Append(q, e)[Len(q) + 1] = e
  OBVIOUS
<1>3. Queued(q, kind, b) => Queued(Append(q, e), kind, b)
  BY <1>1 DEF Queued
<1>4. e.kind = kind /\ e.binding = b => Queued(Append(q, e), kind, b)
  BY <1>2 DEF Queued
<1>5. Queued(Append(q, e), kind, b) => Queued(q, kind, b) \/ (e.kind = kind /\ e.binding = b)
  BY AppendEntry DEF Queued
<1> QED BY <1>3, <1>4, <1>5

\* Without a lease and with everything torn down nothing is in custody.
LEMMA UnleasedStays ==
  ASSUME NEW a \in Agents, lease'[a] = NoBinding, turn'[a] = "idle", ~notice'[a]
  PROVE  CustodyOK(a)'
BY DEF CustodyOK, InCustody, MarkIsAsked, CheckIsLast, CheckIsLeased, IdleUnleased

\* A step that leaves the turn alone, takes nothing out of the scan and adds
\* neither a mark nor anything behind a check.
LEMMA CustodyStays ==
  ASSUME NEW a \in Agents, CustodyOK(a),
         lease'[a] = lease[a], receipts'[a] = receipts[a], notice'[a] = notice[a],
         turn'[a] = turn[a], asked'[a] = asked[a], tool'[a] = tool[a],
         op'[a].stage = op[a].stage,
         lease[a] # NoBinding =>
           \/ notice[a] \/ Asking(a)
           \/ \A n \in Unread(a)' :
                \/ Fresh(a, n)'
                \/ /\ n \in Unread(a)
                   /\ Fresh(a, n) => Fresh(a, n)'
                   /\ Queued(calls[a], "rearm", lease[a]) => Queued(calls'[a], "rearm", lease[a]),
         Queued(calls'[a], "mark", lease[a]) => Queued(calls[a], "mark", lease[a]),
         OnlyLast(calls[a], "check") => OnlyLast(calls'[a], "check")
  PROVE  CustodyOK(a)'
<1>1. (AnswerArrived(a)' <=> AnswerArrived(a)) /\ (Asking(a)' <=> Asking(a))
  BY DEF AnswerArrived, Asking
<1>2. \A n : Holds(a, n) => Holds(a, n)'
  BY <1>1 DEF Holds
<1>3. \A kind : Queued(calls[a], kind, lease[a])' <=> Queued(calls'[a], kind, lease[a])
  BY DEF Queued
<1>4. InCustody(a)'
  <2> SUFFICES ASSUME lease[a] # NoBinding, NEW n \in Unread(a)' PROVE Kept(a, n)'
    BY DEF InCustody
  <2>1. CASE Fresh(a, n)'
    BY <2>1 DEF Kept
  <2>3. CASE notice[a] \/ Asking(a)
    BY <2>3, <1>1 DEF Kept
  <2>2. CASE ~Fresh(a, n)' /\ ~(notice[a] \/ Asking(a))
    <3>1. /\ n \in Unread(a) /\ ~Fresh(a, n)
          /\ Queued(calls[a], "rearm", lease[a]) => Queued(calls'[a], "rearm", lease[a])
      BY <2>2
    <3>2. Kept(a, n)
      BY <3>1 DEF CustodyOK, InCustody
    <3>4. CASE Queued(calls[a], "rearm", lease[a])
      BY <3>1, <3>4, <1>3 DEF Kept
    <3>5. CASE Holds(a, n)
      BY <3>5, <1>2 DEF Kept
    <3> QED BY <2>2, <3>1, <3>2, <3>4, <3>5 DEF Kept
  <2> QED BY <2>1, <2>2, <2>3
<1>5. MarkIsAsked(a)'
  BY <1>1, <1>3 DEF CustodyOK, MarkIsAsked
<1>6. CheckIsLast(a)'
  <2>1. OnlyLast(calls[a], "check")' <=> OnlyLast(calls'[a], "check")
    BY DEF OnlyLast
  <2> QED BY <2>1 DEF CustodyOK, CheckIsLast
<1>7. CheckIsLeased(a)' /\ IdleUnleased(a)'
  BY DEF CustodyOK, CheckIsLeased, IdleUnleased
<1> QED BY <1>4, <1>5, <1>6, <1>7 DEF CustodyOK

\* A step of another Agent.
LEMMA CustodyElsewhere ==
  ASSUME NEW x \in Agents, CustodyOK(x), HostStill(x), LedgerStill(x)
  PROVE  CustodyOK(x)'
<1>1. Unread(x)' = Unread(x) /\ \A n : Fresh(x, n)' <=> Fresh(x, n)
  BY DEF LedgerStill, Unread, Fresh
<1> QED BY <1>1, CustodyStays DEF HostStill

\* An operation ends a turn before it publishes, and publishes what is fresh.
LEMMA ManagerCustody ==
  ASSUME Faults = {}, HInv, NEW a \in Agents, ManagerNext(a), QueueOK(a), CustodyOK(a)
  PROVE  CustodyOK(a)'
<1>1. /\ lease \in [Agents -> AnyBinding] /\ op \in [Agents -> Op] /\ op[a] \in Op
      /\ notice \in [Agents -> BOOLEAN] /\ asked \in [Agents -> BOOLEAN]
      /\ turn \in [Agents -> {"idle", "confirming", "thinking", "checking", "answered"}]
      /\ LockTakesLease(a) /\ DeletionStops(a) /\ TargetReady(a) /\ TargetIsCurrent(a)
      /\ generation[a] \in Nat /\ wakeGen[a] \in Nat /\ calls[a] \in Seq(Call)
  BY DEF HInv, HostTypeOK, TypeOK, AgentOK
<1> USE DEF turns, wires
<1>2. CASE BeginCreate(a) \/ BeginResume(a) \/ BeginDelete(a)
  <2>1. PICK kind, target : Dispose(a, kind, target)
    BY <1>2 DEF BeginCreate, BeginResume, BeginDelete
  <2>2. lease'[a] = NoBinding /\ UNCHANGED <<notice, turn, calls>> /\ op[a] = Free
    BY <1>1, <2>1 DEF Dispose
  <2>3. CASE lease[a] = NoBinding
    <3>1. turn[a] = "idle" /\ ~notice[a]
      BY <2>2, <2>3, FreeIsOp DEF CustodyOK, IdleUnleased
    <3> QED BY <2>2, <3>1, UnleasedStays
  <2>4. CASE lease[a] # NoBinding
    <3>1. op'[a].stage = "disposing"
      BY <1>1, <2>1, <2>4 DEF Dispose
    <3>2. CheckIsLast(a)'
      BY <2>2 DEF CustodyOK, CheckIsLast, OnlyLast
    <3> QED BY <2>2, <3>1, <3>2
            DEF CustodyOK, InCustody, MarkIsAsked, CheckIsLeased, IdleUnleased
  <2> QED BY <2>3, <2>4
<1>3. CASE DisposeDone(a)
  <2>1. lease'[a] = NoBinding /\ turn'[a] = "idle" /\ ~notice'[a]
    BY <1>1, <1>3 DEF DisposeDone, LockTakesLease
  <2> QED BY <2>1, UnleasedStays
<1>4. CASE DisposeFails(a)
  BY <1>4 DEF DisposeFails
<1>5. CASE CreateFails(a) \/ ResumeFails(a) \/ IssueRearm(a)
  <2>1. UNCHANGED <<lease, turn, notice>> /\ op[a].stage \in {"creating", "resuming"}
    BY <1>5 DEF CreateFails, ResumeFails, IssueRearm
  <2>2. lease[a] = NoBinding /\ turn[a] = "idle" /\ ~notice[a]
    BY <1>1, <2>1 DEF LockTakesLease, CustodyOK, IdleUnleased
  <2> QED BY <2>1, <2>2, UnleasedStays
<1>6. CASE ResumeRearm(a) \/ \E s \in Sessions : CommitBind(a, s)
  <2>1. UNCHANGED <<lease, turn, notice>> /\ op[a].stage \in {"creating", "rearming"}
    BY <1>6 DEF ResumeRearm, CommitBind
  <2>2. lease[a] = NoBinding /\ turn[a] = "idle" /\ ~notice[a]
    BY <1>1, <2>1 DEF LockTakesLease, CustodyOK, IdleUnleased
  <2> QED BY <2>1, <2>2, UnleasedStays
<1>7. CASE DeleteCommit(a)
  <2>1. UNCHANGED <<lease, turn, notice>> /\ op[a].stage \in {"free", "creating", "resuming"}
        /\ lease[a] = NoBinding
    BY <1>1, <1>7 DEF DeleteCommit, DeletionStops
  <2>2. turn[a] = "idle" /\ ~notice[a]
    BY <2>1 DEF CustodyOK, IdleUnleased
  <2> QED BY <2>1, <2>2, UnleasedStays
<1>8. CASE PublishCreate(a) \/ PublishResume(a)
  <2>1. /\ lease'[a] = op[a].target /\ op[a].stage \in {"bound", "rearmed"}
        /\ UNCHANGED <<turn, notice, asked, tool, calls, wakeGen, generation>>
    BY <1>1, <1>8 DEF PublishCreate, PublishResume, vars, wakes, bindings
  <2>2. /\ op[a].target \in Binding /\ op[a].target.generation = generation[a]
        /\ generation[a] # 0 /\ turn[a] = "idle"
    BY <1>1, <2>1 DEF TargetReady, TargetIsCurrent, Current, CurrentBinding, Bound,
                      LockTakesLease, CustodyOK, IdleUnleased
  <2>3. wakeGen[a] # generation[a]
    BY <1>1, <2>1, <2>2 DEF QueueOK
  <2>4. ~Queued(calls[a], "mark", op[a].target)
    <3>1. CASE op[a].stage = "bound"
      <4>1. \A i \in DOMAIN calls[a] : calls[a][i].binding.generation <= generation[a] - 1
        BY <3>1 DEF QueueOK, UpTo
      <4> QED BY <1>1, <2>2, <4>1 DEF Queued
    <3>2. CASE op[a].stage = "rearmed"
      BY <3>2 DEF QueueOK, Queued
    <3> QED BY <2>1, <3>1, <3>2
  <2>5. lease'[a] # NoBinding
    BY <2>1, <2>2, NoBindingAssumption DEF Binding
  <2>6. InCustody(a)'
    BY <2>1, <2>3 DEF InCustody, Kept, Fresh
  <2>7. MarkIsAsked(a)'
    BY <2>1, <2>4 DEF MarkIsAsked, Queued
  <2> QED BY <2>1, <2>2, <2>5, <2>6, <2>7
          DEF CustodyOK, CheckIsLast, CheckIsLeased, IdleUnleased
<1> QED BY <1>2, <1>3, <1>4, <1>5, <1>6, <1>7, <1>8 DEF ManagerNext

\* The leased runtime is the one binding the core accepts.
LEMMA LeasedIsCurrent ==
  ASSUME HInv, BoundIsLive, NEW a \in Agents, lease[a] # NoBinding
  PROVE  /\ lease[a] \in Binding /\ a \in agents /\ generation[a] \in Nat \ {0}
         /\ lease[a].generation = generation[a] /\ lease[a].session = session[a]
         /\ Current(a, lease[a])
         /\ \A b \in Binding : Current(a, b) => b = lease[a]
<1>1. /\ lease[a] \in Binding /\ Current(a, lease[a]) /\ generation[a] \in Nat
  BY DEF HInv, HostTypeOK, TypeOK, AgentOK, AnyBinding
<1>2. ASSUME NEW b \in Binding, Current(a, b) PROVE b = lease[a]
  <2>1. b.generation = lease[a].generation /\ b.session = lease[a].session
    BY <1>1, <1>2 DEF Current, CurrentBinding
  <2>2. \A x, y \in Binding : x.generation = y.generation /\ x.session = y.session => x = y
    BY DEF Binding
  <2> QED BY <1>1, <2>1, <2>2
<1> QED BY <1>1, <1>2 DEF Current, CurrentBinding, Bound, BoundIsLive

\* A check with a limit no inbox exceeds returns all of it.
LEMMA OldestIsAll ==
  ASSUME NEW S \in SUBSET Seqs, NEW limit \in CheckLimits, MaxSeq <= limit
  PROVE  Oldest(S, limit) = S
<1>1. S \in SUBSET Nat /\ \A m \in S : 1 <= m /\ m <= MaxSeq
  BY DEF Seqs
<1>2. limit \in Nat /\ MaxSeq \in Nat
  BY CheckLimitsAssumption, MaxSeqAssumption
<1>3. ASSUME NEW n \in S PROVE Cardinality({m \in S : m < n}) < limit
  <2>1. n \in Nat /\ 1 <= n /\ n <= MaxSeq
    BY <1>1
  <2>2. n - 1 \in Nat /\ n - 1 < limit
    BY <1>2, <2>1
  <2>3. {m \in S : m < n} \in SUBSET (1..(n - 1))
    <3> SUFFICES ASSUME NEW m \in S, m < n PROVE m \in 1..(n - 1)
      OBVIOUS
    <3>1. m \in Nat /\ 1 <= m
      BY <1>1
    <3> QED BY <2>1, <3>1
  <2>4. IsFiniteSet(1..(n - 1)) /\ Cardinality(1..(n - 1)) = n - 1
    <3> DEFINE k == n - 1
    <3>1. 1 \in Int /\ k \in Int /\ (1 > k => k = 0) /\ k - 1 + 1 = k
      BY <2>1
    <3> HIDE DEF k
    <3>2. IsFiniteSet(1..k) /\ Cardinality(1..k) = IF 1 > k THEN 0 ELSE k - 1 + 1
      BY <3>1, FS_Interval, Zenon
    <3>3. IsFiniteSet(1..k) /\ Cardinality(1..k) = k
      BY <3>1, <3>2
    <3> QED BY <3>3 DEF k
  <2>5. IsFiniteSet({m \in S : m < n}) /\ Cardinality({m \in S : m < n}) <= n - 1
    <3> DEFINE T == {m \in S : m < n}
               R == 1..(n - 1)
    <3>1. T \in SUBSET R /\ IsFiniteSet(R) /\ Cardinality(R) = n - 1
      BY <2>3, <2>4
    <3> HIDE DEF T, R
    <3>2. IsFiniteSet(T) /\ Cardinality(T) <= Cardinality(R)
      BY <3>1, FS_Subset, Zenon
    <3>3. IsFiniteSet(T) /\ Cardinality(T) <= n - 1
      BY <3>1, <3>2
    <3> QED BY <3>3 DEF T
  <2>6. Cardinality({m \in S : m < n}) \in Nat
    BY <2>5, FS_CardinalityType
  <2> QED BY <1>2, <2>2, <2>5, <2>6
<1> QED BY <1>3 DEF Oldest

\* A check is served by taking the whole inbox of the leased runtime.
LEMMA CheckCustody ==
  ASSUME \A l \in CheckLimits : MaxSeq <= l, HInv, IInv, NEW a \in Agents, CheckCommit(a),
         ReceiptOK(a), CustodyOK(a)
  PROVE  CustodyOK(a)'
<1> DEFINE c == Head(calls[a])
           b == NewBatch(a, c.binding.generation, c.binding.session, c.arg)
<1>1. /\ calls \in [Agents -> Seq(Call)] /\ calls[a] \in Seq(Call) /\ calls[a] # <<>>
      /\ calls'[a] = Tail(calls[a]) /\ c.kind = "check" /\ c \in Call
      /\ tool \in [Agents -> Tool] /\ HostTypeOK /\ TypeOK /\ BoundIsLive
  BY HeadIsCall DEF HInv, HostTypeOK, IInv, CheckCommit, Commits
<1>2. UNCHANGED <<lease, receipts, notice, turn, asked, op>>
  BY DEF CheckCommit, runtimes
<1>3. /\ Unread(a)' = Unread(a)
      /\ \A n : Fresh(a, n)' <=> Fresh(a, n)
  BY DEF CheckCommit, CheckInbox, Unread, Fresh, vars, bindings, wakes, deliveries
<1>4. /\ Queued(calls'[a], "mark", lease[a]) => Queued(calls[a], "mark", lease[a])
      /\ Queued(calls[a], "rearm", lease[a]) => Queued(calls'[a], "rearm", lease[a])
      /\ OnlyLast(calls[a], "check") => OnlyLast(calls'[a], "check") /\ calls'[a] = <<>>
  <2>1. Queued(calls'[a], "mark", lease[a]) => Queued(calls[a], "mark", lease[a])
    BY <1>1, TailQueued
  <2>2. "check" # "rearm"
    OBVIOUS
  <2>3. Queued(calls[a], "rearm", lease[a]) => Queued(calls'[a], "rearm", lease[a])
    BY <1>1, <2>2, TailQueued
  <2>4. OnlyLast(calls[a], "check") => OnlyLast(calls'[a], "check") /\ calls'[a] = <<>>
    BY <1>1, TailKeeps
  <2> QED BY <2>1, <2>3, <2>4
<1>5. tool'[a].stage = "answered" /\ tool'[a].binding = tool[a].binding
  <2>1. \E x : tool' = [tool EXCEPT ![a] = [stage |-> "answered", binding |-> @.binding,
                                           batch |-> x]]
    BY Zenon DEF CheckCommit
  <2> QED BY <1>1, <2>1
<1>6. c.binding = tool[a].binding /\ tool[a].stage = "issued"
  BY <1>1, AwaitsTail DEF ReceiptOK
<1>7. \A kind : Queued(calls[a], kind, lease[a])' <=> Queued(calls'[a], kind, lease[a])
  BY <1>2 DEF Queued
<1>8. CASE turn[a] # "checking"
  <2>1. (AnswerArrived(a)' <=> FALSE) /\ (AnswerArrived(a) <=> FALSE)
        /\ (Asking(a)' <=> Asking(a))
    BY <1>2, <1>8 DEF AnswerArrived, Asking
  <2>2. \A n : Holds(a, n) => Holds(a, n)'
    BY <1>2, <2>1 DEF Holds
  <2>3. InCustody(a)'
    BY <1>2, <1>3, <1>4, <1>7, <2>1, <2>2 DEF CustodyOK, InCustody, Kept
  <2>4. MarkIsAsked(a)'
    BY <1>2, <1>4, <1>7, <2>1 DEF CustodyOK, MarkIsAsked
  <2> QED BY <1>2, <1>8, <2>3, <2>4
          DEF CustodyOK, CheckIsLast, CheckIsLeased, IdleUnleased
<1>9. CASE turn[a] = "checking"
  <2>1. AnswerArrived(a)' /\ turn'[a] # "idle"
    BY <1>2, <1>5, <1>9 DEF AnswerArrived
  <2>2. ASSUME lease[a] # NoBinding, NEW n \in Unread(a)
        PROVE  tool'[a].batch # NoBatch /\ n \in tool'[a].batch.items
    <3>1. c.binding = lease[a] /\ Current(a, c.binding) /\ a \in agents /\ c.binding \in Binding
      BY <1>1, <1>6, <1>9, <2>2, LeasedIsCurrent DEF CustodyOK, CheckIsLeased
    <3>2. c.arg \in CheckLimits /\ MaxSeq <= c.arg
      BY <1>1 DEF Call
    <3>3. Unseen(a) = Unread(a) /\ Unread(a) \subseteq Seqs
      BY <1>1, <3>1, UnseenIsUnread DEF Unread, TypeOK
    <3>4. b.items = Unread(a)
      BY <3>2, <3>3, OldestIsAll DEF NewBatch
    <3>5. \A m \in b.items : AccessGrant(a, msgTarget[m])
      BY <3>1, <3>4 DEF IInv, Readable, Unread
    <3>6. b \in Batch
      BY <1>1, <3>1, <3>3, <3>4 DEF NewBatch, Batch, Binding
    <3>7. tool'[a].batch = b
      <4>1. ~(~Current(a, c.binding) \/ b.items = {}
               \/ \E m \in b.items : ~AccessGrant(a, msgTarget[m]))
        BY <2>2, <3>1, <3>4, <3>5
      <4> HIDE DEF b
      <4>2. tool' = [tool EXCEPT ![a] = [stage |-> "answered", binding |-> @.binding,
                                         batch |-> b]]
        BY <4>1 DEF CheckCommit, b
      <4> QED BY <1>1, <4>2
    <3> HIDE DEF b
    <3> QED BY <2>2, <3>4, <3>6, <3>7, NoBatchAssumption
  <2>3. InCustody(a)'
    BY <1>2, <1>3, <2>1, <2>2 DEF InCustody, Kept, Holds
  <2>4. MarkIsAsked(a)'
    <3>1. ~notice[a] => ~Queued(calls'[a], "mark", lease[a])
      BY <1>4, <1>9 DEF CustodyOK, CheckIsLast, Queued
    <3> QED BY <1>2, <1>7, <3>1 DEF MarkIsAsked
  <2>5. CheckIsLast(a)'
    <3>1. OnlyLast(calls[a], "check")' <=> OnlyLast(calls'[a], "check")
      BY DEF OnlyLast
    <3> QED BY <1>2, <1>4, <3>1 DEF CustodyOK, CheckIsLast
  <2>6. CheckIsLeased(a)'
    BY <1>2, <1>5, <1>9 DEF CustodyOK, CheckIsLeased
  <2>7. IdleUnleased(a)'
    BY <1>2 DEF CustodyOK, IdleUnleased
  <2> QED BY <2>3, <2>4, <2>5, <2>6, <2>7 DEF CustodyOK
<1> QED BY <1>8, <1>9

\* Until then a turn keeps what it was told about, and its end re-arms the rest.
LEMMA TurnCustody ==
  ASSUME Faults = {}, \A l \in CheckLimits : MaxSeq <= l, HInv, IInv, NEW a \in Agents,
         TurnNext(a) \/ MarkCommit(a), ReceiptOK(a), CustodyOK(a)
  PROVE  CustodyOK(a)'
<1>1. /\ calls \in [Agents -> Seq(Call)] /\ calls[a] \in Seq(Call)
      /\ lease \in [Agents -> AnyBinding] /\ receipts \in [Agents -> SUBSET Batch]
      /\ notice \in [Agents -> BOOLEAN] /\ asked \in [Agents -> BOOLEAN]
      /\ turn \in [Agents -> {"idle", "confirming", "thinking", "checking", "answered"}]
      /\ tool \in [Agents -> Tool] /\ wakeGen \in [Agents -> 0..MaxGeneration]
      /\ seenGen \in [Agents -> [Seqs -> 0..MaxGeneration]]
      /\ HostTypeOK /\ TypeOK /\ BoundIsLive
  BY DEF HInv, HostTypeOK, TypeOK, IInv
<1> DEFINE LedgerSame == /\ Unread(a)' = Unread(a)
                         /\ \A n : Fresh(a, n)' <=> Fresh(a, n)
<1>2. UNCHANGED vars => LedgerSame
  BY DEF Unread, Fresh, vars, bindings, wakes, deliveries
<1>3. calls'[a] = calls[a] /\ lease' = lease =>
        \A kind : Queued(calls[a], kind, lease[a])' <=> Queued(calls[a], kind, lease[a])
  BY DEF Queued
<1> HIDE DEF LedgerSame
<1> USE DEF turns, wires, runtimes
<1>4. CASE BeginRequest(a)
  <2>1. /\ UNCHANGED <<lease, receipts, tool, calls, op>> /\ LedgerSame
        /\ turn[a] \in {"idle", "answered"} /\ turn'[a] = "confirming"
        /\ turn[a] = "idle" => notice[a]
    BY <1>1, <1>2, <1>4 DEF BeginRequest
  <2>2. ~AnswerArrived(a) /\ ~AnswerArrived(a)'
    BY <2>1 DEF AnswerArrived
  <2>3. asked'[a] = (asked[a] \/ notice[a])
    BY <1>1, <1>4, Zenon DEF BeginRequest
  <2>4. notice[a] \/ Asking(a) => Asking(a)'
    BY <2>2, <2>3 DEF Asking
  <2>5. \A n : Holds(a, n) => Holds(a, n)'
    BY <2>1, <2>2 DEF Holds
  <2>6. InCustody(a)'
    BY <1>3, <2>1, <2>4, <2>5 DEF LedgerSame, CustodyOK, InCustody, Kept
  <2>7. MarkIsAsked(a)'
    BY <1>3, <2>1, <2>4 DEF CustodyOK, MarkIsAsked
  <2>8. IdleUnleased(a)'
    BY <2>1 DEF CustodyOK, IdleUnleased
  <2> QED BY <2>1, <2>6, <2>7, <2>8 DEF CustodyOK, CheckIsLast, CheckIsLeased
<1>5. ASSUME NEW b \in confirming[a], Confirm(a, b) PROVE CustodyOK(a)'
  <2>1. UNCHANGED <<lease, op, notice, turn, asked, tool, calls>>
    BY <1>5 DEF Confirm
  <2>2. (AnswerArrived(a)' <=> AnswerArrived(a)) /\ (Asking(a)' <=> Asking(a))
    BY <2>1 DEF AnswerArrived, Asking
  <2>3. \A n : Fresh(a, n)' <=> Fresh(a, n)
    BY <1>5 DEF Confirm, MarkModelSeen, vars, bindings, wakes, deliveries, Fresh
  <2>4. ASSUME NEW n \in Unread(a)' PROVE n \in Unread(a) /\ (Holds(a, n) => Holds(a, n)')
    <3>1. CASE CurrentBinding(a, b.generation, b.session) /\ b \in batches
      <4>1. /\ b.generation # 0 /\ delivered' = delivered
            /\ seenGen'[a] = [m \in Seqs |-> IF m \in b.items /\ seenGen[a][m] = 0
                                             THEN b.generation ELSE seenGen[a][m]]
            /\ receipts'[a] = receipts[a] \ {b}
        BY <1>1, <1>5, <3>1 DEF Confirm, MarkModelSeen, CurrentBinding, Bound
      <4>2. n \in Seqs /\ n \in delivered[a] /\ seenGen'[a][n] = 0
        BY <1>1, <4>1 DEF Unread, TypeOK
      <4>3. seenGen[a][n] = 0 /\ n \notin b.items
        BY <4>1, <4>2
      <4>4. \A x \in receipts[a] : n \in x.items => x \in receipts'[a]
        BY <4>1, <4>3
      <4> QED BY <2>1, <2>2, <4>2, <4>3, <4>4 DEF Unread, Holds
    <3>2. CASE ~(CurrentBinding(a, b.generation, b.session) /\ b \in batches)
      <4>1. UNCHANGED <<vars, receipts>>
        BY <1>5, <3>2 DEF Confirm
      <4> QED BY <1>2, <2>1, <2>2, <4>1 DEF LedgerSame, Holds
    <3> QED BY <3>1, <3>2
  <2>5. InCustody(a)'
    BY <1>3, <2>1, <2>2, <2>3, <2>4 DEF CustodyOK, InCustody, Kept
  <2>6. MarkIsAsked(a)'
    BY <1>3, <2>1, <2>2 DEF CustodyOK, MarkIsAsked
  <2>7. CheckIsLast(a)' /\ CheckIsLeased(a)' /\ IdleUnleased(a)'
    BY <2>1 DEF CustodyOK, CheckIsLast, CheckIsLeased, IdleUnleased, OnlyLast
  <2> QED BY <2>5, <2>6, <2>7 DEF CustodyOK
<1>6. CASE RequestSent(a)
  <2>1. /\ UNCHANGED <<lease, receipts, notice, asked, tool, calls, op>> /\ LedgerSame
        /\ turn[a] = "confirming" /\ turn'[a] = "thinking"
    BY <1>1, <1>2, <1>6 DEF RequestSent
  <2>2. ~AnswerArrived(a) /\ ~AnswerArrived(a)' /\ (Asking(a)' <=> Asking(a))
    BY <2>1 DEF AnswerArrived, Asking
  <2>3. \A n : Holds(a, n) => Holds(a, n)'
    BY <2>1, <2>2 DEF Holds
  <2>4. InCustody(a)'
    BY <1>3, <2>1, <2>2, <2>3 DEF LedgerSame, CustodyOK, InCustody, Kept
  <2>5. MarkIsAsked(a)'
    BY <1>3, <2>1, <2>2 DEF CustodyOK, MarkIsAsked
  <2> QED BY <2>1, <2>4, <2>5 DEF CustodyOK, CheckIsLast, CheckIsLeased, IdleUnleased
<1>7. ASSUME NEW limit \in CheckLimits, CallCheck(a, limit) PROVE CustodyOK(a)'
  <2>1. /\ UNCHANGED <<lease, receipts, notice, op>> /\ LedgerSame
        /\ turn[a] = "thinking" /\ asked[a] /\ tool[a] = NoTool
    BY <1>2, <1>7 DEF CallCheck
  <2>2. CASE lease[a] # NoBinding /\ lease[a] = Durable(a)
    <3> DEFINE e == [kind |-> "check", binding |-> lease[a], arg |-> limit]
    <3>1. /\ turn'[a] = "checking" /\ asked' = asked
          /\ tool'[a].stage = "issued" /\ tool'[a].binding = lease[a]
          /\ calls'[a] = Append(calls[a], e) /\ e.kind = "check"
      BY <1>1, <1>7, <2>2 DEF CallCheck, Issued
    <3> HIDE DEF e
    <3>2. Asking(a)'
      BY <2>1, <3>1 DEF Asking, AnswerArrived
    <3>3. Without(calls[a], "check")
      BY <2>1, AwaitsNothing DEF ReceiptOK, NoTool
    <3>4. OnlyLast(calls'[a], "check")
      BY <1>1, <3>1, <3>3, AppendKeeps
    <3>5. InCustody(a)' /\ MarkIsAsked(a)'
      BY <3>2 DEF InCustody, Kept, MarkIsAsked
    <3>6. CheckIsLast(a)'
      BY <3>4 DEF CheckIsLast, OnlyLast
    <3>7. CheckIsLeased(a)' /\ IdleUnleased(a)'
      BY <2>1, <2>2, <3>1 DEF CheckIsLeased, IdleUnleased
    <3> QED BY <3>5, <3>6, <3>7 DEF CustodyOK
  <2>3. CASE ~(lease[a] # NoBinding /\ lease[a] = Durable(a))
    <3>1. lease[a] = NoBinding
      <4> SUFFICES ASSUME lease[a] # NoBinding PROVE lease[a] = Durable(a)
        BY <2>3
      <4> QED BY <1>1, LeasedIsCurrent DEF Binding, Durable
    <3>2. turn'[a] = "answered"
      BY <1>1, <1>7, <2>3 DEF CallCheck
    <3> QED BY <2>1, <3>1, <3>2 DEF CustodyOK, InCustody, MarkIsAsked, CheckIsLast, CheckIsLeased,
                                    IdleUnleased
  <2> QED BY <2>2, <2>3
<1>8. CASE CheckRecord(a)
  <2>1. UNCHANGED <<lease, notice, calls, op>> /\ LedgerSame /\ tool[a].stage = "answered"
        /\ tool'[a].stage = "none" /\ receipts[a] \subseteq receipts'[a]
    BY <1>1, <1>2, <1>8 DEF CheckRecord, NoTool
  <2>2. ~AnswerArrived(a)'
    BY <2>1 DEF AnswerArrived
  <2>3. CASE turn[a] = "checking"
    <3>1. turn'[a] = "answered" /\ AnswerArrived(a) /\ ~Asking(a)
      BY <1>1, <1>8, <2>1, <2>3 DEF CheckRecord, AnswerArrived, Asking
    <3>2. ASSUME lease[a] # NoBinding, tool[a].batch # NoBatch
          PROVE  tool[a].batch \in receipts'[a]
      BY <1>1, <1>8, <2>3, <3>2 DEF CheckRecord, CustodyOK, CheckIsLeased
    <3>3. lease[a] # NoBinding => \A n : Holds(a, n) => Holds(a, n)'
      BY <2>1, <3>1, <3>2 DEF Holds
    <3>4. InCustody(a)'
      BY <1>3, <2>1, <3>1, <3>3 DEF LedgerSame, CustodyOK, InCustody, Kept
    <3>5. MarkIsAsked(a)'
      BY <1>3, <2>1, <3>1 DEF CustodyOK, MarkIsAsked
    <3>6. IdleUnleased(a)'
      BY <2>1, <2>3 DEF CustodyOK, IdleUnleased
    <3> QED BY <3>1, <3>4, <3>5, <3>6 DEF CustodyOK, CheckIsLast, CheckIsLeased
  <2>4. CASE turn[a] # "checking"
    <3>1. UNCHANGED <<turn, asked>> /\ ~AnswerArrived(a)
      BY <1>8, <2>4 DEF CheckRecord, AnswerArrived
    <3>2. (Asking(a)' <=> Asking(a)) /\ \A n : Holds(a, n) => Holds(a, n)'
      BY <2>1, <2>2, <3>1 DEF Asking, Holds
    <3>3. InCustody(a)'
      BY <1>3, <2>1, <3>2 DEF LedgerSame, CustodyOK, InCustody, Kept
    <3>4. MarkIsAsked(a)'
      BY <1>3, <2>1, <3>2 DEF CustodyOK, MarkIsAsked
    <3> QED BY <2>1, <2>4, <3>1, <3>3, <3>4
            DEF CustodyOK, CheckIsLast, CheckIsLeased, IdleUnleased
  <2> QED BY <2>3, <2>4
<1>9. CASE FinishTurn(a)
  <2>1. /\ UNCHANGED <<lease, receipts, notice, tool, op>> /\ LedgerSame
        /\ turn[a] \in {"confirming", "thinking", "answered"} /\ turn'[a] = "idle" /\ ~asked[a]
    BY <1>1, <1>2, <1>9 DEF FinishTurn
  <2>2. ~AnswerArrived(a) /\ ~Asking(a)
    BY <2>1 DEF AnswerArrived, Asking
  <2> DEFINE e == [kind |-> "rearm", binding |-> lease[a], arg |-> 0]
  <2>3. \/ calls'[a] = calls[a] /\ ~(lease[a] # NoBinding /\ receipts[a] # {})
        \/ calls'[a] = Append(calls[a], e)
    BY <1>1, <1>9 DEF FinishTurn, Issued
  <2>4. e.kind = "rearm" /\ e.binding = lease[a]
    OBVIOUS
  <2> HIDE DEF e
  <2>5. /\ Queued(calls[a], "rearm", lease[a]) => Queued(calls'[a], "rearm", lease[a])
        /\ Queued(calls'[a], "mark", lease[a]) => Queued(calls[a], "mark", lease[a])
        /\ lease[a] # NoBinding /\ receipts[a] # {} => Queued(calls'[a], "rearm", lease[a])
    <3>1. Queued(calls[a], "rearm", lease[a]) => Queued(Append(calls[a], e), "rearm", lease[a])
      BY <1>1, AppendQueued
    <3>2. Queued(Append(calls[a], e), "rearm", lease[a])
      BY <1>1, <2>4, AppendQueued
    <3>3. Queued(Append(calls[a], e), "mark", lease[a]) => Queued(calls[a], "mark", lease[a])
      BY <1>1, <2>4, AppendQueued
    <3> QED BY <2>3, <3>1, <3>2, <3>3
  <2>6. \A kind : Queued(calls[a], kind, lease[a])' <=> Queued(calls'[a], kind, lease[a])
    BY <2>1 DEF Queued
  <2>7. \A n : Holds(a, n) => receipts[a] # {}
    BY <2>2 DEF Holds
  <2>8. InCustody(a)'
    BY <2>1, <2>2, <2>5, <2>6, <2>7 DEF LedgerSame, CustodyOK, InCustody, Kept
  <2>9. MarkIsAsked(a)'
    BY <2>1, <2>2, <2>5, <2>6 DEF CustodyOK, MarkIsAsked
  <2>10. IdleUnleased(a)'
    BY <2>1 DEF CustodyOK, IdleUnleased
  <2> QED BY <2>1, <2>8, <2>9, <2>10 DEF CustodyOK, CheckIsLast, CheckIsLeased
<1>10. CASE RearmCommit(a)
  <2> DEFINE h == Head(calls[a])
  <2>1. /\ UNCHANGED <<lease, receipts, notice, turn, asked, tool, op>>
        /\ calls[a] # <<>> /\ calls'[a] = Tail(calls[a]) /\ h.kind = "rearm"
    BY <1>1, <1>10 DEF RearmCommit, Commits
  <2>2. /\ Queued(calls'[a], "mark", lease[a]) => Queued(calls[a], "mark", lease[a])
        /\ OnlyLast(calls[a], "check") => OnlyLast(calls'[a], "check")
        /\ h.binding # lease[a] => (Queued(calls[a], "rearm", lease[a])
                                      => Queued(calls'[a], "rearm", lease[a]))
    <3>1. Queued(calls'[a], "mark", lease[a]) => Queued(calls[a], "mark", lease[a])
      BY <1>1, <2>1, TailQueued
    <3>2. OnlyLast(calls[a], "check") => OnlyLast(calls'[a], "check")
      BY <1>1, <2>1, TailKeeps
    <3>3. h.binding # lease[a] /\ Queued(calls[a], "rearm", lease[a])
            => Queued(calls'[a], "rearm", lease[a])
      BY <1>1, <2>1, TailQueued
    <3> QED BY <3>1, <3>2, <3>3
  <2>3. CASE Current(a, h.binding)
    <3>1. /\ delivered' = delivered /\ seenGen' = seenGen /\ generation' = generation
          /\ wakeGen'[a] = 0 /\ generation[a] # 0
      BY <1>1, <1>10, <2>3 DEF RearmCommit, Rearm, bindings, deliveries, CurrentBinding, Bound
    <3>2. \A n : Fresh(a, n)'
      BY <3>1 DEF Fresh
    <3> QED BY <2>1, <2>2, <3>2, CustodyStays
  <2>4. CASE ~Current(a, h.binding)
    <3>1. UNCHANGED vars
      BY <1>10, <2>4 DEF RearmCommit
    <3>2. lease[a] # NoBinding => h.binding # lease[a]
      BY <1>1, <2>4, LeasedIsCurrent
    <3> QED BY <1>2, <2>1, <2>2, <3>1, <3>2, CustodyStays DEF LedgerSame
  <2> QED BY <2>3, <2>4
<1>11. CASE MarkCommit(a)
  <2> DEFINE h == Head(calls[a])
  <2>1. /\ UNCHANGED <<lease, receipts, notice, turn, asked, tool, op>>
        /\ calls[a] # <<>> /\ calls'[a] = Tail(calls[a]) /\ h.kind = "mark"
        /\ h.binding \in Binding
    BY <1>1, <1>11, HeadIsCall DEF MarkCommit, Commits, Call
  <2>2. /\ Queued(calls'[a], "mark", lease[a]) => Queued(calls[a], "mark", lease[a])
        /\ OnlyLast(calls[a], "check") => OnlyLast(calls'[a], "check")
        /\ Queued(calls[a], "rearm", lease[a]) => Queued(calls'[a], "rearm", lease[a])
    <3>1. Queued(calls'[a], "mark", lease[a]) => Queued(calls[a], "mark", lease[a])
      BY <1>1, <2>1, TailQueued
    <3>2. OnlyLast(calls[a], "check") => OnlyLast(calls'[a], "check")
      BY <1>1, <2>1, TailKeeps
    <3>3. "mark" # "rearm"
      OBVIOUS
    <3>4. Queued(calls[a], "rearm", lease[a]) => Queued(calls'[a], "rearm", lease[a])
      BY <1>1, <2>1, <3>3, TailQueued
    <3> QED BY <3>1, <3>2, <3>4
  <2>3. CASE UNCHANGED vars
    BY <1>2, <2>1, <2>2, <2>3, CustodyStays DEF LedgerSame
  <2>4. CASE ~UNCHANGED vars
    <3>1. Current(a, h.binding)
      BY <1>11, <2>4 DEF MarkCommit
    <3>2. lease[a] # NoBinding => Queued(calls[a], "mark", lease[a])
      <4>1. 1 \in DOMAIN calls[a] /\ calls[a][1] = h
        BY <1>1, <2>1
      <4>2. lease[a] # NoBinding => h.binding = lease[a]
        BY <1>1, <2>1, <3>1, LeasedIsCurrent
      <4> QED BY <2>1, <4>1, <4>2 DEF Queued
    <3>3. lease[a] # NoBinding => notice[a] \/ Asking(a)
      BY <3>2 DEF CustodyOK, MarkIsAsked
    <3> QED BY <2>1, <2>2, <3>3, CustodyStays
  <2> QED BY <2>3, <2>4
<1> QED BY <1>4, <1>5, <1>6, <1>7, <1>8, <1>9, <1>10, <1>11, CheckCustody DEF TurnNext

\* A scan marks what it put in front of the model, a restart leases nothing, and
\* a Message or a new membership is reported by the next scan.
LEMMA OtherCustody ==
  ASSUME HInv, BoundIsLive, NEW x \in Agents, CustodyOK(x), MarksAreOld(x),
         ScanRead \/ ScanDeliver \/ Crash \/ (ChannelNext /\ UNCHANGED hostVars)
  PROVE  CustodyOK(x)'
<1>1. /\ calls[x] \in Seq(Call) /\ (scan = NoScan \/ scan \subseteq Wake)
      /\ HostTypeOK /\ TypeOK
  BY DEF HInv, HostTypeOK
<1>2. UNCHANGED vars => Unread(x)' = Unread(x) /\ \A n : Fresh(x, n)' <=> Fresh(x, n)
  BY DEF Unread, Fresh, vars, bindings, wakes, deliveries
<1>3. CASE ScanRead
  <2>1. UNCHANGED <<vars, lease, op, receipts, notice, turn, asked, tool, calls>>
    BY <1>3 DEF ScanRead, runtimes, turns
  <2> QED BY <1>2, <2>1, CustodyStays
<1>4. CASE ScanDeliver
  <2>1. UNCHANGED <<vars, lease, op, receipts, turn, asked, tool>>
    BY <1>4 DEF ScanDeliver, runtimes
  <2>2. CASE \E w \in Delivered : w.agent = x
    <3>1. notice'[x]
      BY <1>4, <2>2 DEF ScanDeliver
    <3>2. lease[x] # NoBinding
      <4>1. PICK w \in Delivered : w.agent = x
        BY <2>2
      <4>2. lease[x] = w.binding /\ w.binding \in Binding
        BY <1>1, <1>4, <4>1 DEF ScanDeliver, Delivered, Wake
      <4> QED BY <4>2, NoBindingAssumption DEF Binding
    <3> QED BY <2>1, <3>1, <3>2 DEF CustodyOK, InCustody, Kept, MarkIsAsked, CheckIsLast,
                                    CheckIsLeased, IdleUnleased
  <2>3. CASE ~\E w \in Delivered : w.agent = x
    <3>1. calls'[x] = calls[x]
      BY <1>4, <2>3 DEF ScanDeliver
    <3>2. notice'[x] = notice[x]
      <4>1. notice[x] \in BOOLEAN /\ notice'[x] = (notice[x] \/ \E w \in Delivered : w.agent = x)
        BY <1>1, <1>4 DEF ScanDeliver, HostTypeOK
      <4> QED BY <2>3, <4>1
    <3> QED BY <1>2, <2>1, <3>1, <3>2, CustodyStays
  <2> QED BY <2>2, <2>3
<1>5. CASE Crash
  <2>1. lease'[x] = NoBinding /\ turn'[x] = "idle" /\ ~notice'[x]
    BY <1>5 DEF Crash, Started
  <2> QED BY <2>1, UnleasedStays
<1>6. CASE ChannelNext /\ UNCHANGED hostVars
  <2>1. UNCHANGED <<lease, op, receipts, notice, turn, asked, tool, calls>>
    BY <1>6 DEF hostVars, runtimes, turns, wires
  <2>2. ASSUME lease[x] # NoBinding, NEW n \in Unread(x)'
        PROVE  Fresh(x, n)' \/ (n \in Unread(x) /\ (Fresh(x, n) => Fresh(x, n)'))
    <3>1. ASSUME NEW c \in Channels,
                 ArchiveChannel(c) \/ RestoreChannel(c) \/ DeleteChannel(c)
          PROVE  n \in Unread(x) /\ (Fresh(x, n) => Fresh(x, n)')
      <4>1. UNCHANGED <<bindings, deliveries, wakes>>
        BY <3>1 DEF ArchiveChannel, RestoreChannel, DeleteChannel
      <4> QED BY <2>2, <4>1 DEF Unread, Fresh, bindings, deliveries, wakes
    <3>2. ASSUME NEW c \in Channels, NEW a \in Agents, AddMember(c, a)
          PROVE  Fresh(x, n)' \/ (n \in Unread(x) /\ (Fresh(x, n) => Fresh(x, n)'))
      <4>1. UNCHANGED <<generation, notifiedSeq, delivered, seenGen, notifiedGen>>
        BY <3>2 DEF AddMember, bindings, deliveries
      <4>2. wakeGen'[x] = IF x = a THEN 0 ELSE wakeGen[x]
        BY <1>1, <3>2 DEF AddMember, TypeOK
      <4>3. generation[x] # 0
        BY <2>2, LeasedIsCurrent
      <4> QED BY <2>2, <4>1, <4>2, <4>3 DEF Unread, Fresh
    <3>3. ASSUME NEW c \in Channels, NEW author \in Agents \cup {User}, SendMessage(c, author)
          PROVE  Fresh(x, n)' \/ (n \in Unread(x) /\ (Fresh(x, n) => Fresh(x, n)'))
      <4>1. UNCHANGED <<generation, notifiedSeq, wakeGen, seenGen, notifiedGen>>
        BY <3>3 DEF SendMessage, bindings
      <4>2. delivered'[x] \subseteq delivered[x] \cup {lastSeq + 1}
        BY <3>3 DEF SendMessage
      <4>3. lastSeq + 1 > notifiedSeq[x]
        BY <1>1 DEF MarksAreOld, TypeOK
      <4> QED BY <2>2, <4>1, <4>2, <4>3 DEF Unread, Fresh
    <3> QED BY <1>6, <3>1, <3>2, <3>3 DEF ChannelNext
  <2> QED BY <2>1, <2>2, CustodyStays
<1> QED BY <1>3, <1>4, <1>5, <1>6

\* Custody is never broken.
LEMMA StepCustody ==
  ASSUME Faults = {}, \A l \in CheckLimits : MaxSeq <= l, HInv, IInv, [HostNext]_allVars,
         \A a \in Agents : ReceiptOK(a) /\ MarksAreOld(a) /\ QueueOK(a) /\ CustodyOK(a)
  PROVE  \A a \in Agents : CustodyOK(a)'
<1> SUFFICES ASSUME NEW x \in Agents PROVE CustodyOK(x)'
  OBVIOUS
<1>1. HostTypeOK /\ TypeOK /\ BoundIsLive
      /\ ReceiptOK(x) /\ MarksAreOld(x) /\ QueueOK(x) /\ CustodyOK(x)
  BY DEF HInv, IInv
<1>2. ASSUME NEW a \in Agents, ManagerNext(a) \/ TurnNext(a) \/ MarkCommit(a)
      PROVE  CustodyOK(x)'
  <2>1. CASE x = a
    BY <1>1, <1>2, <2>1, ManagerCustody, TurnCustody
  <2>2. CASE x # a
    <3>1. HostStill(x)
      BY <1>1, <1>2, <2>2, ManagerElsewhere, TurnElsewhere
    <3>2. LedgerStill(x)
      BY <1>1, <1>2, <2>2, HostMakesLedgerCall, LedgerElsewhere
    <3> QED BY <1>1, <3>1, <3>2, CustodyElsewhere
  <2> QED BY <2>1, <2>2
<1>3. CASE UNCHANGED allVars
  <2>1. HostStill(x) /\ LedgerStill(x)
    BY <1>3 DEF allVars, hostVars, runtimes, turns, wires, HostStill, LedgerStill, vars, bindings,
                messages, deliveries, wakes
  <2> QED BY <1>1, <2>1, CustodyElsewhere
<1> QED BY <1>1, <1>2, <1>3, OtherCustody DEF HostNext

\* Of some Messages one is the newest.
LEMMA NewestExists ==
  ASSUME NEW S \in SUBSET Seqs, S # {}
  PROVE  \E p \in S : \A n \in S : n <= p
<1> DEFINE D == {MaxSeq - n : n \in S}
<1>1. MaxSeq \in Nat /\ \A n \in S : n \in Nat /\ n <= MaxSeq
  BY MaxSeqAssumption DEF Seqs
<1>2. D \subseteq Nat /\ D # {}
  BY <1>1
<1>3. PICK d \in D : \A y \in D : <<y, d>> \notin OpToRel(<, Nat)
  <2> HIDE DEF D
  <2> QED BY <1>2, WFMin, NatLessThanWellFounded, Zenon
<1>4. ASSUME NEW y \in D PROVE ~(y < d)
  <2>1. <<y, d>> \in Nat \X Nat /\ <<y, d>>[1] = y /\ <<y, d>>[2] = d
    BY <1>2
  <2>2. <<y, d>> \notin OpToRel(<, Nat)
    BY <1>3, Zenon
  <2> HIDE DEF D
  <2> QED BY <2>1, <2>2, Zenon DEF OpToRel
<1>5. \A y \in D : ~(y < d)
  BY <1>4
<1>6. PICK p \in S : d = MaxSeq - p
  OBVIOUS
<1>7. \A n \in S : ~(MaxSeq - n < MaxSeq - p)
  BY <1>5, <1>6
<1> QED BY <1>1, <1>7

\* The scan reports the Agent of a Delivery that is fresh and unseen.
LEMMA FreshIsDue ==
  ASSUME IInv, NEW a \in Agents, Bound(a), NEW n \in Unseen(a), Fresh(a, n)
  PROVE  Due(a)
<1>1. TypeOK /\ a \in agents /\ Watermark
  BY DEF IInv, BoundIsLive
<1>2. /\ n \in delivered[a] /\ seenGen[a][n] = 0 /\ Unseen(a) \subseteq Seqs
      /\ n \in Nat /\ n >= 1 /\ pendingSeq[a] \in Nat /\ notifiedSeq[a] \in Nat
      /\ pendingSeq[a] # 0
  <2>1. n \in delivered[a] /\ seenGen[a][n] = 0 /\ Unseen(a) \subseteq delivered[a]
    BY DEF Unseen
  <2>2. /\ delivered[a] \subseteq Seqs /\ pendingSeq[a] \in Nat /\ notifiedSeq[a] \in Nat
    BY <1>1 DEF TypeOK
  <2>3. n \in Nat /\ n >= 1
    BY <2>1, <2>2 DEF Seqs
  <2>4. n <= pendingSeq[a]
    BY <1>1, <2>1 DEF Watermark, WatermarkCoversUnseen
  <2> QED BY <2>1, <2>2, <2>3, <2>4
<1>3. PICK p \in Unseen(a) : \A m \in Unseen(a) : m <= p
  BY <1>2, NewestExists
<1>4. IsPendingSeq(a, p) /\ p \in Seqs /\ n <= p /\ p \in Nat
  BY <1>2, <1>3 DEF IsPendingSeq, Seqs
<1>5. n > notifiedSeq[a] => p > notifiedSeq[a]
  BY <1>2, <1>4
<1> QED BY <1>2, <1>4, <1>5 DEF Due, Fresh

\* While no disposal fails, no turn is aborted with its notice unanswered and a
\* check may ask for as much as there is, the work of a leased Agent is always in
\* somebody's hands: whatever operations, resets, restarts, deletions, late
\* answers and new Messages come together, no wake is lost.
THEOREM NoWakeEverLost ==
  ASSUME Faults = {}, \A l \in CheckLimits : MaxSeq <= l
  PROVE  HostSpec => []NoLostWake
<1> DEFINE KInv == HInv /\ \A a \in Agents : ReceiptOK(a) /\ MarksAreOld(a) /\ QueueOK(a)
                                             /\ CustodyOK(a)
<1>1. HostInit => KInv
  <2> SUFFICES ASSUME HostInit, NEW a \in Agents
               PROVE  ReceiptOK(a) /\ MarksAreOld(a) /\ QueueOK(a) /\ CustodyOK(a)
    BY InitHInv
  <2>1. ReceiptOK(a)
    BY DEF HostInit, ReceiptOK, ReceiptsFenced, AnswerFenced, Awaits, NoTool
  <2>2. MarksAreOld(a)
    BY DEF HostInit, Init, MarksAreOld
  <2>3. QueueOK(a)
    BY FreeIsOp DEF HostInit, Init, QueueOK, UpTo, OnlyLast, Without
  <2>4. CustodyOK(a)
    BY DEF HostInit, CustodyOK, InCustody, MarkIsAsked, CheckIsLast, CheckIsLeased, IdleUnleased
  <2> QED BY <2>1, <2>2, <2>3, <2>4
<1>2. KInv /\ IInv /\ [HostNext]_allVars => KInv'
  <2> SUFFICES ASSUME KInv, IInv, [HostNext]_allVars PROVE KInv'
    OBVIOUS
  <2>1. HInv' /\ [Next]_vars /\ TypeOK /\ BoundIsLive
    BY StepHInv, StepLedger DEF HInv, IInv
  <2>2. \A a \in Agents : ReceiptOK(a)'
    BY <2>1, StepReceipts
  <2>3. \A a \in Agents : MarksAreOld(a)'
    BY <2>1, StepMarksAreOld
  <2>4. \A a \in Agents : QueueOK(a)'
    BY <2>1, StepQueue
  <2>5. \A a \in Agents : CustodyOK(a)'
    BY StepCustody
  <2> QED BY <2>1, <2>2, <2>3, <2>4, <2>5
<1>3. KInv /\ IInv => NoLostWake
  <2> SUFFICES ASSUME KInv, IInv, NEW a \in Agents, lease[a] # NoBinding, Unseen(a) # {}
               PROVE  \/ Due(a) \/ notice[a] \/ asked[a]
                      \/ \E i \in DOMAIN calls[a] : calls[a][i].kind = "rearm"
                      \/ turn[a] # "idle" /\ (tool[a] # NoTool \/ receipts[a] # {})
    BY DEF NoLostWake
  <2>1. PICK n \in Unseen(a) : TRUE
    OBVIOUS
  <2>2. Kept(a, n)
    <3>1. n \in Unread(a)
      BY DEF Unseen, Unread
    <3> QED BY <3>1 DEF CustodyOK, InCustody
  <2>3. CASE Fresh(a, n)
    <3>1. Bound(a)
      BY LeasedIsCurrent DEF IInv, Bound
    <3> QED BY <2>3, <3>1, FreshIsDue
  <2>4. CASE notice[a] \/ Asking(a) \/ Queued(calls[a], "rearm", lease[a])
    BY <2>4 DEF Asking, Queued
  <2>5. CASE Holds(a, n)
    BY <2>5 DEF Holds, AnswerArrived, NoTool
  <2> QED BY <2>2, <2>3, <2>4, <2>5 DEF Kept
<1>4. HostSpec => []IInv
  BY HostImplementsLedger, Inductive
<1> QED BY <1>1, <1>2, <1>3, <1>4, PTL DEF HostSpec
=============================================================================
