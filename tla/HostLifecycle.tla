---------------------------- MODULE HostLifecycle ----------------------------
(***************************************************************************)
(* The life of the host half: CollabService's start and cleanup            *)
(* (index.ts), the operations RuntimeManager serialises under the lock of  *)
(* an Agent and its close (runtime.ts), the kick loop of DeliveryBridge    *)
(* (delivery.ts) and the identity shown to a live Agent's prompt.          *)
(*                                                                         *)
(* The host is one event loop: code between two awaits is one step, and    *)
(* every await is a place where the other actors run.  WakeDelivery has    *)
(* what the scans deliver and what the Sessions do; here a scan is only    *)
(* its read, and a Session a numbered handle that lives until dispose().   *)
(*                                                                         *)
(* External, assumed of the framework: it runs the cleanup of the service  *)
(* once, after its init returned or threw.                                 *)
(***************************************************************************)
EXTENDS Integers, Sequences, FiniteSets

CONSTANTS
  Agents,
  MaxJobs,    \* bound: operations the service asks of the manager, per Agent
  MaxSends,   \* bound: messages sent
  MaxEdits,   \* bound: Profile edits of an Agent
  Faults      \* TRUE: dispose(), registry and core calls may reject

ASSUME BoundsAssumption == MaxJobs \in Nat /\ MaxSends \in Nat /\ MaxEdits \in Nat
ASSUME FaultsAssumption == Faults \in BOOLEAN

VARIABLES
  phase,      \* how far init is
  down,       \* how far the cleanup is
  core,       \* the native handle
  pruning,    \* a retention run has its core call in flight
  bridge,     \* DeliveryBridge: on, requested, where its one drain is, missed
  unlisted,   \* a message is committed that no scan has read yet
  sent,       \* sendMessage calls: those issued, those not answered
  queue,      \* withAgentLock: the holder and those waiting, per Agent
  stage,      \* the await the holder is at
  cur,        \* the binding generation the holder read
  read,       \* the Profile version the holder read
  asked,      \* operations asked for so far
  ahead,      \* the operations close() still awaits
  lease,      \* active: the published handle, 0 when none
  live,       \* handles the registry opened and dispose() did not end
  broken,     \* handles whose dispose() threw
  opened,     \* the handle the holder opened and has not published, 0 when none
  binding,    \* the durable binding's generation, 0 when none
  profile,    \* the durable Profile's version
  shown,      \* identities: the version in the live prompt, 0 when none
  edits       \* Profile edits committed and not answered

starts == <<phase, down, core, pruning>>
delivering == <<bridge, unlisted, sent>>
jobs == <<queue, stage, cur, read, asked, ahead>>
handles == <<lease, live, broken, opened, binding>>
identities == <<profile, shown, edits>>
vars == <<starts, delivering, jobs, handles, identities>>

Generations == Nat
Handles == 1..(2 * MaxJobs + 2)
Kinds == {"create", "reset", "resume", "restore", "stop", "recover"}
Job == [kind : Kinds, expects : Generations]
Stages == {"start", "fence", "prepare", "dispose", "open", "bind", "check", "abort"}

LifeTypeOK ==
  /\ phase \in {"pruning", "preparing", "restoring", "serving", "failed"}
  /\ down \in {"up", "retention", "delivery", "locks", "leases", "handle", "done"}
  /\ core \in {"open", "closed"} /\ pruning \in BOOLEAN
  /\ bridge \in [on : BOOLEAN, requested : BOOLEAN, missed : BOOLEAN,
                 drain : {"idle", "listing", "delivering", "ended"}]
  /\ unlisted \in BOOLEAN
  /\ sent \in [issued : Nat, open : Nat]
  /\ queue \in [Agents -> Seq(Job)] /\ stage \in [Agents -> Stages]
  /\ cur \in [Agents -> Generations] /\ read \in [Agents -> Nat]
  /\ asked \in [Agents -> 0..MaxJobs] /\ ahead \in [Agents -> Nat]
  /\ lease \in [Agents -> Handles \cup {0}] /\ opened \in [Agents -> Handles \cup {0}]
  /\ live \in [Agents -> SUBSET Handles] /\ broken \in [Agents -> SUBSET Handles]
  /\ binding \in [Agents -> Generations]
  /\ profile \in [Agents -> Nat] /\ shown \in [Agents -> Nat]
  /\ edits \in [Agents -> SUBSET Nat]

\* CollabService.handle, runtimes and delivery are fields the cleanup unsets in
\* turn; closing is RuntimeManager's.
Served == down \notin {"handle", "done"}
Managed == phase \in {"preparing", "restoring", "serving", "failed"}
           /\ down \in {"up", "retention", "delivery"}
Bridged == phase = "serving" /\ down \in {"up", "retention"}
Closing == down \in {"locks", "leases", "handle", "done"}
Online == phase \in {"restoring", "serving"} /\ Served

-----------------------------------------------------------------------------
LifeInit ==
  /\ phase = "pruning" /\ down = "up" /\ core = "open" /\ pruning = FALSE
  /\ bridge = [on |-> FALSE, requested |-> FALSE, missed |-> FALSE, drain |-> "idle"]
  /\ unlisted \in BOOLEAN
  /\ sent = [issued |-> 0, open |-> 0]
  /\ queue = [a \in Agents |-> <<>>] /\ stage = [a \in Agents |-> "start"]
  /\ cur = [a \in Agents |-> 0] /\ read = [a \in Agents |-> 0]
  /\ asked = [a \in Agents |-> 0] /\ ahead = [a \in Agents |-> 0]
  /\ lease = [a \in Agents |-> 0] /\ opened = [a \in Agents |-> 0]
  /\ live = [a \in Agents |-> {}] /\ broken = [a \in Agents |-> {}]
  /\ binding \in [Agents -> {0, 1}]
  /\ profile = [a \in Agents |-> 1] /\ shown = [a \in Agents |-> 0]
  /\ edits = [a \in Agents |-> {}]

\* The first prune, then the retention timer and the manager.
Pruned ==
  /\ phase = "pruning"
  /\ phase' = "preparing"
  /\ UNCHANGED <<down, core, pruning, delivering, jobs, handles, identities>>

\* The Web user is ensured, the RPC surface installed and restore() takes the
\* lock of every bound Agent.
BeginRestore ==
  /\ phase = "preparing" /\ down = "up"
  /\ phase' = "restoring"
  /\ queue' = [a \in Agents |->
       IF binding[a] = 0 THEN queue[a]
       ELSE Append(queue[a], [kind |-> "restore", expects |-> 0])]
  /\ UNCHANGED <<down, core, pruning, delivering, stage, cur, read, asked, ahead,
                 handles, identities>>

InitFails ==
  /\ Faults /\ phase \in {"pruning", "preparing"} /\ down = "up"
  /\ phase' = "failed"
  /\ UNCHANGED <<down, core, pruning, delivering, jobs, handles, identities>>

\* kick(): a request; it starts the drain, which reads at once, unless one runs.
Kicked(b) ==
  IF b.drain = "idle"
  THEN [b EXCEPT !.requested = FALSE, !.missed = FALSE, !.drain = "listing"]
  ELSE [b EXCEPT !.requested = TRUE, !.missed = FALSE]

\* drain(): a scan settled; the loop tests stopped and requested.
NextRound(b) ==
  IF b.on /\ b.requested THEN [b EXCEPT !.requested = FALSE, !.drain = "listing"]
  ELSE [b EXCEPT !.drain = "ended"]

\* restore() has settled every resume; DeliveryBridge.start kicks.
Restored ==
  /\ phase = "restoring"
  /\ \A a \in Agents : \A i \in DOMAIN queue[a] : queue[a][i].kind # "restore"
  /\ phase' = "serving"
  /\ bridge' = Kicked([bridge EXCEPT !.on = TRUE])
  /\ UNCHANGED <<down, core, pruning, unlisted, sent, jobs, handles, identities>>

-----------------------------------------------------------------------------
(* The kick loop.                                                          *)
Send ==
  /\ Online /\ sent.issued < MaxSends
  /\ sent' = [issued |-> sent.issued + 1, open |-> sent.open + 1]
  /\ unlisted' = TRUE
  /\ UNCHANGED <<starts, bridge, jobs, handles, identities>>

SendAnswered ==
  /\ sent.open > 0
  /\ sent' = [sent EXCEPT !.open = @ - 1]
  /\ bridge' = IF Bridged /\ bridge.on THEN Kicked(bridge) ELSE bridge
  /\ UNCHANGED <<starts, unlisted, jobs, handles, identities>>

Poll ==
  /\ bridge.on
  /\ bridge' = Kicked(bridge)
  /\ UNCHANGED <<starts, unlisted, sent, jobs, handles, identities>>

ScanReads ==
  /\ bridge.drain = "listing"
  /\ bridge' = [bridge EXCEPT !.drain = "delivering"]
  /\ unlisted' = FALSE
  /\ UNCHANGED <<starts, sent, jobs, handles, identities>>

ScanEnds ==
  /\ \/ bridge.drain = "delivering" /\ bridge' = NextRound(bridge)
     \/ Faults /\ bridge.drain = "listing"
        /\ bridge' = NextRound([bridge EXCEPT !.missed = TRUE])
  /\ UNCHANGED <<starts, unlisted, sent, jobs, handles, identities>>

\* Defect: finally does not look at requested.
SettlesOnly ==
  /\ bridge.drain = "ended" /\ bridge' = [bridge EXCEPT !.drain = "idle"]
  /\ UNCHANGED <<starts, unlisted, sent, jobs, handles, identities>>

\* running.finally: a request that arrived after the loop's last test.
DrainSettles ==
  /\ bridge.drain = "ended"
  /\ bridge' = IF bridge.on /\ bridge.requested THEN Kicked([bridge EXCEPT !.drain = "idle"])
               ELSE [bridge EXCEPT !.drain = "idle"]
  /\ UNCHANGED <<starts, unlisted, sent, jobs, handles, identities>>

-----------------------------------------------------------------------------
(* The operations under an Agent's lock.                                   *)
Holder(a) == queue[a][1]
At(a, s) == queue[a] # <<>> /\ stage[a] = s
Goto(a, s) == stage' = [stage EXCEPT ![a] = s]
Put(f, a, x) == [f EXCEPT ![a] = x]

\* The service forwards an operation; the caller of reset names the generation
\* its dialog showed, 0 for none.
Ask(a, kind, expects) ==
  /\ Managed /\ Online /\ asked[a] < MaxJobs
  /\ asked' = Put(asked, a, asked[a] + 1)
  /\ queue' = Put(queue, a, Append(queue[a], [kind |-> kind, expects |-> expects]))
  /\ UNCHANGED <<starts, delivering, stage, cur, read, ahead, handles, identities>>

\* Defect: an operation that settles does not release who awaits it.
Unreleased(a) ==
  /\ queue' = Put(queue, a, Tail(queue[a]))
  /\ Goto(a, "start") /\ UNCHANGED ahead
  /\ cur' = Put(cur, a, 0) /\ read' = Put(read, a, 0)

\* The operation settled: the lock goes to the next.
Finish(a) ==
  /\ queue' = Put(queue, a, Tail(queue[a]))
  /\ Goto(a, "start")
  /\ ahead' = Put(ahead, a, IF ahead[a] > 0 THEN ahead[a] - 1 ELSE 0)
  /\ cur' = Put(cur, a, 0) /\ read' = Put(read, a, 0)

\* createPrepared threw: reset resumes the binding it was to replace.
Fail(a) ==
  IF Holder(a).kind = "reset" /\ cur[a] # 0
  THEN /\ queue' = Put(queue, a, <<[kind |-> "recover", expects |-> cur[a]]>> \o Tail(queue[a]))
       /\ Goto(a, "start") /\ UNCHANGED <<cur, read, ahead>>
  ELSE Finish(a)

Continue(a, s) == Goto(a, s) /\ UNCHANGED <<queue, cur, read, ahead>>

\* The holder begins: every operation but stop is refused once closing, and
\* stop disposes what is leased.
JobStarts(a) ==
  /\ At(a, "start")
  /\ LET kind == Holder(a).kind IN
     \/ kind = "stop" /\ lease[a] = 0 /\ Finish(a)
     \/ kind = "stop" /\ lease[a] # 0 /\ Continue(a, "dispose")
     \/ kind # "stop" /\ Closing /\ Finish(a)
     \/ kind = "create" /\ ~Closing /\ Continue(a, "prepare")
     \/ kind \notin {"stop", "create"} /\ ~Closing /\ Continue(a, "fence")
  /\ UNCHANGED <<starts, delivering, asked, handles, identities>>

\* runtimeBinding answered: reset's fence, then prepareRuntime's own test of
\* closing; resumeLocked needs a binding, the expected one when recovering.
JobFenced(a) ==
  /\ At(a, "fence")
  /\ LET kind == Holder(a).kind IN
     IF \/ kind = "reset" /\ (binding[a] # Holder(a).expects \/ Closing)
        \/ kind # "reset" /\ binding[a] = 0
        \/ kind = "recover" /\ binding[a] # Holder(a).expects
     THEN Finish(a)
     ELSE /\ Goto(a, "prepare") /\ cur' = Put(cur, a, binding[a])
          /\ UNCHANGED <<queue, read, ahead>>
  /\ UNCHANGED <<starts, delivering, asked, handles, identities>>

\* identityContext was read by the core; the answer is used at a later step.
JobReads(a) ==
  /\ At(a, "prepare") /\ read[a] = 0
  /\ read' = Put(read, a, profile[a])
  /\ UNCHANGED <<starts, delivering, queue, stage, cur, asked, ahead, handles, identities>>

\* Defect: the last answer wins.
LastAnswer(a, version) == version

Newest(a, version) == IF version >= shown[a] THEN version ELSE shown[a]

\* Defect: the old Session is left to run.
PreparedOver(a) ==
  /\ At(a, "prepare") /\ read[a] # 0
  /\ shown' = Put(shown, a, Newest(a, read[a]))
  /\ Goto(a, "open") /\ read' = Put(read, a, 0)
  /\ UNCHANGED <<starts, delivering, queue, cur, ahead, asked, handles, profile, edits>>

\* The projection is refreshed and the workspace initialised, then the old
\* Session is disposed.  A rejection on either side of the refresh is thrown
\* before reset's try, so nothing is recovered.
JobPrepared(a) ==
  /\ At(a, "prepare") /\ read[a] # 0
  /\ \/ /\ shown' = Put(shown, a, Newest(a, read[a]))
        /\ Goto(a, IF lease[a] = 0 THEN "open" ELSE "dispose")
        /\ UNCHANGED <<queue, cur, ahead>>
        /\ read' = Put(read, a, 0)
     \/ /\ Faults /\ Finish(a)
        /\ shown' \in {shown, Put(shown, a, Newest(a, read[a]))}
  /\ UNCHANGED <<starts, delivering, asked, handles, profile, edits>>

\* disposeLease: a handle whose dispose() throws stays leased.
JobDisposes(a) ==
  /\ At(a, "dispose")
  /\ \/ /\ lease' = Put(lease, a, 0)
        /\ live' = Put(live, a, live[a] \ {lease[a]})
        /\ broken' = Put(broken, a, broken[a] \ {lease[a]})
        /\ IF Holder(a).kind = "stop" THEN Finish(a) ELSE Continue(a, "open")
     \/ /\ Faults /\ broken' = Put(broken, a, broken[a] \cup {lease[a]})
        /\ Fail(a) /\ UNCHANGED <<lease, live>>
  /\ UNCHANGED <<starts, delivering, asked, opened, binding, identities>>

\* The Session ids not in use; the least stands for all.
Fresh(a) == {h \in Handles \ live[a] : \A x \in Handles \ live[a] : h <= x}

\* registry.create or registry.resume.
JobOpens(a) ==
  /\ At(a, "open")
  /\ \/ /\ \E h \in Fresh(a) :
             opened' = Put(opened, a, h) /\ live' = Put(live, a, live[a] \cup {h})
        /\ Continue(a, IF Holder(a).kind \in {"create", "reset"} THEN "bind" ELSE "check")
     \/ Faults /\ Fail(a) /\ UNCHANGED <<opened, live>>
  /\ UNCHANGED <<starts, delivering, asked, lease, broken, binding, identities>>

\* bindRuntime replaces the binding; a resume finds it as it read it and re-arms.
JobPublishes(a) ==
  /\ At(a, "bind") \/ At(a, "check")
  /\ \/ /\ binding' = Put(binding, a, IF stage[a] = "bind" THEN binding[a] + 1 ELSE binding[a])
        /\ lease' = Put(lease, a, opened[a]) /\ opened' = Put(opened, a, 0)
        /\ Finish(a)
     \/ Faults /\ Continue(a, "abort") /\ UNCHANGED <<lease, opened, binding>>
  /\ UNCHANGED <<starts, delivering, asked, live, broken, identities>>

\* The new handle is disposed; when that throws too nobody holds it any more.
JobAborts(a) ==
  /\ At(a, "abort") /\ Fail(a) /\ opened' = Put(opened, a, 0)
  /\ \/ live' = Put(live, a, live[a] \ {opened[a]}) /\ UNCHANGED broken
     \/ broken' = Put(broken, a, broken[a] \cup {opened[a]}) /\ UNCHANGED live
  /\ UNCHANGED <<starts, delivering, asked, lease, binding, identities>>

-----------------------------------------------------------------------------
(* Profile edits: the core commits, the answer refreshes the projection.   *)
EditCommits(a) ==
  /\ Online /\ profile[a] <= MaxEdits
  /\ profile' = Put(profile, a, profile[a] + 1)
  /\ edits' = Put(edits, a, edits[a] \cup {profile[a] + 1})
  /\ UNCHANGED <<starts, delivering, jobs, handles, shown>>

EditAnswered(a) ==
  /\ \E version \in edits[a] :
       /\ edits' = Put(edits, a, edits[a] \ {version})
       /\ shown' = IF Closing THEN shown ELSE Put(shown, a, Newest(a, version))
  /\ UNCHANGED <<starts, delivering, jobs, handles, profile>>

-----------------------------------------------------------------------------
(* Retention and the cleanup.                                              *)
PruneBegins ==
  /\ phase \in {"preparing", "restoring", "serving"} /\ down = "up" /\ ~pruning
  /\ pruning' = TRUE
  /\ UNCHANGED <<phase, down, core, delivering, jobs, handles, identities>>

PruneEnds ==
  /\ pruning /\ pruning' = FALSE
  /\ UNCHANGED <<phase, down, core, delivering, jobs, handles, identities>>

CleanupBegins ==
  /\ phase \in {"serving", "failed"} /\ down = "up"
  /\ down' = "retention"
  /\ UNCHANGED <<phase, core, pruning, delivering, jobs, handles, identities>>

\* The retention run settled; DeliveryBridge.stop.
BridgeStops ==
  /\ down = "retention" /\ ~pruning
  /\ down' = "delivery"
  /\ bridge' = [bridge EXCEPT !.on = FALSE, !.requested = FALSE]
  /\ UNCHANGED <<phase, core, pruning, unlisted, sent, jobs, handles, identities>>

\* Defect: stop() does not await the drain.
CloseBeforeDrain ==
  /\ down = "delivery" /\ down' = "locks"
  /\ ahead' = [a \in Agents |-> Len(queue[a])]
  /\ UNCHANGED <<phase, core, pruning, delivering, queue, stage, cur, read, asked,
                 handles, identities>>

\* Defect: close() does not await the locks.
CloseUnawaited ==
  /\ down = "delivery" /\ bridge.drain = "idle" /\ down' = "locks"
  /\ UNCHANGED <<phase, core, pruning, delivering, jobs, handles, identities>>

\* The drain settled; RuntimeManager.close awaits every lock as it stands.
CloseBegins ==
  /\ down = "delivery" /\ bridge.drain = "idle"
  /\ down' = "locks"
  /\ ahead' = [a \in Agents |-> Len(queue[a])]
  /\ UNCHANGED <<phase, core, pruning, delivering, queue, stage, cur, read, asked,
                 handles, identities>>

LocksSettled ==
  /\ down = "locks" /\ \A a \in Agents : ahead[a] = 0
  /\ down' = "leases"
  /\ ahead' = [a \in Agents |-> IF lease[a] = 0 THEN 0 ELSE 1]
  /\ UNCHANGED <<phase, core, pruning, delivering, queue, stage, cur, read, asked,
                 handles, identities>>

LeaseDisposed(a) ==
  /\ down = "leases" /\ ahead[a] > 0
  /\ ahead' = Put(ahead, a, 0)
  /\ \/ /\ lease' = Put(lease, a, 0)
        /\ live' = Put(live, a, live[a] \ {lease[a]})
        /\ broken' = Put(broken, a, broken[a] \ {lease[a]})
     \/ /\ Faults /\ broken' = Put(broken, a, broken[a] \cup {lease[a]})
        /\ UNCHANGED <<lease, live>>
  /\ UNCHANGED <<starts, delivering, queue, stage, cur, read, asked, opened, binding,
                 identities>>

\* Every dispose settled: the listeners are cleared, the handle field is unset.
ManagerClosed ==
  /\ down = "leases" /\ \A a \in Agents : ahead[a] = 0
  /\ down' = "handle"
  /\ UNCHANGED <<phase, core, pruning, delivering, jobs, handles, identities>>

CoreCloses ==
  /\ down = "handle" /\ core' = "closed" /\ down' = "done"
  /\ UNCHANGED <<phase, pruning, delivering, jobs, handles, identities>>

-----------------------------------------------------------------------------
JobNext(a) ==
  \/ JobStarts(a) \/ JobFenced(a) \/ JobReads(a) \/ JobPrepared(a)
  \/ JobDisposes(a) \/ JobOpens(a) \/ JobPublishes(a) \/ JobAborts(a)

ScanNext == ScanReads \/ ScanEnds \/ DrainSettles

CleanupNext ==
  \/ BridgeStops \/ CloseBegins \/ LocksSettled \/ ManagerClosed \/ CoreCloses
  \/ \E a \in Agents : LeaseDisposed(a)

LifeNext ==
  \/ Pruned \/ BeginRestore \/ InitFails \/ Restored
  \/ Send \/ Poll \/ PruneBegins \/ CleanupBegins
  \/ SendAnswered \/ ScanNext \/ PruneEnds \/ CleanupNext
  \/ \E a \in Agents :
       \/ \E kind \in {"create", "resume", "stop"} : Ask(a, kind, 0)
       \/ \E expects \in {0, binding[a]} : Ask(a, "reset", expects)
       \/ JobNext(a) \/ EditCommits(a) \/ EditAnswered(a)

LifeSpec == LifeInit /\ [][LifeNext]_vars

\* Every await settles: a promise of the core, the registry or dispose().
Fairness ==
  /\ WF_vars(PruneEnds) /\ WF_vars(ScanNext) /\ WF_vars(CleanupNext)
  /\ \A a \in Agents : WF_vars(JobNext(a))

FairLifeSpec == LifeSpec /\ Fairness

-----------------------------------------------------------------------------
\* Nothing the host runs on its own still works against the core once it is
\* closed: no retention run, no scan, no operation under a lock.
LoopsEndBeforeCore ==
  core = "closed" =>
    /\ ~pruning /\ bridge.drain = "idle"
    /\ \A a \in Agents : queue[a] = <<>>

\* When the manager is closed every Session it opened is ended, but those whose
\* own dispose() threw: no operation slips behind the snapshot of the locks.
NoHandleOutlives ==
  down \in {"handle", "done"} => \A a \in Agents : live[a] \subseteq broken[a]

\* An Agent never has two Sessions that run: the old one is ended before the
\* new one opens, whatever fails in between and whoever waits for the lock.
OneSession == \A a \in Agents : Cardinality(live[a] \ broken[a]) <= 1

\* kick() requests coalesce without losing the last one: a committed message
\* that no scan has read, whose send was answered, has a scan that is still to
\* read or a request behind the running drain; only a scan whose own read
\* failed leaves it to the poll.
NoKickLost ==
  bridge.on /\ unlisted /\ sent.open = 0 =>
    (bridge.requested /\ bridge.drain # "idle") \/ bridge.drain = "listing" \/ bridge.missed

\* The identity in a published Session's prompt is the durable Profile's,
\* whatever order a resume's read and the answers of edits arrive in.
PromptIsCurrent ==
  \A a \in Agents :
    lease[a] # 0 /\ edits[a] = {} /\ ~Closing => shown[a] = profile[a]

\* A cleanup that began ends with the core closed.
CleanupEnds == (down # "up") ~> (core = "closed")
=============================================================================
