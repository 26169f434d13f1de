----------------------------- MODULE RemoteCalls -----------------------------
(***************************************************************************)
(* The RPC channel from end to end: what ChaosClient (client/data/api.ts)  *)
(* puts in a payload, what dispatchRemote (remote.ts) demands of it, and   *)
(* what the service (index.ts) announces once the core has committed.      *)
(*                                                                         *)
(* A value is abstracted to what the checks tell apart.  The core commits  *)
(* or refuses; whether a commit appends to the change ledger is read off   *)
(* the core's modules.  A connection may close at any point of a call.     *)
(***************************************************************************)
EXTENDS Integers, FiniteSets

CONSTANTS MaxRemote  \* bound: calls in flight

VARIABLES
  remote,   \* calls in flight: endpoint, payload, and how far they are
  refused,  \* endpoints that answered invalid_argument or not_found
  behind    \* whether the ledger holds changes that no listener was told of

wireVars == <<remote, refused, behind>>

Value(t, n) == [t |-> t, n |-> n]
Missing == Value("missing", 0)
Name == Value("text", 1)         \* not blank
Decimal == Value("decimal", 1)
Number(n) == Value("number", n)
Strings(n) == Value("list", n)

(* --- remote.ts --- *)

Nonblank(v) == v.t \in {"text", "decimal", "status", "filter"}

\* A field is read by one of the helpers; max is the bound of integer and stringArray.
ReadAs(check, v) ==
  CASE check.how = "required" -> Nonblank(v)
    [] check.how = "optional" -> v = Missing \/ Nonblank(v)
    [] check.how = "path" -> v.t \in {"missing", "text", "decimal"}
    [] check.how = "boolean" -> v.t \in {"missing", "boolean"}
    [] check.how = "decimal" -> v.t = "decimal"
    [] check.how = "decimal or 0" -> v.t \in {"missing", "decimal"}
    [] check.how = "integer" -> v = Missing \/ (v.t = "number" /\ v.n \in 1..check.max)
    [] check.how = "array" -> v.t = "list" /\ v.n \in 1..check.max
    [] check.how = "status" -> v.t = "status"
    [] check.how = "filter" -> v.t \in {"missing", "filter"}
    [] OTHER -> FALSE

Check(how) == [how |-> how, max |-> 0]
Within(how, max) == [how |-> how, max |-> max]
Text == Check("required")

Given(names) == [f \in names |-> Text]
Fenced(names, fence) == [f \in names \cup {fence} |-> IF f = fence THEN Check("decimal") ELSE Text]

\* An endpoint that is not there reads nothing as it should be.
NotFound == [endpoint |-> Check("not found")]

\* The cases of dispatchRemote, with what each reads of the payload: what members do
\* with Channels, Threads, Messages and Tasks, what Settings does with Agents, and what
\* a surface is shown.
Conversing(e) ==
  CASE e = "channel.create" -> Given({"name", "description"})
    [] e = "channel.update" -> Fenced({"targetId", "name", "description"}, "expectedVersion")
    [] e \in {"channel.archive", "channel.restore", "channel.delete"} ->
         Fenced({"targetId"}, "expectedVersion")
    [] e = "direct.create" -> Given({"peerId"})
    [] e = "thread.create" -> Given({"rootMessageId"})
    [] e = "thread.summaries" -> [rootMessageIds |-> Within("array", 100)]
    [] e \in {"thread.follow", "thread.unfollow"} -> Given({"threadTargetId"})
    [] e = "member.add" -> Given({"targetId", "memberId"})
    [] e = "message.send" -> Given({"targetId", "requestId", "text"})
    [] e = "task.create" -> Given({"messageId"})
    [] e = "task.claim" -> [messageId |-> Text, actorId |-> Check("optional")]
    [] e = "task.unclaim" -> Fenced({"messageId"}, "expectedVersion")
    [] e = "task.update" -> [messageId |-> Text, status |-> Check("status"),
                             expectedVersion |-> Check("decimal")]
    [] OTHER -> NotFound

Managing(e) ==
  CASE e \in {"agent.presets", "agent.profiles", "runtime.bindings"} -> Given({})
    [] e \in {"agent.profile", "agent.memberships", "agent.delete"} -> Given({"agentId"})
    [] e = "agent.profile.update" ->
         Fenced({"agentId", "displayName", "description"}, "expectedProfileVersion")
    [] e = "agent.avatar.update" -> [agentId |-> Text, avatarDataUrl |-> Check("optional"),
                                     expectedProfileVersion |-> Check("decimal")]
    [] e = "agent.runtime.replace" ->
         [agentId |-> Text, provider |-> Text, model |-> Text, presetId |-> Text,
          expectedGeneration |-> Check("optional")]
    [] e = "agent.workspace.list" -> [agentId |-> Text, dirPath |-> Check("path"),
                                      includeHidden |-> Check("boolean")]
    [] e = "agent.workspace.read" -> Given({"agentId", "path"})
    [] e = "agent.create" ->
         Given({"displayName", "description", "provider", "model", "presetId"})
    [] OTHER -> Conversing(e)

Readings(e) ==
  CASE e \in {"snapshot", "actors", "inbox.doneAll"} -> Given({})
    [] e \in {"target.members", "target.memberships"} -> Given({"targetId"})
    [] e = "changes" -> [afterSeq |-> Check("decimal or 0"), limit |-> Within("integer", 500)]
    [] e = "history" -> [targetId |-> Text, afterSeq |-> Check("decimal or 0"),
                         limit |-> Within("integer", 100)]
    [] e = "history.tail" -> [targetId |-> Text, limit |-> Within("integer", 100)]
    [] e = "inbox.list" -> [filter |-> Check("filter"), limit |-> Within("integer", 50),
                            cursor |-> Check("optional")]
    [] e = "inbox.done" -> Fenced({"targetId"}, "throughSeq")
    [] e = "tasks" -> [targetId |-> Check("optional")]
    [] OTHER -> Managing(e)

Field(payload, f) == IF f \in DOMAIN payload THEN payload[f] ELSE Missing

\* An endpoint that is there, and every field as its reader wants it.
Understood(e, payload) ==
  \A f \in DOMAIN Readings(e) : ReadAs(Readings(e)[f], Field(payload, f))

(* --- api.ts, with the values store.ts and the dialogs give it --- *)

\* Texts are ids the client was given or fields a dialog refused while they were
\* blank; decimals are sequences and versions it was given.
Put(texts, decimals) == [f \in texts \cup decimals |-> IF f \in texts THEN Name ELSE Decimal]

\* Defect: the summaries of all rows are asked for at once.
WholeList == {Strings(1), Strings(101)}

\* refreshThreadSummaries: at least one root, in slices.
SummarySlices == {Strings(1), Strings(100)}

\* The calls the client makes; agent.profile and the workspace calls have no caller.
Requests ==
  ({"snapshot", "actors", "inbox.doneAll", "agent.presets", "agent.profiles",
    "runtime.bindings", "tasks"} \X {Put({}, {})})
  \cup ({"target.memberships"} \X {Put({"targetId"}, {})})
  \cup ({"channel.create"} \X {Put({"name", "description"}, {})})
  \cup ({"channel.update"} \X {Put({"targetId", "name", "description"}, {"expectedVersion"})})
  \cup ({"channel.archive", "channel.restore", "channel.delete"}
        \X {Put({"targetId"}, {"expectedVersion"})})
  \cup ({"member.add"} \X {Put({"targetId", "memberId"}, {})})
  \cup ({"history"} \X {[targetId |-> Name, afterSeq |-> Decimal, limit |-> Number(100)]})
  \cup ({"history.tail"} \X {[targetId |-> Name, limit |-> Number(n)] : n \in {1, 50}})
  \cup ({"message.send"} \X {Put({"targetId", "requestId", "text"}, {})})
  \cup ({"thread.create"} \X {Put({"rootMessageId"}, {})})
  \cup ({"thread.summaries"} \X {[rootMessageIds |-> v] : v \in SummarySlices})
  \cup ({"inbox.list"} \X {[limit |-> Number(30), filter |-> Value("filter", 1)]})
  \cup ({"inbox.done"} \X {Put({"targetId"}, {"throughSeq"})})
  \cup ({"task.create"} \X {Put({"messageId"}, {})})
  \cup ({"task.claim"} \X {Put({"messageId"}, {}), Put({"messageId", "actorId"}, {})})
  \cup ({"task.unclaim"} \X {Put({"messageId"}, {"expectedVersion"})})
  \cup ({"task.update"} \X {[messageId |-> Name, expectedVersion |-> Decimal,
                             status |-> Value("status", 1)]})
  \cup ({"agent.memberships", "agent.delete"} \X {Put({"agentId"}, {})})
  \cup ({"agent.profile.update"}
        \X {Put({"agentId", "displayName", "description"}, {"expectedProfileVersion"})})
  \cup ({"agent.avatar.update"}
        \X {Put({"agentId", "avatarDataUrl"}, {"expectedProfileVersion"})})
  \cup ({"agent.runtime.replace"} \X {Put({"agentId", "provider", "model", "presetId"}, more) :
                                        more \in {{}, {"expectedGeneration"}}})
  \cup ({"agent.create"}
        \X {Put({"displayName", "description", "provider", "model", "presetId"}, {})})

(* --- index.ts and the core --- *)

\* Calls whose transaction appends to the change ledger.
Ledger == {"agent.create", "agent.profile.update", "agent.avatar.update", "agent.delete",
           "channel.create", "channel.update", "channel.archive", "channel.restore",
           "channel.delete", "direct.create", "thread.create", "thread.follow",
           "thread.unfollow", "member.add", "message.send", "inbox.done", "inbox.doneAll",
           "task.create", "task.claim", "task.unclaim", "task.update"}

\* Defect: deleting an Agent is not announced.
ForgetsDeletion(e) == e \in (Ledger \cup {"agent.runtime.replace"}) \ {"agent.delete"}

\* The delegates that end in publishChange.
Announces(e) ==
  \/ e \in {"agent.create", "agent.delete", "agent.profile.update", "agent.avatar.update",
            "agent.runtime.replace"}
  \/ e \in {"channel.create", "channel.update", "channel.archive", "channel.restore",
            "channel.delete", "direct.create", "thread.create", "thread.follow",
            "thread.unfollow", "member.add", "message.send", "inbox.done", "inbox.doneAll"}
  \/ e \in {"task.create", "task.claim", "task.unclaim", "task.update"}

\* Those that read the binding between their commit and publishChange.
ReadsAfterCommit == {"agent.profile.update", "agent.avatar.update"}

WireInit == remote = {} /\ refused = {} /\ behind = "no"

Advance(c, phase) == remote' = (remote \ {c}) \cup {[c EXCEPT !.phase = phase]}

CallLeaves(call) ==
  /\ LET c == [to |-> call[1], payload |-> call[2], phase |-> "sent"]
     IN c \notin remote /\ remote' = remote \cup {c}
  /\ UNCHANGED <<refused, behind>>

\* createCollabRpcHandler: a connection that is gone gets nothing done.
Cancelled(c) ==
  /\ c.phase = "sent" /\ remote' = remote \ {c} /\ UNCHANGED <<refused, behind>>

Dispatched(c) ==
  /\ c.phase = "sent"
  /\ IF Understood(c.to, c.payload) THEN Advance(c, "running") /\ UNCHANGED refused
     ELSE remote' = remote \ {c} /\ refused' = refused \cup {c.to}
  /\ UNCHANGED behind

\* The core refuses: no Agent, no Channel, a stale version.
CoreRefuses(c) ==
  /\ c.phase = "running" /\ remote' = remote \ {c} /\ UNCHANGED <<refused, behind>>

\* A call that changes nothing new appends nothing: a fence that is there already, a
\* member, a Thread, a request id.
CoreCommits(c) ==
  /\ c.phase = "running" /\ Advance(c, "committed")
  /\ behind' \in IF c.to \in Ledger THEN {"yes", behind} ELSE {behind}
  /\ UNCHANGED refused

\* publishChange wakes every event stream, which lists all changes.
Answered(c) ==
  /\ c.phase = "committed" /\ remote' = remote \ {c}
  /\ behind' = IF Announces(c.to) THEN "no" ELSE behind
  /\ UNCHANGED refused

ReadFails(c) ==
  /\ c.phase = "committed" /\ c.to \in ReadsAfterCommit /\ remote' = remote \ {c}
  /\ behind' = IF behind = "yes" THEN "until the heartbeat" ELSE behind
  /\ UNCHANGED refused

\* A stream lists the changes anew when its heartbeat is due.
HeartbeatDue == behind # "no" /\ behind' = "no" /\ UNCHANGED <<remote, refused>>

WireNext ==
  \/ Cardinality(remote) < MaxRemote /\ \E call \in Requests : CallLeaves(call)
  \/ \E c \in remote : \/ Cancelled(c) \/ Dispatched(c) \/ CoreRefuses(c)
                       \/ CoreCommits(c) \/ Answered(c) \/ ReadFails(c)
  \/ HeartbeatDue

WireSpec == WireInit /\ [][WireNext]_wireVars

\* No call of the client is turned away by the host's own checks: the two ends agree
\* on every endpoint, field and limit.
CallsAreUnderstood == refused = {}

\* A committed change that no stream was told of has its call still under way; only a
\* read that failed after the commit leaves it to the heartbeat.
CommitsAreAnnounced ==
  behind = "yes" => \E c \in remote : c.phase = "committed" /\ c.to \in Ledger
=============================================================================
