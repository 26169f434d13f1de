------------------------------ MODULE TaskBoard ------------------------------
(***************************************************************************)
(* Tasks of collab-core (task/): a Task anchored on a top-level Message,   *)
(* its target-local number, status, assignee, version and audit trail, and *)
(* the two-call `task_create` tool of the host (tools.ts).                 *)
(*                                                                         *)
(* Every core call is one transaction, so one step; a refused call is a    *)
(* step that does not happen.  The tool is two calls, and any call of      *)
(* another actor may be committed between them.                            *)
(*                                                                         *)
(* Data left out: the anchor text, timestamps and the change event each    *)
(* transition publishes (module ChangeLedger of the plan).  Messages in    *)
(* Threads, which create_task refuses, are not in Messages.                *)
(***************************************************************************)
EXTENDS Integers, Sequences

CONSTANTS
  Owner,       \* the human who owns every Channel
  Agents,      \* its other possible members
  NoActor,     \* assignee_id NULL
  NoStatus,    \* to_status NULL
  Channels,
  Messages,    \* committed top-level Messages
  MaxEvents    \* bound: task_events rows ever written

Actors == Agents \cup {Owner}
Status == {"todo", "in_progress", "in_review", "done"}

ASSUME OwnerAssumption == Owner \notin Agents
ASSUME NoActorAssumption == NoActor \notin Actors
ASSUME NoStatusAssumption == NoStatus \notin Status
ASSUME MaxEventsAssumption == MaxEvents \in Nat

VARIABLES
  home,        \* messages.target_id
  lifecycle,   \* targets: derived from archived_at_ms and deleted_at_ms
  members,     \* memberships: active members of each Channel
  nextNumber,  \* target_counters.next_task_number, 1 when there is no row
  number,      \* tasks.number, 0 when the Message has no Task
  status,
  assignee,
  version,
  trail,       \* task_events of each Task
  lastEvent,   \* task_events.seq, its AUTOINCREMENT high-water mark
  claimsDue    \* task_create calls of the tool between their two core calls

places == <<home, lifecycle, members>>
rows == <<nextNumber, number, status, assignee, version, trail, lastEvent>>

vars == <<places, rows, claimsDue>>


\* from_status and from_assignee_id are never recorded.
Event == [kind : {"created", "claimed", "unclaimed", "status_changed"},
          actor : Actors, to : Status \cup {NoStatus},
          holder : Actors \cup {NoActor}, version : Nat]

ToolCall == [actor : Agents, task : Messages, fresh : BOOLEAN]

TypeOK ==
  /\ home \in [Messages -> Channels]
  /\ lifecycle \in [Channels -> {"active", "archived", "deleted"}]
  /\ members \in [Channels -> SUBSET Actors]
  /\ nextNumber \in [Channels -> Nat \ {0}]
  /\ number \in [Messages -> Nat]
  /\ status \in [Messages -> Status]
  /\ assignee \in [Messages -> Actors \cup {NoActor}]
  /\ version \in [Messages -> Nat]
  /\ trail \in [Messages -> Seq(Event)]
  /\ lastEvent \in 0..MaxEvents
  /\ claimsDue \subseteq ToolCall

Init ==
  /\ home \in [Messages -> Channels]
  /\ lifecycle = [c \in Channels |-> "active"]
  /\ members = [c \in Channels |-> Actors]
  /\ nextNumber = [c \in Channels |-> 1]
  /\ number = [t \in Messages |-> 0]
  /\ status = [t \in Messages |-> "todo"]
  /\ assignee = [t \in Messages |-> NoActor]
  /\ version = [t \in Messages |-> 0]
  /\ trail = [t \in Messages |-> <<>>]
  /\ lastEvent = 0
  /\ claimsDue = {}

-----------------------------------------------------------------------------
(* Guards.                                                                 *)

IsTask(t) == number[t] # 0

\* AccessGrant::require_writable.
Writable(x, t) == lifecycle[home[t]] = "active" /\ x \in members[home[t]]

\* The explicit lifecycle: only these edges may be committed.
CanTransition(from, to) ==
  <<from, to>> \in {<<"todo", "in_progress">>, <<"in_progress", "todo">>,
                    <<"in_progress", "in_review">>, <<"in_review", "in_progress">>,
                    <<"in_review", "done">>, <<"done", "in_progress">>}

\* The claims that change the row; the assignee's own repeat changes nothing.
Claimable(x, t) ==
  /\ IsTask(t)
  /\ Writable(x, t)
  /\ status[t] # "done"
  /\ assignee[t] = NoActor

-----------------------------------------------------------------------------
(* Core calls.                                                             *)

\* Mutant: the audit event does not say which status the row moved to.
RecordNoStatus(t, kind, x, to, holder) ==
  /\ lastEvent < MaxEvents
  /\ lastEvent' = lastEvent + 1
  /\ trail' = [trail EXCEPT ![t] =
       Append(@, [kind |-> kind, actor |-> x, to |-> IF kind = "claimed" THEN NoStatus ELSE to,
                  holder |-> holder, version |-> version'[t]])]

\* record_event, in the transaction of the row it describes.
Record(t, kind, x, to, holder) ==
  /\ lastEvent < MaxEvents
  /\ lastEvent' = lastEvent + 1
  /\ trail' = [trail EXCEPT ![t] =
       Append(@, [kind |-> kind, actor |-> x, to |-> to, holder |-> holder,
                  version |-> version'[t]])]

\* The first create_task of a Message.
InsertTask(x, t) ==
  /\ number' = [number EXCEPT ![t] = nextNumber[home[t]]]
  /\ nextNumber' = [nextNumber EXCEPT ![home[t]] = @ + 1]
  /\ version' = [version EXCEPT ![t] = 1]
  /\ Record(t, "created", x, "todo", NoActor)
  /\ UNCHANGED <<status, assignee>>

\* The effect of a granted claim, whatever the status it starts from.
TakeTask(x, t) ==
  /\ status' = [status EXCEPT ![t] = "in_progress"]
  /\ assignee' = [assignee EXCEPT ![t] = x]
  /\ version' = [version EXCEPT ![t] = @ + 1]
  /\ Record(t, "claimed", x, "in_progress", x)
  /\ UNCHANGED <<nextNumber, number>>

\* create_task of a Message that has a Task returns it and writes nothing.
CreateTask(x, t) ==
  /\ Writable(x, t)
  /\ ~IsTask(t)
  /\ InsertTask(x, t)
  /\ UNCHANGED <<places, claimsDue>>

\* claim_task carries no expected version.  The Owner's RPC may name any actor.
ClaimTask(x, t) ==
  /\ Claimable(x, t)
  /\ TakeTask(x, t)
  /\ UNCHANGED <<places, claimsDue>>

\* Mutant: anybody who knows the version may release the Task.
UnclaimTaskAnyone(x, t, expected) ==
  /\ IsTask(t) /\ Writable(x, t)
  /\ version[t] = expected
  /\ assignee[t] # NoActor
  /\ status[t] # "done"
  /\ assignee' = [assignee EXCEPT ![t] = NoActor]
  /\ version' = [version EXCEPT ![t] = @ + 1]
  /\ Record(t, "unclaimed", x, NoStatus, NoActor)
  /\ UNCHANGED <<places, nextNumber, number, status, claimsDue>>

\* unclaim_task: only the assignee, never once done; the status stays.
UnclaimTask(x, t, expected) ==
  /\ IsTask(t) /\ Writable(x, t)
  /\ version[t] = expected
  /\ assignee[t] = x
  /\ status[t] # "done"
  /\ assignee' = [assignee EXCEPT ![t] = NoActor]
  /\ version' = [version EXCEPT ![t] = @ + 1]
  /\ Record(t, "unclaimed", x, NoStatus, NoActor)
  /\ UNCHANGED <<places, nextNumber, number, status, claimsDue>>

\* Mutant: any status may follow any other.
UpdateTaskStatusUnchecked(x, t, to, expected) ==
  /\ IsTask(t) /\ Writable(x, t)
  /\ version[t] = expected
  /\ assignee[t] \in {NoActor, x} \/ x = Owner
  /\ status' = [status EXCEPT ![t] = to]
  /\ version' = [version EXCEPT ![t] = @ + 1]
  /\ Record(t, "status_changed", x, to, NoActor)
  /\ UNCHANGED <<places, nextNumber, number, assignee, claimsDue>>

\* update_task_status: a Task somebody else holds is moved by the Owner only.
UpdateTaskStatus(x, t, to, expected) ==
  /\ IsTask(t) /\ Writable(x, t)
  /\ version[t] = expected
  /\ assignee[t] \in {NoActor, x} \/ x = Owner
  /\ CanTransition(status[t], to)
  /\ status' = [status EXCEPT ![t] = to]
  /\ version' = [version EXCEPT ![t] = @ + 1]
  /\ Record(t, "status_changed", x, to, NoActor)
  /\ UNCHANGED <<places, nextNumber, number, assignee, claimsDue>>

-----------------------------------------------------------------------------
(* The task_create tool.                                                   *)

\* Its first call: create_task, which may find the Task already there.
ToolCreate(a, t) ==
  /\ Writable(a, t)
  /\ IF IsTask(t) THEN UNCHANGED rows ELSE InsertTask(a, t)
  /\ claimsDue' = claimsDue \cup {[actor |-> a, task |-> t, fresh |-> ~IsTask(t)]}
  /\ UNCHANGED places

\* Its second call: claim_task, whose refusal is the tool's error.
ToolClaim(call) ==
  /\ IF Claimable(call.actor, call.task)
     THEN TakeTask(call.actor, call.task)
     ELSE UNCHANGED rows
  /\ claimsDue' = claimsDue \ {call}
  /\ UNCHANGED places

\* The process dies, or the turn is aborted, between the two calls.
ToolAborted(call) ==
  /\ claimsDue' = claimsDue \ {call}
  /\ UNCHANGED <<places, rows>>

-----------------------------------------------------------------------------
(* Calls of the other components that decide who may write.                *)

ArchiveChannel(c) ==
  /\ lifecycle[c] = "active"
  /\ lifecycle' = [lifecycle EXCEPT ![c] = "archived"]
  /\ UNCHANGED <<home, members, rows, claimsDue>>

RestoreChannel(c) ==
  /\ lifecycle[c] = "archived"
  /\ lifecycle' = [lifecycle EXCEPT ![c] = "active"]
  /\ UNCHANGED <<home, members, rows, claimsDue>>

DeleteChannel(c) ==
  /\ lifecycle[c] # "deleted"
  /\ lifecycle' = [lifecycle EXCEPT ![c] = "deleted"]
  /\ members' = [members EXCEPT ![c] = {}]
  /\ UNCHANGED <<home, rows, claimsDue>>

\* delete_agent drops memberships and leaves the Tasks it holds assigned.
DeleteAgent(a) ==
  /\ members' = [c \in Channels |-> members[c] \ {a}]
  /\ UNCHANGED <<home, lifecycle, rows, claimsDue>>

AddMember(c, a) ==
  /\ lifecycle[c] = "active"
  /\ members' = [members EXCEPT ![c] = @ \cup {a}]
  /\ UNCHANGED <<home, lifecycle, rows, claimsDue>>

-----------------------------------------------------------------------------
TaskNext ==
  \E x \in Actors, t \in Messages :
     \/ CreateTask(x, t)
     \/ ClaimTask(x, t)
     \/ \E expected \in 1..MaxEvents :
          \/ UnclaimTask(x, t, expected)
          \/ \E to \in Status : UpdateTaskStatus(x, t, to, expected)

ToolNext ==
  \/ \E a \in Agents, t \in Messages : ToolCreate(a, t)
  \/ \E call \in claimsDue : ToolClaim(call) \/ ToolAborted(call)

PlaceNext ==
  \/ \E c \in Channels :
        \/ ArchiveChannel(c) \/ RestoreChannel(c) \/ DeleteChannel(c)
        \/ \E a \in Agents : AddMember(c, a)
  \/ \E a \in Agents : DeleteAgent(a)

Next == TaskNext \/ ToolNext \/ PlaceNext

Spec == Init /\ [][Next]_vars
-----------------------------------------------------------------------------
(* Properties.                                                             *)

\* The row of one Task against its audit trail.
RowRebuilt(t) ==
  LET e == trail[t]
  IN /\ Len(e) = version[t] /\ (IsTask(t) <=> version[t] # 0)
     /\ \A i \in DOMAIN e : e[i].version = i
     /\ IsTask(t) =>
          /\ \E i \in DOMAIN e :
               /\ e[i].to = status[t]
               /\ \A j \in DOMAIN e : j > i => e[j].to = NoStatus
          /\ \E i \in DOMAIN e :
               /\ e[i].kind # "status_changed" /\ e[i].holder = assignee[t]
               /\ \A j \in DOMAIN e : j > i => e[j].kind = "status_changed"

\* The audit trail, which records no `from` values, still rebuilds the row:
\* its last status and its last assignee are the row's, and its length is the
\* version, so no committed change is missing from it or out of order.
AuditRebuildsRow == \A t \in Messages : RowRebuilt(t)

\* Claims write a status without asking can_transition_to; still, two
\* successive statuses of a Task are joined by an edge of the lifecycle.
AuditFollowsLifecycle ==
  \A t \in Messages : \A i, j \in DOMAIN trail[t] :
     /\ i < j /\ trail[t][i].to # NoStatus /\ trail[t][j].to # NoStatus
     /\ \A k \in DOMAIN trail[t] : i < k /\ k < j => trail[t][k].to = NoStatus
     => \/ trail[t][i].to = trail[t][j].to
        \/ CanTransition(trail[t][i].to, trail[t][j].to)

\* README "Task and attention semantics": concurrent claims have one winner.
\* Between two granted claims, the first winner itself let the Task go.
OneWinner ==
  \A t \in Messages : \A i, j \in DOMAIN trail[t] :
     i < j /\ trail[t][i].kind = "claimed" /\ trail[t][j].kind = "claimed"
     => \E k \in DOMAIN trail[t] :
           /\ i < k /\ k < j
           /\ trail[t][k].kind = "unclaimed" /\ trail[t][k].actor = trail[t][i].actor

\* The numbers of a Channel's Tasks are 1, 2, 3 ... without gap or repetition,
\* however the creations of its members interleave.
NumbersDense ==
  \A c \in Channels :
     LET T == {t \in Messages : home[t] = c /\ IsTask(t)}
     IN /\ {number[t] : t \in T} = 1..(nextNumber[c] - 1)
        /\ \A t, u \in T : number[t] = number[u] => t = u

\* tools.ts describes task_create: "the creator claims their fresh Task in the
\* same call", so a Task just created is not somebody else's before the claim.
FreshTaskIsCreators ==
  \A call \in claimsDue :
     call.fresh => assignee[call.task] \in {NoActor, call.actor}
=============================================================================
