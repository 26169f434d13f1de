-------------------------- MODULE TaskBoardProofs --------------------------
(***************************************************************************)
(* Theorems about TaskBoard, for every value of its constants.             *)
(***************************************************************************)
EXTENDS TaskBoard, TLAPS

USE OwnerAssumption, NoActorAssumption, NoStatusAssumption, MaxEventsAssumption

-----------------------------------------------------------------------------
(* The audit trail grows at its end.                                       *)

LEMMA AppendFacts ==
  ASSUME NEW S, NEW s \in Seq(S), NEW e \in S
  PROVE  /\ Append(s, e) \in Seq(S)
         /\ Len(Append(s, e)) = Len(s) + 1
         /\ DOMAIN s = 1..Len(s) /\ DOMAIN Append(s, e) = 1..(Len(s) + 1)
         /\ \A i \in 1..Len(s) : Append(s, e)[i] = s[i]
         /\ Append(s, e)[Len(s) + 1] = e
OBVIOUS

NewEvent(t, kind, x, to, holder) ==
  [kind |-> kind, actor |-> x, to |-> to, holder |-> holder, version |-> version'[t]]

\* What record_event leaves behind, said without sequences' operators.
LEMMA Recorded ==
  ASSUME TypeOK, NEW t \in Messages, NEW kind, NEW x, NEW to, NEW holder,
         NewEvent(t, kind, x, to, holder) \in Event,
         Record(t, kind, x, to, holder)
  PROVE  /\ trail' \in [Messages -> Seq(Event)]
         /\ lastEvent' \in 0..MaxEvents
         /\ \A u \in Messages \ {t} : trail'[u] = trail[u]
         /\ Len(trail'[t]) = Len(trail[t]) + 1
         /\ Len(trail[t]) \in Nat
         /\ DOMAIN trail[t] = 1..Len(trail[t])
         /\ DOMAIN trail'[t] = 1..(Len(trail[t]) + 1)
         /\ \A i \in DOMAIN trail[t] : trail'[t][i] = trail[t][i]
         /\ trail'[t][Len(trail[t]) + 1] = NewEvent(t, kind, x, to, holder)
<1> DEFINE e == NewEvent(t, kind, x, to, holder)
<1>1. trail[t] \in Seq(Event) /\ trail \in [Messages -> Seq(Event)]
  BY DEF TypeOK
<1>2. trail' = [trail EXCEPT ![t] = Append(trail[t], e)]
  BY DEF Record, NewEvent
<1>3. e \in Event
  OBVIOUS
<1> HIDE DEF e
<1>4. trail'[t] = Append(trail[t], e) /\ \A u \in Messages \ {t} : trail'[u] = trail[u]
  BY <1>1, <1>2
<1>5. Append(trail[t], e) \in Seq(Event)
  BY <1>1, <1>3, AppendFacts
<1>6. trail' \in [Messages -> Seq(Event)]
  BY <1>1, <1>2, <1>5
<1>7. lastEvent' \in 0..MaxEvents
  BY DEF Record, TypeOK
<1>8. Len(trail[t]) \in Nat
  BY <1>1
<1> QED
  BY <1>1, <1>3, <1>4, <1>6, <1>7, <1>8, AppendFacts DEF e

-----------------------------------------------------------------------------
(* Steps, seen from the rows.                                              *)

Unclaims(x, t) == \E expected \in 1..MaxEvents : UnclaimTask(x, t, expected)

Moves(x, t, to) == \E expected \in 1..MaxEvents : UpdateTaskStatus(x, t, to, expected)

LEMMA StepCases ==
  ASSUME TypeOK, [Next]_vars
  PROVE  \/ UNCHANGED <<home, rows>>
         \/ \E x \in Actors, t \in Messages :
              /\ home' = home
              /\ \/ ~IsTask(t) /\ InsertTask(x, t)
                 \/ Claimable(x, t) /\ TakeTask(x, t)
                 \/ Unclaims(x, t)
                 \/ \E to \in Status : Moves(x, t, to)
<1> USE DEF places
<1>1. CASE TaskNext
  BY <1>1 DEF TaskNext, CreateTask, ClaimTask, Unclaims, Moves, UnclaimTask, UpdateTaskStatus
<1>2. ASSUME NEW a \in Agents, NEW t \in Messages, ToolCreate(a, t)
      PROVE  UNCHANGED <<home, rows>> \/ (home' = home /\ ~IsTask(t) /\ InsertTask(a, t))
  BY <1>2 DEF ToolCreate
<1>3. ASSUME NEW call \in claimsDue, ToolClaim(call)
      PROVE  \/ UNCHANGED <<home, rows>>
             \/ /\ home' = home
                /\ Claimable(call.actor, call.task) /\ TakeTask(call.actor, call.task)
  BY <1>3 DEF ToolClaim
<1>4. \A call \in claimsDue : call.actor \in Agents /\ call.task \in Messages
  BY DEF TypeOK, ToolCall
<1>5. CASE ToolNext
  BY <1>2, <1>3, <1>4, <1>5 DEF ToolNext, ToolAborted, Actors
<1>6. CASE PlaceNext
  BY <1>6 DEF PlaceNext, ArchiveChannel, RestoreChannel, DeleteChannel, DeleteAgent, AddMember
<1>7. CASE UNCHANGED vars
  BY <1>7 DEF vars
<1> QED BY <1>1, <1>5, <1>6, <1>7 DEF Next

-----------------------------------------------------------------------------
(* Type correctness.                                                       *)

LEMMA InitTypeOK == Init => TypeOK
<1> SUFFICES ASSUME Init PROVE TypeOK
  OBVIOUS
<1>1. <<>> \in Seq(Event)
  OBVIOUS
<1> QED BY <1>1 DEF Init, TypeOK, Actors, Status

RowsTypeOK ==
  /\ nextNumber \in [Channels -> Nat \ {0}]
  /\ number \in [Messages -> Nat]
  /\ status \in [Messages -> Status]
  /\ assignee \in [Messages -> Actors \cup {NoActor}]
  /\ version \in [Messages -> Nat]
  /\ trail \in [Messages -> Seq(Event)]
  /\ lastEvent \in 0..MaxEvents

\* The events the four writers of the rows record are well typed.
LEMMA EventTypes ==
  ASSUME NEW x \in Actors, NEW t \in Messages, version'[t] \in Nat
  PROVE  /\ NewEvent(t, "created", x, "todo", NoActor) \in Event
         /\ NewEvent(t, "claimed", x, "in_progress", x) \in Event
         /\ NewEvent(t, "unclaimed", x, NoStatus, NoActor) \in Event
         /\ \A to \in Status : NewEvent(t, "status_changed", x, to, NoActor) \in Event
BY DEF NewEvent, Event, Status

LEMMA InsertTaskTypes ==
  ASSUME TypeOK, NEW x \in Actors, NEW t \in Messages, InsertTask(x, t)
  PROVE  RowsTypeOK' /\ version'[t] = 1
<1>1. version' \in [Messages -> Nat] /\ version'[t] = 1
  BY DEF InsertTask, TypeOK
<1>2. trail' \in [Messages -> Seq(Event)] /\ lastEvent' \in 0..MaxEvents
  BY <1>1, EventTypes, Recorded DEF InsertTask
<1> QED BY <1>1, <1>2 DEF InsertTask, TypeOK, RowsTypeOK

LEMMA TakeTaskTypes ==
  ASSUME TypeOK, NEW x \in Actors, NEW t \in Messages, TakeTask(x, t)
  PROVE  RowsTypeOK' /\ version'[t] = version[t] + 1
<1>1. version' \in [Messages -> Nat] /\ version'[t] = version[t] + 1
  BY DEF TakeTask, TypeOK
<1>2. trail' \in [Messages -> Seq(Event)] /\ lastEvent' \in 0..MaxEvents
  BY <1>1, EventTypes, Recorded DEF TakeTask
<1> QED BY <1>1, <1>2 DEF TakeTask, TypeOK, RowsTypeOK, Status

LEMMA UnclaimsTypes ==
  ASSUME TypeOK, NEW x \in Actors, NEW t \in Messages, Unclaims(x, t)
  PROVE  RowsTypeOK' /\ version'[t] = version[t] + 1
<1> USE DEF Unclaims, UnclaimTask
<1>1. version' \in [Messages -> Nat] /\ version'[t] = version[t] + 1
  BY DEF TypeOK
<1>2. trail' \in [Messages -> Seq(Event)] /\ lastEvent' \in 0..MaxEvents
  BY <1>1, EventTypes, Recorded
<1> QED BY <1>1, <1>2 DEF TypeOK, RowsTypeOK

LEMMA MovesTypes ==
  ASSUME TypeOK, NEW x \in Actors, NEW t \in Messages, NEW to \in Status, Moves(x, t, to)
  PROVE  RowsTypeOK' /\ version'[t] = version[t] + 1
<1> USE DEF Moves, UpdateTaskStatus
<1>1. version' \in [Messages -> Nat] /\ version'[t] = version[t] + 1
  BY DEF TypeOK
<1>2. trail' \in [Messages -> Seq(Event)] /\ lastEvent' \in 0..MaxEvents
  BY <1>1, EventTypes, Recorded
<1> QED BY <1>1, <1>2 DEF TypeOK, RowsTypeOK

LEMMA PlacesTypes ==
  ASSUME TypeOK, [Next]_vars
  PROVE  /\ home' \in [Messages -> Channels]
         /\ lifecycle' \in [Channels -> {"active", "archived", "deleted"}]
         /\ members' \in [Channels -> SUBSET Actors]
         /\ claimsDue' \subseteq ToolCall
<1> USE DEF TypeOK, places, Actors
<1>1. CASE TaskNext
  BY <1>1 DEF TaskNext, CreateTask, ClaimTask, UnclaimTask, UpdateTaskStatus
<1>2. CASE ToolNext
  <2>1. ASSUME NEW a \in Agents, NEW t \in Messages, ToolCreate(a, t)
        PROVE  claimsDue' \subseteq ToolCall /\ UNCHANGED places
    <3>1. [actor |-> a, task |-> t, fresh |-> ~IsTask(t)] \in ToolCall
      BY DEF ToolCall, IsTask
    <3>2. claimsDue' = claimsDue \cup {[actor |-> a, task |-> t, fresh |-> ~IsTask(t)]}
      BY <2>1 DEF ToolCreate
    <3>3. UNCHANGED places
      BY <2>1 DEF ToolCreate
    <3> HIDE DEF places
    <3> QED BY <3>1, <3>2, <3>3
  <2>2. ASSUME NEW call \in claimsDue, ToolClaim(call) \/ ToolAborted(call)
        PROVE  claimsDue' \subseteq ToolCall /\ UNCHANGED places
    BY <2>2 DEF ToolClaim, ToolAborted
  <2> QED BY <1>2, <2>1, <2>2 DEF ToolNext
<1>3. CASE PlaceNext
  <2>1. ASSUME NEW c \in Channels, ArchiveChannel(c) \/ RestoreChannel(c) \/ DeleteChannel(c)
        PROVE  /\ lifecycle' \in [Channels -> {"active", "archived", "deleted"}]
               /\ members' \in [Channels -> SUBSET Actors]
               /\ UNCHANGED <<home, claimsDue>>
    BY <2>1 DEF ArchiveChannel, RestoreChannel, DeleteChannel
  <2>2. ASSUME NEW a \in Agents, DeleteAgent(a) \/ \E c \in Channels : AddMember(c, a)
        PROVE  members' \in [Channels -> SUBSET Actors] /\ UNCHANGED <<home, lifecycle, claimsDue>>
    <3>1. CASE DeleteAgent(a)
      BY <3>1 DEF DeleteAgent
    <3>2. ASSUME NEW c \in Channels, AddMember(c, a)
          PROVE  members' \in [Channels -> SUBSET Actors] /\ UNCHANGED <<home, lifecycle, claimsDue>>
      BY <3>2 DEF AddMember
    <3> QED BY <2>2, <3>1, <3>2
  <2> QED BY <1>3, <2>1, <2>2 DEF PlaceNext
<1>4. CASE UNCHANGED vars
  BY <1>4 DEF vars
<1> QED BY <1>1, <1>2, <1>3, <1>4 DEF Next

LEMMA StepTypeOK == TypeOK /\ [Next]_vars => TypeOK'
<1> SUFFICES ASSUME TypeOK, [Next]_vars PROVE TypeOK'
  OBVIOUS
<1>1. RowsTypeOK'
  <2>1. CASE UNCHANGED <<home, rows>>
    BY <2>1 DEF TypeOK, RowsTypeOK, rows
  <2> QED
    BY <2>1, StepCases, InsertTaskTypes, TakeTaskTypes, UnclaimsTypes, MovesTypes
<1> QED BY <1>1, PlacesTypes DEF TypeOK, RowsTypeOK

\* Rows, audit trail and pending tool calls are always well typed.
THEOREM TypeCorrect == Spec => []TypeOK
<1>1. QED BY InitTypeOK, StepTypeOK, PTL DEF Spec

-----------------------------------------------------------------------------
(* The audit trail rebuilds the row.                                       *)

\* The columns of a Message without a Task still have their defaults.
Untouched == \A t \in Messages : ~IsTask(t) => status[t] = "todo" /\ assignee[t] = NoActor

Inv1 == TypeOK /\ AuditRebuildsRow /\ Untouched

\* What one more event does to the trail of one Task; the others keep theirs.
Grows(t, e) ==
  /\ \A u \in Messages \ {t} :
       /\ trail'[u] = trail[u] /\ status'[u] = status[u] /\ assignee'[u] = assignee[u]
       /\ version'[u] = version[u] /\ number'[u] = number[u]
  /\ DOMAIN trail'[t] = 1..(version[t] + 1)
  /\ Len(trail'[t]) = version[t] + 1
  /\ \A i \in 1..version[t] : trail'[t][i] = trail[t][i]
  /\ trail'[t][version[t] + 1] = e
  /\ version'[t] = version[t] + 1 /\ version[t] \in Nat
  /\ DOMAIN trail[t] = 1..version[t]
  /\ number'[t] # 0

LEMMA RecordGrows ==
  ASSUME Inv1, NEW t \in Messages, NEW kind, NEW x, NEW to, NEW holder,
         NewEvent(t, kind, x, to, holder) \in Event,
         Record(t, kind, x, to, holder),
         version'[t] = version[t] + 1,
         number'[t] # 0,
         \A u \in Messages \ {t} :
            /\ status'[u] = status[u] /\ assignee'[u] = assignee[u]
            /\ version'[u] = version[u] /\ number'[u] = number[u]
  PROVE  Grows(t, NewEvent(t, kind, x, to, holder))
<1>1. version[t] \in Nat /\ Len(trail[t]) = version[t] /\ TypeOK
  BY DEF Inv1, AuditRebuildsRow, RowRebuilt, TypeOK
<1>2. /\ \A u \in Messages \ {t} : trail'[u] = trail[u]
      /\ Len(trail'[t]) = Len(trail[t]) + 1
      /\ DOMAIN trail[t] = 1..Len(trail[t])
      /\ DOMAIN trail'[t] = 1..(Len(trail[t]) + 1)
      /\ \A i \in DOMAIN trail[t] : trail'[t][i] = trail[t][i]
      /\ trail'[t][Len(trail[t]) + 1] = NewEvent(t, kind, x, to, holder)
  BY <1>1, Recorded
<1> QED BY <1>1, <1>2 DEF Grows

LEMMA InsertTaskGrows ==
  ASSUME Inv1, NEW x \in Actors, NEW t \in Messages, ~IsTask(t), InsertTask(x, t)
  PROVE  /\ Grows(t, NewEvent(t, "created", x, "todo", NoActor))
         /\ version[t] = 0 /\ status' = status /\ assignee' = assignee
<1>1. version[t] = 0 /\ home[t] \in Channels
  BY DEF Inv1, AuditRebuildsRow, RowRebuilt, TypeOK
<1>2. version'[t] = version[t] + 1 /\ number'[t] # 0
  BY <1>1, InsertTaskTypes DEF Inv1, TypeOK, InsertTask
<1>3. NewEvent(t, "created", x, "todo", NoActor) \in Event
  BY <1>1, <1>2, EventTypes
<1> QED BY <1>1, <1>2, <1>3, RecordGrows DEF InsertTask, Inv1, TypeOK

LEMMA TakeTaskGrows ==
  ASSUME Inv1, NEW x \in Actors, NEW t \in Messages, IsTask(t), TakeTask(x, t)
  PROVE  /\ Grows(t, NewEvent(t, "claimed", x, "in_progress", x))
         /\ status'[t] = "in_progress" /\ assignee'[t] = x
<1>1. version'[t] = version[t] + 1 /\ version'[t] \in Nat
  BY TakeTaskTypes DEF Inv1, RowsTypeOK
<1>2. NewEvent(t, "claimed", x, "in_progress", x) \in Event
  BY <1>1, EventTypes
<1> QED BY <1>1, <1>2, RecordGrows DEF TakeTask, Inv1, TypeOK, IsTask

LEMMA UnclaimsGrows ==
  ASSUME Inv1, NEW x \in Actors, NEW t \in Messages, Unclaims(x, t)
  PROVE  /\ Grows(t, NewEvent(t, "unclaimed", x, NoStatus, NoActor))
         /\ IsTask(t) /\ status' = status /\ assignee[t] = x /\ assignee'[t] = NoActor
<1>1. version'[t] = version[t] + 1 /\ version'[t] \in Nat
  BY UnclaimsTypes DEF Inv1, RowsTypeOK
<1>2. NewEvent(t, "unclaimed", x, NoStatus, NoActor) \in Event
  BY <1>1, EventTypes
<1> QED BY <1>1, <1>2, RecordGrows DEF Unclaims, UnclaimTask, Inv1, TypeOK, IsTask

LEMMA MovesGrows ==
  ASSUME Inv1, NEW x \in Actors, NEW t \in Messages, NEW to \in Status, Moves(x, t, to)
  PROVE  /\ Grows(t, NewEvent(t, "status_changed", x, to, NoActor))
         /\ IsTask(t) /\ CanTransition(status[t], to)
         /\ status'[t] = to /\ assignee' = assignee
<1>1. version'[t] = version[t] + 1 /\ version'[t] \in Nat
  BY MovesTypes DEF Inv1, RowsTypeOK
<1>2. NewEvent(t, "status_changed", x, to, NoActor) \in Event
  BY <1>1, EventTypes
<1> QED BY <1>1, <1>2, RecordGrows DEF Moves, UpdateTaskStatus, Inv1, TypeOK, IsTask

\* A status event decides the status, every other event the assignee.
LEMMA GrowsRebuilt ==
  ASSUME Inv1, NEW t \in Messages, NEW e, Grows(t, e), e.version = version[t] + 1,
         e.to = status'[t] \/ (e.to = NoStatus /\ IsTask(t) /\ status'[t] = status[t]),
         \/ e.kind # "status_changed" /\ e.holder = assignee'[t]
         \/ e.kind = "status_changed" /\ IsTask(t) /\ assignee'[t] = assignee[t]
  PROVE  RowRebuilt(t)'
<1> DEFINE last == version[t] + 1
<1>1. version[t] \in Nat /\ last \in DOMAIN trail'[t] /\ trail'[t][last] = e
  BY DEF Grows
<1>2. \A i \in DOMAIN trail[t] : i \in DOMAIN trail'[t] /\ trail'[t][i] = trail[t][i]
  BY DEF Grows
<1>3. \A i \in DOMAIN trail'[t] : i = last \/ (i \in DOMAIN trail[t] /\ i < last)
  BY DEF Grows
<1>4. Len(trail'[t]) = version'[t] /\ IsTask(t)' /\ version'[t] # 0
  BY DEF Grows, IsTask
<1>5. RowRebuilt(t)
  BY DEF Inv1, AuditRebuildsRow
<1> HIDE DEF last
<1>6. \A i \in DOMAIN trail'[t] : trail'[t][i].version = i
  BY <1>1, <1>2, <1>3, <1>5 DEF RowRebuilt, last
<1>7. \E i \in DOMAIN trail'[t] :
        /\ trail'[t][i].to = status'[t]
        /\ \A j \in DOMAIN trail'[t] : j > i => trail'[t][j].to = NoStatus
  <2>1. \A i \in DOMAIN trail'[t] : ~(i > last)
    BY <1>1, <1>3 DEF last, Grows
  <2>2. CASE e.to = status'[t]
    BY <1>1, <2>1, <2>2
  <2>3. CASE e.to = NoStatus /\ IsTask(t) /\ status'[t] = status[t]
    <3>1. PICK i \in DOMAIN trail[t] :
            /\ trail[t][i].to = status[t]
            /\ \A j \in DOMAIN trail[t] : j > i => trail[t][j].to = NoStatus
      BY <1>5, <2>3 DEF RowRebuilt
    <3>2. i \in DOMAIN trail'[t] /\ trail'[t][i].to = status'[t]
      BY <1>1, <1>2, <2>3, <3>1
    <3>3. \A j \in DOMAIN trail'[t] : j > i => trail'[t][j].to = NoStatus
      BY <1>1, <1>2, <1>3, <2>3, <3>1
    <3> QED BY <3>2, <3>3
  <2> QED BY <2>2, <2>3
<1>8. \E i \in DOMAIN trail'[t] :
        /\ trail'[t][i].kind # "status_changed" /\ trail'[t][i].holder = assignee'[t]
        /\ \A j \in DOMAIN trail'[t] : j > i => trail'[t][j].kind = "status_changed"
  <2>1. \A i \in DOMAIN trail'[t] : ~(i > last)
    BY <1>1, <1>3 DEF last, Grows
  <2>2. CASE e.kind # "status_changed" /\ e.holder = assignee'[t]
    BY <1>1, <2>1, <2>2
  <2>3. CASE e.kind = "status_changed" /\ IsTask(t) /\ assignee'[t] = assignee[t]
    <3>1. PICK i \in DOMAIN trail[t] :
            /\ trail[t][i].kind # "status_changed" /\ trail[t][i].holder = assignee[t]
            /\ \A j \in DOMAIN trail[t] : j > i => trail[t][j].kind = "status_changed"
      BY <1>5, <2>3 DEF RowRebuilt
    <3>2. i \in DOMAIN trail'[t] /\ trail'[t][i].kind # "status_changed"
          /\ trail'[t][i].holder = assignee'[t]
      BY <1>1, <1>2, <2>3, <3>1
    <3>3. \A j \in DOMAIN trail'[t] : j > i => trail'[t][j].kind = "status_changed"
      BY <1>1, <1>2, <1>3, <2>3, <3>1
    <3> QED BY <3>2, <3>3
  <2> QED BY <2>2, <2>3
<1> QED BY <1>4, <1>6, <1>7, <1>8 DEF RowRebuilt

LEMMA GrowsKeepsOthers ==
  ASSUME Inv1, NEW t \in Messages, NEW e, Grows(t, e), RowRebuilt(t)'
  PROVE  AuditRebuildsRow'
<1>1. ASSUME NEW u \in Messages \ {t} PROVE RowRebuilt(u)'
  <2>1. /\ trail'[u] = trail[u] /\ status'[u] = status[u] /\ assignee'[u] = assignee[u]
        /\ version'[u] = version[u] /\ number'[u] = number[u]
    BY DEF Grows
  <2>2. RowRebuilt(u)
    BY DEF Inv1, AuditRebuildsRow
  <2> QED BY <2>1, <2>2 DEF RowRebuilt, IsTask
<1> QED BY <1>1 DEF AuditRebuildsRow

LEMMA InitAudit == Init => AuditRebuildsRow
  BY DEF Init, AuditRebuildsRow, RowRebuilt, IsTask

LEMMA StepAudit == Inv1 /\ [Next]_vars => AuditRebuildsRow'
<1> SUFFICES ASSUME Inv1, [Next]_vars PROVE AuditRebuildsRow'
  OBVIOUS
<1>0. TypeOK
  BY DEF Inv1
<1>1. ASSUME NEW x \in Actors, NEW t \in Messages, ~IsTask(t), InsertTask(x, t)
      PROVE AuditRebuildsRow'
  <2> DEFINE e == NewEvent(t, "created", x, "todo", NoActor)
  <2>1. Grows(t, e) /\ version[t] = 0 /\ status' = status /\ assignee' = assignee
    BY <1>1, InsertTaskGrows
  <2>2. status[t] = "todo" /\ assignee[t] = NoActor
    BY <1>1 DEF Inv1, Untouched
  <2>3. e.version = version[t] + 1 /\ e.to = status'[t]
        /\ e.kind # "status_changed" /\ e.holder = assignee'[t]
    BY <2>1, <2>2 DEF NewEvent, Grows
  <2> HIDE DEF e
  <2> QED BY <2>1, <2>3, GrowsRebuilt, GrowsKeepsOthers
<1>2. ASSUME NEW x \in Actors, NEW t \in Messages, IsTask(t), TakeTask(x, t)
      PROVE AuditRebuildsRow'
  <2> DEFINE e == NewEvent(t, "claimed", x, "in_progress", x)
  <2>1. Grows(t, e) /\ e.version = version[t] + 1 /\ e.to = status'[t]
        /\ e.kind # "status_changed" /\ e.holder = assignee'[t]
    BY <1>2, TakeTaskGrows DEF NewEvent, Grows
  <2> HIDE DEF e
  <2> QED BY <2>1, GrowsRebuilt, GrowsKeepsOthers
<1>3. ASSUME NEW x \in Actors, NEW t \in Messages, Unclaims(x, t)
      PROVE AuditRebuildsRow'
  <2> DEFINE e == NewEvent(t, "unclaimed", x, NoStatus, NoActor)
  <2>1. Grows(t, e) /\ IsTask(t) /\ status' = status /\ assignee'[t] = NoActor
    BY <1>3, UnclaimsGrows
  <2>2. e.version = version[t] + 1 /\ e.to = NoStatus
        /\ e.kind # "status_changed" /\ e.holder = NoActor
    BY <2>1 DEF NewEvent, Grows
  <2> HIDE DEF e
  <2> QED BY <2>1, <2>2, GrowsRebuilt, GrowsKeepsOthers
<1>4. ASSUME NEW x \in Actors, NEW t \in Messages, NEW to \in Status, Moves(x, t, to)
      PROVE AuditRebuildsRow'
  <2> DEFINE e == NewEvent(t, "status_changed", x, to, NoActor)
  <2>1. Grows(t, e) /\ e.version = version[t] + 1 /\ e.to = status'[t]
        /\ IsTask(t) /\ e.kind = "status_changed" /\ assignee'[t] = assignee[t]
    BY <1>4, MovesGrows DEF NewEvent, Grows
  <2> HIDE DEF e
  <2> QED BY <2>1, GrowsRebuilt, GrowsKeepsOthers
<1>5. CASE UNCHANGED rows
  BY <1>5 DEF Inv1, AuditRebuildsRow, RowRebuilt, IsTask, rows
<1> QED BY <1>0, <1>1, <1>2, <1>3, <1>4, <1>5, StepCases DEF Claimable

LEMMA StepUntouched == Inv1 /\ [Next]_vars => Untouched'
<1> SUFFICES ASSUME Inv1, [Next]_vars PROVE Untouched'
  OBVIOUS
<1>0. TypeOK
  BY DEF Inv1
<1>1. ASSUME NEW t \in Messages, NEW e, Grows(t, e) PROVE Untouched'
  BY <1>1 DEF Inv1, Untouched, Grows, IsTask
<1>2. CASE UNCHANGED rows
  BY <1>2 DEF Inv1, Untouched, IsTask, rows
<1> QED
  BY <1>0, <1>1, <1>2, StepCases, InsertTaskGrows, TakeTaskGrows, UnclaimsGrows, MovesGrows
  DEF Claimable

LEMMA InitInv1 == Init => Inv1
<1>1. Init => Untouched
  BY DEF Init, Untouched
<1> QED BY <1>1, InitTypeOK, InitAudit DEF Inv1

LEMMA StepInv1 == Inv1 /\ [Next]_vars => Inv1'
  BY StepTypeOK, StepAudit, StepUntouched DEF Inv1

\* The audit trail rebuilds status, assignee and version of every Task.
THEOREM AuditRebuilds == Spec => []AuditRebuildsRow
<1>1. QED BY InitInv1, StepInv1, PTL DEF Spec, Inv1

-----------------------------------------------------------------------------
(* Concurrent claims have one winner.                                      *)

Released(t, i) ==
  \E k \in DOMAIN trail[t] :
     i < k /\ trail[t][k].kind = "unclaimed" /\ trail[t][k].actor = trail[t][i].actor

\* Whoever won a claim and did not let go is the assignee.
HolderKept ==
  \A t \in Messages : \A i \in DOMAIN trail[t] :
     trail[t][i].kind = "claimed" => Released(t, i) \/ assignee[t] = trail[t][i].actor

Inv2 == Inv1 /\ HolderKept /\ OneWinner

LEMMA InitInv2 == Init => Inv2
<1>1. Init => HolderKept /\ OneWinner
  BY DEF Init, HolderKept, OneWinner
<1> QED BY <1>1, InitInv1 DEF Inv2

LEMMA EventActors ==
  ASSUME TypeOK, NEW t \in Messages, NEW i \in DOMAIN trail[t]
  PROVE  trail[t][i].actor # NoActor
<1>1. trail[t] \in Seq(Event)
  BY DEF TypeOK
<1>2. trail[t][i] \in Event
  BY <1>1
<1> QED BY <1>2 DEF Event

\* One more event keeps HolderKept if it fits what the row becomes.
LEMMA GrowsHolderKept ==
  ASSUME Inv2, NEW t \in Messages, NEW e, Grows(t, e),
         \/ e.kind = "claimed" /\ assignee[t] = NoActor /\ assignee'[t] = e.actor
         \/ e.kind = "unclaimed" /\ e.actor = assignee[t]
         \/ e.kind \notin {"claimed", "unclaimed"} /\ assignee'[t] = assignee[t]
  PROVE  HolderKept'
<1> DEFINE last == version[t] + 1
<1>1. last \in DOMAIN trail'[t] /\ trail'[t][last] = e
  BY DEF Grows
<1>2. \A i \in DOMAIN trail[t] : i \in DOMAIN trail'[t] /\ trail'[t][i] = trail[t][i] /\ i < last
  BY DEF Grows
<1>3. \A i \in DOMAIN trail'[t] : i = last \/ i \in DOMAIN trail[t]
  BY DEF Grows
<1>4. \A i \in DOMAIN trail[t] : Released(t, i) => Released(t, i)'
  BY <1>2 DEF Released
<1>5. \A i \in DOMAIN trail[t] :
        trail[t][i].kind = "claimed" => Released(t, i) \/ assignee[t] = trail[t][i].actor
  BY DEF Inv2, HolderKept
<1>6. \A i \in DOMAIN trail[t] : trail[t][i].kind = "claimed" => trail[t][i].actor # NoActor
  BY EventActors DEF Inv2, Inv1
<1> HIDE DEF last
<1>7. ASSUME NEW i \in DOMAIN trail'[t], trail'[t][i].kind = "claimed"
      PROVE  Released(t, i)' \/ assignee'[t] = trail'[t][i].actor
  <2>1. CASE i = last
    BY <1>1, <1>7, <2>1
  <2>2. CASE i \in DOMAIN trail[t]
    <3>1. CASE Released(t, i)
      BY <1>4, <2>2, <3>1
    <3>2. CASE ~Released(t, i)
      <4>1. assignee[t] = trail[t][i].actor /\ assignee[t] # NoActor
        BY <1>2, <1>5, <1>6, <1>7, <2>2, <3>2
      <4>2. CASE e.kind = "unclaimed" /\ e.actor = assignee[t]
        BY <1>1, <1>2, <2>2, <4>1, <4>2 DEF Released
      <4> QED BY <1>2, <2>2, <4>1, <4>2
    <3> QED BY <3>1, <3>2
  <2> QED BY <1>3, <2>1, <2>2
<1>8. ASSUME NEW u \in Messages \ {t}, NEW i \in DOMAIN trail'[u], trail'[u][i].kind = "claimed"
      PROVE  Released(u, i)' \/ assignee'[u] = trail'[u][i].actor
  <2>1. trail'[u] = trail[u] /\ assignee'[u] = assignee[u]
    BY DEF Grows
  <2> QED BY <1>8, <2>1 DEF Inv2, HolderKept, Released
<1> QED BY <1>7, <1>8 DEF HolderKept

\* A new claim finds every earlier winner gone.
LEMMA GrowsOneWinner ==
  ASSUME Inv2, NEW t \in Messages, NEW e, Grows(t, e),
         e.kind = "claimed" => assignee[t] = NoActor
  PROVE  OneWinner'
<1> DEFINE last == version[t] + 1
<1>1. last \in DOMAIN trail'[t] /\ trail'[t][last] = e
  BY DEF Grows
<1>2. \A i \in DOMAIN trail[t] : i \in DOMAIN trail'[t] /\ trail'[t][i] = trail[t][i] /\ i < last
  BY DEF Grows
<1>3. \A i \in DOMAIN trail'[t] : i = last \/ i \in DOMAIN trail[t]
  BY DEF Grows
<1>4. \A i \in DOMAIN trail[t] : trail[t][i].kind = "claimed" /\ e.kind = "claimed" => Released(t, i)
  BY EventActors DEF Inv2, HolderKept, Inv1
<1>5. \A i, j \in DOMAIN trail'[t] : i < j => i \in DOMAIN trail[t]
  BY DEF Grows
<1> HIDE DEF last
<1>6. ASSUME NEW i \in DOMAIN trail'[t], NEW j \in DOMAIN trail'[t], i < j,
             trail'[t][i].kind = "claimed", trail'[t][j].kind = "claimed"
      PROVE  \E k \in DOMAIN trail'[t] :
               /\ i < k /\ k < j
               /\ trail'[t][k].kind = "unclaimed" /\ trail'[t][k].actor = trail'[t][i].actor
  <2>1. i \in DOMAIN trail[t] /\ trail[t][i].kind = "claimed"
    BY <1>2, <1>5, <1>6
  <2>2. CASE j = last
    BY <1>1, <1>2, <1>4, <1>6, <2>1, <2>2 DEF Released
  <2>3. CASE j \in DOMAIN trail[t]
    BY <1>2, <1>6, <2>1, <2>3 DEF Inv2, OneWinner
  <2> QED BY <1>3, <2>2, <2>3
<1>7. ASSUME NEW u \in Messages \ {t} PROVE trail'[u] = trail[u]
  BY DEF Grows
<1> QED BY <1>6, <1>7 DEF Inv2, OneWinner

LEMMA StepInv2 == Inv2 /\ [Next]_vars => Inv2'
<1> SUFFICES ASSUME Inv2, [Next]_vars PROVE Inv2'
  OBVIOUS
<1>0. TypeOK /\ Inv1
  BY DEF Inv2, Inv1
<1>1. ASSUME NEW x \in Actors, NEW t \in Messages, ~IsTask(t), InsertTask(x, t)
      PROVE HolderKept' /\ OneWinner'
  <2> DEFINE e == NewEvent(t, "created", x, "todo", NoActor)
  <2>1. Grows(t, e) /\ assignee'[t] = assignee[t]
    BY <1>0, <1>1, InsertTaskGrows
  <2>2. e.kind = "created"
    BY DEF NewEvent
  <2> HIDE DEF e
  <2> QED BY <2>1, <2>2, GrowsHolderKept, GrowsOneWinner
<1>2. ASSUME NEW x \in Actors, NEW t \in Messages, Claimable(x, t), TakeTask(x, t)
      PROVE HolderKept' /\ OneWinner'
  <2> DEFINE e == NewEvent(t, "claimed", x, "in_progress", x)
  <2>1. Grows(t, e) /\ assignee[t] = NoActor /\ assignee'[t] = x
    BY <1>0, <1>2, TakeTaskGrows DEF Claimable
  <2>2. e.kind = "claimed" /\ e.actor = x
    BY DEF NewEvent
  <2> HIDE DEF e
  <2> QED BY <2>1, <2>2, GrowsHolderKept, GrowsOneWinner
<1>3. ASSUME NEW x \in Actors, NEW t \in Messages, Unclaims(x, t)
      PROVE HolderKept' /\ OneWinner'
  <2> DEFINE e == NewEvent(t, "unclaimed", x, NoStatus, NoActor)
  <2>1. Grows(t, e) /\ assignee[t] = x
    BY <1>0, <1>3, UnclaimsGrows
  <2>2. e.kind = "unclaimed" /\ e.actor = x
    BY DEF NewEvent
  <2> HIDE DEF e
  <2> QED BY <2>1, <2>2, GrowsHolderKept, GrowsOneWinner
<1>4. ASSUME NEW x \in Actors, NEW t \in Messages, NEW to \in Status, Moves(x, t, to)
      PROVE HolderKept' /\ OneWinner'
  <2> DEFINE e == NewEvent(t, "status_changed", x, to, NoActor)
  <2>1. Grows(t, e) /\ assignee'[t] = assignee[t]
    BY <1>0, <1>4, MovesGrows
  <2>2. e.kind = "status_changed"
    BY DEF NewEvent
  <2> HIDE DEF e
  <2> QED BY <2>1, <2>2, GrowsHolderKept, GrowsOneWinner
<1>5. ASSUME UNCHANGED rows PROVE HolderKept' /\ OneWinner'
  <2>1. trail' = trail /\ assignee' = assignee
    BY <1>5 DEF rows
  <2>2. HolderKept'
    BY <2>1 DEF Inv2, HolderKept, Released
  <2>3. OneWinner'
    BY <2>1 DEF Inv2, OneWinner
  <2> QED BY <2>2, <2>3
<1>6. HolderKept' /\ OneWinner'
  BY <1>0, <1>1, <1>2, <1>3, <1>4, <1>5, StepCases
<1> QED BY <1>0, <1>6, StepInv1 DEF Inv2

\* However claims interleave, one actor at a time wins the Task.
THEOREM ClaimsHaveOneWinner == Spec => []OneWinner
<1>1. QED BY InitInv2, StepInv2, PTL DEF Spec, Inv2

-----------------------------------------------------------------------------
(* The lifecycle.                                                          *)

Inv3 == Inv1 /\ AuditFollowsLifecycle

\* Only the last status on the trail, which is the row's, can precede the new one.
LEMMA GrowsLifecycle ==
  ASSUME Inv3, NEW t \in Messages, NEW e, Grows(t, e),
         e.to = NoStatus \/ version[t] = 0 \/ status[t] = e.to \/ CanTransition(status[t], e.to)
  PROVE  AuditFollowsLifecycle'
<1> DEFINE last == version[t] + 1
<1>1. last \in DOMAIN trail'[t] /\ trail'[t][last] = e /\ last \in Nat
  BY DEF Grows
<1>2. \A i \in DOMAIN trail[t] : i \in DOMAIN trail'[t] /\ trail'[t][i] = trail[t][i]
                                /\ i < last /\ i \in Nat
  BY DEF Grows
<1>3. \A i \in DOMAIN trail'[t] : i = last \/ i \in DOMAIN trail[t]
  BY DEF Grows
<1>4. \A i, j \in DOMAIN trail'[t] : i < j => i \in DOMAIN trail[t] /\ version[t] # 0
  BY DEF Grows
<1>5. version[t] # 0 => \E i \in DOMAIN trail[t] :
                          /\ trail[t][i].to = status[t]
                          /\ \A j \in DOMAIN trail[t] : j > i => trail[t][j].to = NoStatus
  BY DEF Inv3, Inv1, AuditRebuildsRow, RowRebuilt
<1>6. status[t] # NoStatus
  BY DEF Inv3, Inv1, TypeOK
<1> HIDE DEF last
<1>7. ASSUME NEW i \in DOMAIN trail'[t], NEW j \in DOMAIN trail'[t], i < j,
             trail'[t][i].to # NoStatus, trail'[t][j].to # NoStatus,
             \A k \in DOMAIN trail'[t] : i < k /\ k < j => trail'[t][k].to = NoStatus
      PROVE  \/ trail'[t][i].to = trail'[t][j].to
             \/ CanTransition(trail'[t][i].to, trail'[t][j].to)
  <2>1. i \in DOMAIN trail[t] /\ version[t] # 0
    BY <1>4, <1>7
  <2>2. CASE j = last
    <3>1. PICK p \in DOMAIN trail[t] :
                /\ trail[t][p].to = status[t]
                /\ \A k \in DOMAIN trail[t] : k > p => trail[t][k].to = NoStatus
      BY <1>5, <2>1
    <3>2. ~(i > p)
      BY <1>2, <1>7, <2>1, <3>1
    <3>3. ~(i < p)
      BY <1>2, <1>6, <1>7, <2>2, <3>1
    <3>4. i = p
      BY <1>2, <2>1, <3>2, <3>3
    <3>5. trail'[t][i].to = status[t] /\ trail'[t][j] = e
      BY <1>1, <1>2, <2>1, <2>2, <3>1, <3>4
    <3> QED BY <1>7, <2>1, <3>5
  <2>3. CASE j \in DOMAIN trail[t]
    BY <1>2, <1>7, <2>1, <2>3 DEF Inv3, AuditFollowsLifecycle
  <2> QED BY <1>3, <2>2, <2>3
<1>8. ASSUME NEW u \in Messages \ {t} PROVE trail'[u] = trail[u]
  BY DEF Grows
<1> QED BY <1>7, <1>8 DEF Inv3, AuditFollowsLifecycle

LEMMA StepLifecycle == Inv3 /\ [Next]_vars => Inv3'
<1> SUFFICES ASSUME Inv3, [Next]_vars PROVE Inv3'
  OBVIOUS
<1>0. TypeOK /\ Inv1
  BY DEF Inv3, Inv1
<1>1. ASSUME NEW x \in Actors, NEW t \in Messages, ~IsTask(t), InsertTask(x, t)
      PROVE AuditFollowsLifecycle'
  BY <1>0, <1>1, InsertTaskGrows, GrowsLifecycle
<1>2. ASSUME NEW x \in Actors, NEW t \in Messages, Claimable(x, t), TakeTask(x, t)
      PROVE AuditFollowsLifecycle'
  <2> DEFINE e == NewEvent(t, "claimed", x, "in_progress", x)
  <2>1. Grows(t, e)
    BY <1>0, <1>2, TakeTaskGrows DEF Claimable
  <2>2. e.to = "in_progress"
    BY DEF NewEvent
  <2>3. status[t] = "in_progress" \/ CanTransition(status[t], "in_progress")
    BY <1>0, <1>2 DEF Claimable, TypeOK, Status, CanTransition
  <2> HIDE DEF e
  <2> QED BY <2>1, <2>2, <2>3, GrowsLifecycle
<1>3. ASSUME NEW x \in Actors, NEW t \in Messages, Unclaims(x, t)
      PROVE AuditFollowsLifecycle'
  <2> DEFINE e == NewEvent(t, "unclaimed", x, NoStatus, NoActor)
  <2>1. Grows(t, e) /\ e.to = NoStatus
    BY <1>0, <1>3, UnclaimsGrows DEF NewEvent
  <2> HIDE DEF e
  <2> QED BY <2>1, GrowsLifecycle
<1>4. ASSUME NEW x \in Actors, NEW t \in Messages, NEW to \in Status, Moves(x, t, to)
      PROVE AuditFollowsLifecycle'
  <2> DEFINE e == NewEvent(t, "status_changed", x, to, NoActor)
  <2>1. Grows(t, e) /\ CanTransition(status[t], to)
    BY <1>0, <1>4, MovesGrows
  <2>2. e.to = to
    BY DEF NewEvent
  <2> HIDE DEF e
  <2> QED BY <2>1, <2>2, GrowsLifecycle
<1>5. ASSUME UNCHANGED rows PROVE AuditFollowsLifecycle'
  BY <1>5 DEF Inv3, AuditFollowsLifecycle, rows
<1>6. AuditFollowsLifecycle'
  BY <1>0, <1>1, <1>2, <1>3, <1>4, <1>5, StepCases
<1> QED BY <1>0, <1>6, StepInv1 DEF Inv3

\* Successive statuses of a Task are joined by an edge, claims included.
THEOREM LifecycleFollowed == Spec => []AuditFollowsLifecycle
<1>1. Init => AuditFollowsLifecycle
  BY DEF Init, AuditFollowsLifecycle
<1>2. Init => Inv3
  BY <1>1, InitInv1 DEF Inv3
<1> QED BY <1>2, StepLifecycle, PTL DEF Spec, Inv3

-----------------------------------------------------------------------------
(* Task numbers.                                                           *)

LEMMA StepNumbers == TypeOK /\ NumbersDense /\ [Next]_vars => NumbersDense'
<1> SUFFICES ASSUME TypeOK, NumbersDense, [Next]_vars PROVE NumbersDense'
  OBVIOUS
<1> DEFINE T(c) == {u \in Messages : home[u] = c /\ IsTask(u)}
<1>1. ASSUME home' = home, number' = number, nextNumber' = nextNumber PROVE NumbersDense'
  BY <1>1 DEF NumbersDense, IsTask
<1>2. ASSUME NEW x \in Actors, NEW t \in Messages, home' = home, ~IsTask(t), InsertTask(x, t)
      PROVE NumbersDense'
  <2> DEFINE n == nextNumber[home[t]]
  <2>1. home[t] \in Channels /\ n \in Nat \ {0}
    BY DEF TypeOK
  <2>2. number' = [number EXCEPT ![t] = n] /\ nextNumber' = [nextNumber EXCEPT ![home[t]] = n + 1]
    BY <1>2 DEF InsertTask
  <2>3. number'[t] = n /\ \A u \in Messages \ {t} : number'[u] = number[u]
    BY <2>2 DEF TypeOK
  <2>4. nextNumber'[home[t]] = n + 1
        /\ \A c \in Channels \ {home[t]} : nextNumber'[c] = nextNumber[c]
    BY <2>1, <2>2 DEF TypeOK
  <2> HIDE DEF n
  <2>5. SUFFICES ASSUME NEW c \in Channels
                 PROVE  /\ {number'[u] : u \in T(c)'} = 1..(nextNumber'[c] - 1)
                        /\ \A u, v \in T(c)' : number'[u] = number'[v] => u = v
    BY DEF NumbersDense
  <2>6. /\ {number[u] : u \in T(c)} = 1..(nextNumber[c] - 1)
        /\ \A u, v \in T(c) : number[u] = number[v] => u = v
    BY DEF NumbersDense
  <2>7. CASE c # home[t]
    <3>1. T(c)' = T(c) /\ \A u \in T(c) : number'[u] = number[u]
      BY <1>2, <2>3, <2>7 DEF IsTask
    <3> QED BY <2>4, <2>6, <2>7, <3>1
  <2>8. CASE c = home[t]
    <3>1. T(c)' = T(c) \cup {t} /\ t \notin T(c) /\ \A u \in T(c) : number'[u] = number[u]
      BY <1>2, <2>1, <2>3, <2>8 DEF IsTask
    <3>2. nextNumber[c] = n /\ nextNumber'[c] = n + 1
      BY <2>4, <2>8 DEF n
    <3>3. {number'[u] : u \in T(c)'} = {number[u] : u \in T(c)} \cup {n}
      BY <2>3, <3>1
    <3>4. {number'[u] : u \in T(c)'} = 1..(nextNumber'[c] - 1)
      BY <2>1, <2>6, <3>2, <3>3
    <3>5. \A u \in T(c) : number[u] # n
      BY <2>1, <2>6, <3>2
    <3> QED BY <2>3, <2>6, <3>1, <3>4, <3>5
  <2> QED BY <2>7, <2>8
<1>3. ASSUME NEW x \in Actors, NEW t \in Messages, home' = home,
             \/ TakeTask(x, t) \/ Unclaims(x, t) \/ \E to \in Status : Moves(x, t, to)
      PROVE NumbersDense'
  BY <1>1, <1>3 DEF TakeTask, Unclaims, UnclaimTask, Moves, UpdateTaskStatus
<1> QED BY <1>1, <1>2, <1>3, StepCases DEF rows

\* Task numbers of one Channel are dense and unique.
THEOREM NumbersAreDense == Spec => []NumbersDense
<1>1. Init => NumbersDense
  BY DEF Init, NumbersDense, IsTask
<1> QED BY <1>1, InitTypeOK, StepTypeOK, StepNumbers, PTL DEF Spec
=============================================================================
