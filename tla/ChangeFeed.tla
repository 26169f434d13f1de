----------------------------- MODULE ChangeFeed -----------------------------
(***************************************************************************)
(* The change ledger of collab-core (changefeed.rs), the event-stream loop *)
(* that serves it (serveCollabEvents in remote.ts), and the EventSource    *)
(* client with its snapshot reload (events.ts, bootstrap and resync in     *)
(* store.ts).                                                              *)
(*                                                                         *)
(* The host is one event loop: code between two awaits is one step, and a  *)
(* core call is issued, committed and answered in separate steps.          *)
(*                                                                         *)
(* Data left out: what a change is about and its time stamp (only whether  *)
(* it is addressed to the viewer, whom the host fixes when it starts, and  *)
(* its sequence), and what a tab does with a frame (module ClientStore).   *)
(***************************************************************************)
EXTENDS Integers, FiniteSets, Sequences

CONSTANTS
  Tabs,       \* browser tabs of the viewer
  NoCursor,   \* no snapshot in hand
  PageLimit,  \* listChanges returns at most this many changes
  MaxSeq,     \* bound: changes ever committed
  MaxFaults   \* bound: dropped connections, host restarts and failed reloads

ASSUME NoCursorAssumption == NoCursor \notin Nat
ASSUME PageLimitAssumption == PageLimit \in Nat \ {0}
ASSUME MaxSeqAssumption == MaxSeq \in Nat
ASSUME MaxFaultsAssumption == MaxFaults \in Nat

VARIABLES
  lastSeq,      \* change_events: AUTOINCREMENT high-water mark
  mine,         \* change_recipients: changes addressed to the viewer
  floor,        \* collab_meta.change_retention_floor
  unpublished,  \* committed calls whose publishChange is still to run
  stream,       \* serveCollabEvents: where its loop stands for each tab
  cursor,       \* its cursor
  waiter,       \* its prepared wait
  page,         \* changes it has still to write
  wire,         \* frames on the connection, in order
  phase,        \* what the store of the tab is doing
  snapshot,     \* the cursor of a snapshot whose reload is not over
  source,       \* the EventSource: its ready state
  url,          \* the cursor in its URL
  lastEventId,  \* its last event id, 0 when it has none
  faults

ledger == <<lastSeq, mine, floor>>
server == <<stream, cursor, waiter, page>>
client == <<phase, snapshot, source, url, lastEventId>>
vars == <<ledger, unpublished, server, wire, client, faults>>

Seqs == 1..MaxSeq
Frame == [event : {"change"}, id : Seqs] \cup [event : {"resync_required"}, id : {0}]

TypeOK ==
  /\ lastSeq \in 0..MaxSeq /\ mine \subseteq 1..lastSeq /\ floor \in 0..lastSeq
  /\ unpublished \in 0..MaxSeq
  /\ stream \in [Tabs -> {"none", "round", "listing", "listed", "refused", "waiting"}]
  /\ cursor \in [Tabs -> 0..MaxSeq]
  /\ waiter \in [Tabs -> {"none", "armed", "change"}]
  /\ page \in [Tabs -> SUBSET Seqs]
  /\ wire \in [Tabs -> Seq(Frame)]
  /\ phase \in [Tabs -> {"boot", "resync", "live", "down"}]
  /\ snapshot \in [Tabs -> 0..MaxSeq \cup {NoCursor}]
  /\ source \in [Tabs -> {"closed", "connecting", "open"}]
  /\ url \in [Tabs -> 0..MaxSeq]
  /\ lastEventId \in [Tabs -> 0..MaxSeq]
  /\ faults \in 0..MaxFaults

Init ==
  /\ lastSeq = 0 /\ mine = {} /\ floor = 0 /\ unpublished = 0
  /\ stream = [t \in Tabs |-> "none"]
  /\ cursor = [t \in Tabs |-> 0]
  /\ waiter = [t \in Tabs |-> "none"]
  /\ page = [t \in Tabs |-> {}]
  /\ wire = [t \in Tabs |-> <<>>]
  /\ phase = [t \in Tabs |-> "boot"]
  /\ snapshot = [t \in Tabs |-> NoCursor]
  /\ source = [t \in Tabs |-> "closed"]
  /\ url = [t \in Tabs |-> 0]
  /\ lastEventId = [t \in Tabs |-> 0]
  /\ faults = 0

-----------------------------------------------------------------------------
(* The ledger.                                                             *)

\* Mutant: an empty ledger is at zero, whatever was pruned.
LatestUnfloored == IF lastSeq > floor THEN lastSeq ELSE 0

\* latest_change_seq: the newest retained row, never below the floor.
Latest == IF lastSeq > floor THEN lastSeq ELSE floor

\* Any core call that appends a change; the host publishes it afterwards.
Commit ==
  /\ lastSeq < MaxSeq
  /\ lastSeq' = lastSeq + 1
  /\ mine' \in {mine, mine \cup {lastSeq'}}
  /\ unpublished' = unpublished + 1
  /\ UNCHANGED <<floor, server, wire, client, faults>>

\* publishChange wakes every wait that is registered at that moment.
Publish ==
  /\ unpublished > 0
  /\ unpublished' = unpublished - 1
  /\ waiter' = [t \in Tabs |-> IF waiter[t] = "armed" THEN "change" ELSE waiter[t]]
  /\ UNCHANGED <<ledger, stream, cursor, page, wire, client, faults>>

\* prune_changes_before deletes a prefix: up to the last row when none is
\* young enough, and up to any row before that, whatever the clock did.
Prune ==
  /\ \E through \in Seqs :
       /\ floor < through /\ through <= Latest
       /\ floor' = through
  /\ UNCHANGED <<lastSeq, mine, unpublished, server, wire, client, faults>>

\* changes_after: the first PageLimit rows of the viewer beyond a cursor.
ChangesAfter(c) ==
  LET after == {n \in mine : c < n /\ floor < n}
  IN {n \in after : Cardinality({m \in after : m < n}) < PageLimit}

\* Mutant: the floor itself is taken for pruned.
InRangeStrict(c) == floor < c /\ c <= Latest

\* list_changes refuses a cursor outside what it can replay.
InRange(c) == floor <= c /\ c <= Latest

-----------------------------------------------------------------------------
(* serveCollabEvents.                                                      *)

\* Mutant: the wait is not registered before the ledger is read.
BeginRoundUnarmed(t) ==
  /\ stream[t] = "round"
  /\ stream' = [stream EXCEPT ![t] = "listing"]
  /\ UNCHANGED <<ledger, unpublished, cursor, waiter, page, wire, client, faults>>

\* One round of the loop: prepareWait, then listChanges is issued.
BeginRound(t) ==
  /\ stream[t] = "round"
  /\ waiter' = [waiter EXCEPT ![t] = "armed"]
  /\ stream' = [stream EXCEPT ![t] = "listing"]
  /\ UNCHANGED <<ledger, unpublished, cursor, page, wire, client, faults>>

\* Mutant: a cursor below the floor is answered with what is left.
ListChangesUnchecked(t) ==
  /\ stream[t] = "listing"
  /\ stream' = [stream EXCEPT ![t] = "listed"]
  /\ page' = [page EXCEPT ![t] = ChangesAfter(cursor[t])]
  /\ UNCHANGED <<ledger, unpublished, cursor, waiter, wire, client, faults>>

\* list_changes commits.
ListChanges(t) ==
  /\ stream[t] = "listing"
  /\ IF InRange(cursor[t])
     THEN /\ stream' = [stream EXCEPT ![t] = "listed"]
          /\ page' = [page EXCEPT ![t] = ChangesAfter(cursor[t])]
     ELSE /\ stream' = [stream EXCEPT ![t] = "refused"]
          /\ UNCHANGED page
  /\ UNCHANGED <<ledger, unpublished, cursor, waiter, wire, client, faults>>

\* A refused cursor ends the stream with its last frame.
WriteResync(t) ==
  /\ stream[t] = "refused"
  /\ wire' = [wire EXCEPT ![t] = Append(@, [event |-> "resync_required", id |-> 0])]
  /\ waiter' = [waiter EXCEPT ![t] = "none"]
  /\ stream' = [stream EXCEPT ![t] = "none"]
  /\ UNCHANGED <<ledger, unpublished, cursor, page, client, faults>>

\* The changes of the page are written one by one, in order; the last one
\* leads to the next round.
WriteChange(t) ==
  /\ stream[t] = "listed"
  /\ \E n \in page[t] :
       /\ \A m \in page[t] : n <= m
       /\ cursor' = [cursor EXCEPT ![t] = n]
       /\ wire' = [wire EXCEPT ![t] = Append(@, [event |-> "change", id |-> n])]
       /\ page' = [page EXCEPT ![t] = @ \ {n}]
       /\ stream' = [stream EXCEPT ![t] = IF page[t] = {n} THEN "round" ELSE @]
  /\ waiter' = [waiter EXCEPT ![t] = "none"]
  /\ UNCHANGED <<ledger, unpublished, client, faults>>

\* An empty page is waited out.
Wait(t) ==
  /\ stream[t] = "listed" /\ page[t] = {}
  /\ stream' = [stream EXCEPT ![t] = "waiting"]
  /\ UNCHANGED <<ledger, unpublished, cursor, waiter, page, wire, client, faults>>

Woken(t) ==
  /\ stream[t] = "waiting" /\ waiter[t] = "change"
  /\ waiter' = [waiter EXCEPT ![t] = "none"]
  /\ stream' = [stream EXCEPT ![t] = "round"]
  /\ UNCHANGED <<ledger, unpublished, cursor, page, wire, client, faults>>

Heartbeat(t) ==
  /\ stream[t] = "waiting" /\ waiter[t] = "armed"
  /\ waiter' = [waiter EXCEPT ![t] = "none"]
  /\ stream' = [stream EXCEPT ![t] = "round"]
  /\ UNCHANGED <<ledger, unpublished, cursor, page, wire, client, faults>>

-----------------------------------------------------------------------------
(* The tab.                                                                *)

\* The client reads a snapshot, and its cursor in the same transaction.
TakeSnapshot(t) ==
  /\ phase[t] \in {"boot", "resync"} /\ snapshot[t] = NoCursor
  /\ snapshot' = [snapshot EXCEPT ![t] = Latest]
  /\ UNCHANGED <<ledger, unpublished, server, wire, phase, source, url, lastEventId, faults>>

\* The reload is over: a new EventSource from the cursor of the snapshot.
Connect(t) ==
  /\ snapshot[t] # NoCursor
  /\ phase' = [phase EXCEPT ![t] = "live"]
  /\ url' = [url EXCEPT ![t] = snapshot[t]]
  /\ lastEventId' = [lastEventId EXCEPT ![t] = 0]
  /\ source' = [source EXCEPT ![t] = "connecting"]
  /\ snapshot' = [snapshot EXCEPT ![t] = NoCursor]
  /\ UNCHANGED <<ledger, unpublished, server, wire, faults>>

\* One read of the reload fails.  The user may retry a bootstrap; a resync
\* leaves the tab disconnected.
ReloadFails(t) ==
  /\ faults < MaxFaults /\ faults' = faults + 1
  /\ phase[t] \in {"boot", "resync"}
  /\ phase' = [phase EXCEPT ![t] = IF @ = "boot" THEN @ ELSE "down"]
  /\ snapshot' = [snapshot EXCEPT ![t] = NoCursor]
  /\ UNCHANGED <<ledger, unpublished, server, wire, source, url, lastEventId>>

\* Mutant: the cursor of the URL comes before Last-Event-ID.
RequestCursorOfUrl(t) == url[t]

\* requestCursor: Last-Event-ID comes before the cursor of the URL.
RequestCursor(t) == IF lastEventId[t] # 0 THEN lastEventId[t] ELSE url[t]

\* The EventSource connects, and the host starts a stream for it.
Open(t) ==
  /\ source[t] = "connecting"
  /\ source' = [source EXCEPT ![t] = "open"]
  /\ cursor' = [cursor EXCEPT ![t] = RequestCursor(t)]
  /\ stream' = [stream EXCEPT ![t] = "round"]
  /\ page' = [page EXCEPT ![t] = {}]
  /\ UNCHANGED <<ledger, unpublished, waiter, wire, phase, snapshot, url, lastEventId, faults>>

ReceiveChange(t) ==
  /\ source[t] = "open" /\ wire[t] # <<>>
  /\ Head(wire[t]).event = "change"
  /\ lastEventId' = [lastEventId EXCEPT ![t] = Head(wire[t]).id]
  /\ wire' = [wire EXCEPT ![t] = Tail(@)]
  /\ UNCHANGED <<ledger, unpublished, server, phase, snapshot, source, url, faults>>

\* The client closes its socket and reloads.
ReceiveResync(t) ==
  /\ source[t] = "open" /\ wire[t] # <<>>
  /\ Head(wire[t]).event = "resync_required"
  /\ source' = [source EXCEPT ![t] = "closed"]
  /\ phase' = [phase EXCEPT ![t] = "resync"]
  /\ wire' = [wire EXCEPT ![t] = <<>>]
  /\ UNCHANGED <<ledger, unpublished, server, snapshot, url, lastEventId, faults>>

-----------------------------------------------------------------------------
(* Faults.                                                                 *)

\* Connections break: frames in flight are lost, the streams end, and each
\* EventSource connects again by itself.
Disconnected(T) ==
  /\ faults < MaxFaults /\ faults' = faults + 1
  /\ stream' = [t \in Tabs |-> IF t \in T THEN "none" ELSE stream[t]]
  /\ waiter' = [t \in Tabs |-> IF t \in T THEN "none" ELSE waiter[t]]
  /\ wire' = [t \in Tabs |-> IF t \in T THEN <<>> ELSE wire[t]]
  /\ source' = [t \in Tabs |-> IF t \in T /\ source[t] = "open" THEN "connecting"
                               ELSE source[t]]
  /\ UNCHANGED <<ledger, cursor, page, phase, snapshot, url, lastEventId>>

Drop(t) ==
  /\ source[t] = "open"
  /\ Disconnected({t})
  /\ UNCHANGED unpublished

\* The host restarts; a publication it had not run is gone with its streams.
Restart ==
  /\ Disconnected(Tabs)
  /\ unpublished' = 0

-----------------------------------------------------------------------------
ServerNext(t) ==
  \/ BeginRound(t) \/ ListChanges(t) \/ WriteResync(t) \/ WriteChange(t)
  \/ Wait(t) \/ Woken(t) \/ Heartbeat(t)

ClientNext(t) ==
  \/ TakeSnapshot(t) \/ Connect(t) \/ ReloadFails(t)
  \/ Open(t) \/ ReceiveChange(t) \/ ReceiveResync(t) \/ Drop(t)

Next ==
  \/ Commit \/ Publish \/ Prune \/ Restart
  \/ \E t \in Tabs : ServerNext(t) \/ ClientNext(t)

Spec == Init /\ [][Next]_vars

\* The host's event loop, the core and the browser keep going.  No heartbeat
\* is needed: a wait that only a heartbeat ends would be a lost wake.
Fairness ==
  /\ WF_vars(Publish)
  /\ \A t \in Tabs :
       /\ WF_vars(BeginRound(t)) /\ WF_vars(ListChanges(t)) /\ WF_vars(WriteResync(t))
       /\ WF_vars(WriteChange(t)) /\ WF_vars(Wait(t)) /\ WF_vars(Woken(t))
       /\ WF_vars(TakeSnapshot(t)) /\ WF_vars(Connect(t)) /\ WF_vars(Open(t))
       /\ WF_vars(ReceiveChange(t)) /\ WF_vars(ReceiveResync(t))

FairSpec == Spec /\ Fairness
-----------------------------------------------------------------------------
(* Properties.                                                             *)

\* How far a tab is: the last change it was told, or the snapshot it follows.
At(t) == IF lastEventId[t] = 0 THEN url[t] ELSE lastEventId[t]

\* A stream that waits has nothing to write, unless the publication that will
\* wake it is still to come: no change is left to the heartbeat.
NoLostWakeup ==
  \A t \in Tabs : stream[t] = "waiting" /\ waiter[t] # "change" =>
     unpublished > 0 \/ \A n \in mine : n <= cursor[t]

\* The changes on the connection of a tab are those of the viewer between where
\* the tab is and where its stream is, in order: none twice, none missing, over
\* every reconnection, retention run and page boundary.
PipeIsExact ==
  \A t \in Tabs : source[t] = "open" =>
     LET changes == {i \in DOMAIN wire[t] : wire[t][i].event = "change"}
     IN /\ {wire[t][i].id : i \in changes} = {n \in mine : At(t) < n /\ n <= cursor[t]}
        /\ \A i, j \in changes : i < j => wire[t][i].id < wire[t][j].id

\* remote.ts answers resync_required only for a cursor that retention overtook:
\* no tab is made to reload while its changes can still be replayed.
ResyncOnlyWhenPruned ==
  \A t \in Tabs : stream[t] = "refused" => cursor[t] < floor

\* The feed implements the abstract replay.
Replay == INSTANCE ChangeReplay WITH
  last <- lastSeq,
  at <- [t \in Tabs |-> At(t)],
  following <- {t \in Tabs : phase[t] = "live"}

ImplementsReplay == Replay!Spec

\* Every change addressed to the viewer reaches every tab, or is covered by a
\* reload of it, unless the reload itself failed.
EventuallyTold ==
  \A t \in Tabs, n \in Seqs :
     n \in mine ~> (phase[t] = "live" /\ n <= At(t)) \/ phase[t] = "down"
=============================================================================
