---------------------------- MODULE ChannelCatalog ----------------------------
(***************************************************************************)
(* The list of Channels and the dialogs that change it: store.ts's target  *)
(* reloads, notice of a vanished Channel, lifecycle calls, CollabPanel's   *)
(* delete confirmation, and the edit and create dialogs.                   *)
(*                                                                         *)
(* Calls are answered in any order or rejected.  Others change Channels at *)
(* any time, and each change of theirs or ours is announced by a frame.    *)
(***************************************************************************)
EXTENDS Integers, FiniteSetsExt

CONSTANTS
  Rooms, NoRoom,
  MaxChanges,   \* bound: changes of all Channels together
  MaxReads,     \* bound: reloads in flight
  MaxWrites     \* bound: other calls in flight

VARIABLES
  rows,     \* the core's Channels, as the user may see them
  list,     \* snapshot.channels
  view,     \* activeChannelId, removedNotice, and what removedTimer will do
  editing,  \* the edit dialog: Channel, the version it was opened with
  asking,   \* the delete dialog: Channel, acknowledged
  agreed,   \* ghost: the Channel the open delete dialog was ticked for
  pending   \* client calls and their continuations, which hold the busy flags

catalogVars == <<rows, list, view, editing, asking, agreed, pending>>

Absent == [life |-> "none", ver |-> 0]
NoEdit == [room |-> NoRoom, ver |-> 0]
NoAsk == [room |-> NoRoom, acked |-> FALSE]

CatalogInit ==
  /\ rows \in [Rooms -> {Absent, [life |-> "active", ver |-> 0]}]
  /\ list = rows
  /\ \E c \in Rooms \cup {NoRoom} :
       /\ c # NoRoom => list[c].life = "active"
       /\ view = [open |-> c, notice |-> FALSE, timer |-> "off"]
  /\ editing = NoEdit /\ asking = NoAsk /\ agreed = NoRoom /\ pending = {}

dialogs == <<editing, asking, agreed>>

Visible(all) == {c \in Rooms : all[c].life \in {"active", "archived"}}
Fallback(all) == LET alive == {c \in Rooms : all[c].life = "active"}
                 IN IF alive = {} THEN {NoRoom} ELSE alive

\* done: the core served it.  shown: the version the user was looking at.
Call(kind, c, ver, shown) ==
  [kind |-> kind, room |-> c, ver |-> ver, shown |-> shown, done |-> FALSE, got |-> <<>>]
\* A read is served when it is issued; nothing tells the two apart.
Reading(kind, select) == [Call(kind, NoRoom, select, 0) EXCEPT !.done = TRUE, !.got = rows]
Reads == {"reload", "resync"}
Flight(call) == {other \in pending : (other.kind \in Reads) = (call.kind \in Reads)}
Issue(call) ==
  /\ Cardinality(Flight(call)) < IF call.kind \in Reads THEN MaxReads ELSE MaxWrites
  /\ pending' = pending \cup {call}
Drop(call) == pending' = pending \ {call}

\* The busy flags: submitting of a dialog, channelActionBusy of the panel.
Waiting(kinds) == \E call \in pending : call.kind \in kinds
LifecycleKinds == {"archive", "restore", "delete"}

(* --- The core --- *)

MayChange == MapThenSumSet(LAMBDA c : rows[c].ver, Rooms) < MaxChanges
Revised(c, life) == [rows EXCEPT ![c] = [life |-> life, ver |-> @.ver + 1]]

\* Another member renames, archives, restores or deletes, or our membership goes
\* or comes back: the catalog shows the Channel or does not.
OthersChange(c) ==
  /\ rows[c].life # "none" /\ MayChange
  /\ \E life \in {"active", "archived", "gone"} : rows' = Revised(c, life)
  /\ UNCHANGED <<list, view, pending, dialogs>>

\* Versions fence every write; archive wants an active Channel, restore an archived one.
Accepts(call) ==
  LET row == rows[call.room] IN
  CASE call.kind = "create" -> row.life = "none"
    [] call.kind = "restore" -> row.life = "archived" /\ row.ver = call.ver
    [] call.kind = "delete" -> row.life \in {"active", "archived"} /\ row.ver = call.ver
    [] OTHER -> row.life = "active" /\ row.ver = call.ver

Outcome(call) ==
  CASE call.kind = "create" -> Revised(call.room, "active")
    [] call.kind = "archive" -> Revised(call.room, "archived")
    [] call.kind = "delete" -> Revised(call.room, "gone")
    [] OTHER -> Revised(call.room, "active")

CallServed(call) ==
  /\ call \in pending /\ ~call.done
  /\ Accepts(call) /\ MayChange
  /\ rows' = Outcome(call)
  /\ pending' = (pending \ {call}) \cup {[call EXCEPT !.done = TRUE, !.got = rows'[call.room]]}
  /\ UNCHANGED <<list, view, dialogs>>

(* --- Reloads --- *)

\* target_created and membership_changed, or a Message of a target not listed
\* (scheduleUnknownTargetReload): reloadTargets(); target_changed: with a fallback.
FrameArrives(select) ==
  /\ Issue(Reading("reload", IF select THEN 1 ELSE 0))
  /\ UNCHANGED <<rows, list, view, dialogs>>

ReloadAnswered(call) ==
  /\ call \in pending /\ call.kind = "reload"
  /\ list' = call.got
  /\ view' = IF view.open # NoRoom /\ view.open \notin Visible(call.got) /\ ~view.notice
             THEN [view EXCEPT !.notice = TRUE,
                               !.timer = IF call.ver = 1 THEN "select" ELSE "plain"]
             ELSE view
  /\ Drop(call) /\ UNCHANGED <<rows, dialogs>>

\* removedTimer, a second after the notice was raised.
NoticeEnds ==
  /\ view.timer # "off"
  /\ \E c \in IF view.timer = "select" THEN Fallback(list) ELSE {NoRoom} :
       view' = [open |-> c, notice |-> FALSE, timer |-> "off"]
  /\ UNCHANGED <<rows, list, pending, dialogs>>

\* resync: the generation drops the reloads in flight.
ResyncStarts ==
  /\ pending' = {call \in pending : call.kind \notin Reads}
                \cup {Reading("resync", 0)}
  /\ UNCHANGED <<rows, list, view, dialogs>>

ResyncAnswered(call) ==
  /\ call \in pending /\ call.kind = "resync"
  /\ list' = call.got
  /\ \E c \in IF view.open \in Visible(call.got) THEN {view.open}
              ELSE IF \E d \in Rooms : call.got[d].life = "active" THEN Fallback(call.got)
              ELSE IF Visible(call.got) # {} THEN Visible(call.got) ELSE {NoRoom} :
       view' = [view EXCEPT !.open = c, !.notice = FALSE]
  /\ Drop(call) /\ UNCHANGED <<rows, dialogs>>

(* --- The rail and the dialogs --- *)

\* Defect: the notice is left up when its timer is cancelled.
OpenUnderNotice(c) == [view EXCEPT !.open = c, !.timer = "off"]

\* setActiveChannel
OpenRoom(c) ==
  IF view.open = c /\ ~view.notice THEN view
  ELSE [open |-> c, notice |-> FALSE, timer |-> "off"]

SelectRoom(c) ==
  /\ c \in Visible(list)
  /\ view' = OpenRoom(c)
  /\ UNCHANGED <<rows, list, pending, dialogs>>

\* Dialogs are modal: while one is up the rail cannot be clicked.
NoDialog == editing = NoEdit /\ asking.room = NoRoom

\* The dialog keeps the Channel as it was listed when it opened.
EditOpens(c) ==
  /\ list[c].life = "active" /\ NoDialog
  /\ editing' = [room |-> c, ver |-> list[c].ver]
  /\ UNCHANGED <<rows, list, view, asking, agreed, pending>>

\* Defect: the version is read when the user saves.
SaveLatest ==
  /\ editing.room # NoRoom /\ ~Waiting({"update"})
  /\ Issue(Call("update", editing.room, list[editing.room].ver, editing.ver))
  /\ UNCHANGED <<rows, list, view, dialogs>>

EditSaves ==
  /\ editing.room # NoRoom /\ ~Waiting({"update"})
  /\ Issue(Call("update", editing.room, editing.ver, editing.ver))
  /\ UNCHANGED <<rows, list, view, dialogs>>

EditCloses ==
  /\ editing.room # NoRoom /\ ~Waiting({"update"}) /\ editing' = NoEdit
  /\ UNCHANGED <<rows, list, view, asking, agreed, pending>>

\* runLifecycle, with the version the list has now.
Lifecycle(kind, c) ==
  IF Waiting(LifecycleKinds) \/ c \notin Visible(list) THEN UNCHANGED pending
  ELSE Issue(Call(kind, c, list[c].ver, list[c].ver))

ArchiveRoom ==
  /\ editing.room # NoRoom /\ ~Waiting({"update"}) /\ editing' = NoEdit
  /\ Lifecycle("archive", editing.room)
  /\ UNCHANGED <<rows, list, view, asking, agreed>>

RestoreRoom(c) ==
  /\ list[c].life = "archived" /\ NoDialog
  /\ Lifecycle("restore", c)
  /\ UNCHANGED <<rows, list, view, dialogs>>

\* Defect: the tick of an earlier dialog stays.
AskKeepsTick(c) ==
  /\ c \in Visible(list) /\ NoDialog
  /\ asking' = [asking EXCEPT !.room = c] /\ agreed' = NoRoom
  /\ UNCHANGED <<rows, list, view, editing, pending>>

AskDelete(c) ==
  /\ c \in Visible(list) /\ NoDialog
  /\ asking' = [room |-> c, acked |-> FALSE] /\ agreed' = NoRoom
  /\ UNCHANGED <<rows, list, view, editing, pending>>

TickDelete ==
  /\ asking.room # NoRoom /\ ~Waiting(LifecycleKinds)
  /\ asking' = [asking EXCEPT !.acked = ~@]
  /\ agreed' = IF asking.acked THEN NoRoom ELSE asking.room
  /\ UNCHANGED <<rows, list, view, editing, pending>>

\* Cancelling leaves the tick; the next onDelete resets it.
CancelDelete ==
  /\ asking.room # NoRoom /\ ~Waiting(LifecycleKinds)
  /\ asking' = [asking EXCEPT !.room = NoRoom]
  /\ UNCHANGED <<rows, list, view, editing, agreed, pending>>

ConfirmDelete ==
  /\ asking.room # NoRoom /\ asking.acked /\ ~Waiting(LifecycleKinds)
  /\ Lifecycle("delete", asking.room)
  /\ UNCHANGED <<rows, list, view, dialogs>>

\* The create dialog refuses a listed name; here a Channel not there yet stands for
\* a name.
CreateSubmits(c) ==
  /\ rows[c].life = "none" /\ ~Waiting({"create"})
  /\ Issue(Call("create", c, 0, 0))
  /\ UNCHANGED <<rows, list, view, dialogs>>

\* store.createChannel inserts what is not listed, replaceChannel replaces what is.
Replaced(call) == IF call.room \in Visible(list) THEN [list EXCEPT ![call.room] = call.got] ELSE list

CallAnswered(call) ==
  /\ call \in pending /\ call.done /\ call.kind \notin Reads
  /\ CASE call.kind = "create" ->
            /\ list' = IF call.room \in Visible(list) THEN list
                       ELSE [list EXCEPT ![call.room] = call.got]
            /\ view' = OpenRoom(call.room) /\ UNCHANGED <<editing, asking>>
       [] call.kind = "delete" ->
            /\ list' = [list EXCEPT ![call.room] = Absent]
            /\ \E c \in Fallback(list') : view' = [view EXCEPT !.open = c, !.notice = FALSE]
            /\ asking' = NoAsk /\ UNCHANGED editing
       [] OTHER ->
            /\ list' = Replaced(call)
            /\ editing' = IF call.kind = "update" THEN NoEdit ELSE editing
            /\ UNCHANGED <<view, asking>>
  /\ Drop(call) /\ UNCHANGED <<rows, agreed>>

\* Refused by the core, or lost: an error is shown and the dialog stays.
CallFails(call) ==
  /\ call \in pending /\ Drop(call) /\ UNCHANGED <<rows, list, view, dialogs>>

CatalogNext ==
  \/ \E c \in Rooms : \/ OthersChange(c) \/ SelectRoom(c) \/ EditOpens(c) \/ RestoreRoom(c)
                      \/ AskDelete(c) \/ CreateSubmits(c)
  \/ \E select \in BOOLEAN : FrameArrives(select)
  \/ \E call \in pending : \/ CallServed(call) \/ CallAnswered(call) \/ CallFails(call)
                           \/ ReloadAnswered(call) \/ ResyncAnswered(call)
  \/ NoticeEnds \/ ResyncStarts
  \/ EditSaves \/ EditCloses \/ ArchiveRoom \/ TickDelete \/ CancelDelete \/ ConfirmDelete

CatalogSpec == CatalogInit /\ [][CatalogNext]_catalogVars

\* No Channel is asked to be deleted but the one whose own confirmation the user
\* ticked: not one ticked in a dialog that was cancelled, and not while busy.
DeletesOnlyAcknowledged ==
  /\ \A call \in pending : call.kind = "delete" => agreed = call.room
  /\ asking.room # NoRoom /\ asking.acked => agreed = asking.room

\* A saved edit never overwrites a change its author did not see: the Channel is
\* still the one the dialog was opened with, whatever reloads came meanwhile.
EditsOverwriteNothing ==
  [][\A call \in pending :
       call.kind = "update" /\ ~call.done /\ call \notin pending' /\ rows' # rows =>
         call.shown = rows[call.room].ver]_catalogVars

\* The notice that the open Channel is gone never outlives its timer: reloads,
\* resyncs, deletions and selections in any order leave no notice that stays.
NoticeEndsByItself == view.notice => view.timer # "off"
=============================================================================
