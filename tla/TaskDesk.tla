------------------------------- MODULE TaskDesk -------------------------------
(***************************************************************************)
(* The Task board of the web client: the store's Task calls, the moves     *)
(* ChannelTasksBoard.tsx, its detail dialog, status menu and assignee menu *)
(* offer, and the card a message's Task chip reveals.                      *)
(*                                                                         *)
(* One Task; TaskBoard has the core.  What the board shows is a snapshot:  *)
(* lists and answers replace it in the order they come back, and others    *)
(* change the row meanwhile.                                               *)
(***************************************************************************)
EXTENDS Integers, FiniteSets

CONSTANTS
  Me, Agent, Nobody,   \* the user, a member Agent, assigneeId undefined
  MeOwns,              \* whether the user owns the Channel
  Filters,             \* bound: the assignee filters the user picks
  MaxRow,              \* bound: versions of the row
  MaxTaskCalls         \* bound: calls in flight

ASSUME MeOwnsAssumption == MeOwns \in BOOLEAN

VARIABLES
  row,       \* the core's row: status, holder, version
  card,      \* tasksByMessage: what the board shows
  desk,      \* assigneeFilter, draggingTaskId, selectedMessageId, readOnly; the
             \* lane that took the last dragover, with the card it took then; in the
             \* core, whether the Channel is archived
  taskCalls  \* calls, with the versions of the card sent and shown to the user

deskVars == <<row, card, desk, taskCalls>>

Lanes == {"todo", "in_progress", "in_review", "done"}

\* task_transition_allowed, as in TaskBoard.
CoreAllows == {<<"todo", "in_progress">>, <<"in_progress", "todo">>,
               <<"in_progress", "in_review">>, <<"in_review", "in_progress">>,
               <<"in_review", "done">>, <<"done", "in_progress">>}

\* Defect: a Task may go straight to review.
OfferedSkips(from) ==
  CASE from = "todo" -> {"in_progress", "in_review"}
    [] from = "in_progress" -> {"todo", "in_review"}
    [] from = "in_review" -> {"in_progress", "done"}
    [] OTHER -> {"in_progress"}

\* TASK_TRANSITIONS
Offered(from) ==
  CASE from = "todo" -> {"in_progress"}
    [] from = "in_progress" -> {"todo", "in_review"}
    [] from = "in_review" -> {"in_progress", "done"}
    [] OTHER -> {"in_progress"}

\* No lane under the drag, or one that would not take it.
NoLane == [lane |-> "none", seen |-> 0]

DeskInit ==
  /\ row \in [status : Lanes, holder : {Me, Agent, Nobody}, ver : {1}]
  /\ row.status = "todo" => row.holder = Nobody
  /\ card = row
  /\ desk = [filter |-> "none", dragging |-> FALSE, over |-> NoLane, selected |-> FALSE,
             readOnly |-> FALSE, archived |-> FALSE]
  /\ taskCalls = {}

(* --- The core --- *)

TaskCall(kind, to, who, ver, seen) ==
  [kind |-> kind, to |-> to, who |-> who, ver |-> ver, seen |-> seen,
   done |-> FALSE, got |-> <<>>]

\* On its way back: the Task as it was when the call was served, or the list read.
TaskAnswer(r) ==
  [TaskCall("answer", r.status, r.holder, r.ver, r.ver) EXCEPT !.done = TRUE, !.got = <<r>>]

Revise(status, holder) == row' = [status |-> status, holder |-> holder, ver |-> row.ver + 1]

OthersMove ==
  /\ row.ver < MaxRow /\ ~desk.archived
  /\ \/ \E to \in Lanes : <<row.status, to>> \in CoreAllows /\ Revise(to, row.holder)
     \/ row.holder = Nobody /\ row.status # "done" /\ Revise("in_progress", Agent)
     \/ row.holder = Agent /\ row.status # "done" /\ Revise(row.status, Nobody)
  /\ UNCHANGED <<card, desk, taskCalls>>

Archived == /\ ~desk.archived /\ desk' = [desk EXCEPT !.archived = TRUE]
            /\ UNCHANGED <<row, card, taskCalls>>
Restored == /\ desk.archived /\ desk' = [desk EXCEPT !.archived = FALSE]
            /\ UNCHANGED <<row, card, taskCalls>>

\* An archived Channel takes no change, and another actor's Task is the owner's to move.
Entitled == ~desk.archived /\ (row.holder \in {Nobody, Me} \/ MeOwns)

\* Asks for what is so already.
Idempotent(c) ==
  CASE c.kind = "claim" -> row.holder = c.who
    [] c.kind = "unclaim" -> row.holder = Nobody
    [] OTHER -> row.status = c.to

\* claim, unclaim and change_status, of a Channel that is active.  A claim carries no
\* version; the others do, and the version is looked at first.
Granted(c) ==
  CASE c.kind = "claim" -> row.status # "done" /\ row.holder \in {Nobody, c.who}
    [] c.kind = "unclaim" -> /\ c.ver = row.ver
                             /\ Idempotent(c) \/ (row.holder = Me /\ row.status # "done")
    [] OTHER -> /\ c.ver = row.ver /\ Entitled
                /\ Idempotent(c) \/ <<row.status, c.to>> \in CoreAllows

TaskCallServed(c) ==
  /\ c \in taskCalls /\ ~c.done
  /\ ~desk.archived /\ Granted(c) /\ row.ver <= MaxRow
  /\ IF Idempotent(c) THEN UNCHANGED row
     ELSE CASE c.kind = "claim" -> Revise("in_progress", c.who)
            [] c.kind = "unclaim" -> Revise(row.status, Nobody)
            [] OTHER -> Revise(c.to, row.holder)
  /\ taskCalls' = (taskCalls \ {c}) \cup {TaskAnswer(row')}
  /\ UNCHANGED <<card, desk>>

(* --- The store --- *)

Calls(c) == Cardinality(taskCalls) < MaxTaskCalls /\ taskCalls' = taskCalls \cup {c}
Claim(who) == Calls(TaskCall("claim", "in_progress", who, 0, 0))
Unclaim == Calls(TaskCall("unclaim", "todo", Me, card.ver, card.ver))
Update(to, seen) == Calls(TaskCall("update", to, Me, card.ver, seen))

\* task_created and task_updated: the whole list is read again, and answered later.
TasksChanged ==
  /\ Calls(TaskAnswer(row))
  /\ UNCHANGED <<row, card, desk>>

\* The answer of any call replaces what is shown.
TaskCallAnswered(c) ==
  /\ c \in taskCalls /\ c.done
  /\ card' = c.got[1] /\ taskCalls' = taskCalls \ {c}
  /\ UNCHANGED <<row, desk>>

\* Refused, or lost; the error banner is all that is left of it.
TaskCallFails(c) ==
  /\ c \in taskCalls /\ taskCalls' = taskCalls \ {c}
  /\ UNCHANGED <<row, card, desk>>

(* --- The board --- *)

Hidden == \/ desk.filter = "unassigned" /\ card.holder # Nobody
          \/ desk.filter = "agent" /\ card.holder # Agent

\* move, of the card as it is now: an unassigned Task leaves todo by a claim, anything
\* else by an update.
Move(to, seen) ==
  IF desk.readOnly THEN UNCHANGED taskCalls
  ELSE IF card.status = "todo" /\ to = "in_progress" /\ card.holder = Nobody
  THEN Claim(Me) ELSE Update(to, seen)

DragStarts ==
  /\ ~desk.readOnly /\ ~Hidden /\ ~desk.selected /\ ~desk.dragging
  /\ desk' = [desk EXCEPT !.dragging = TRUE] /\ UNCHANGED <<row, card, taskCalls>>

\* laneAcceptsDrag
LaneAccepts(lane) ==
  /\ ~desk.readOnly /\ ~Hidden
  /\ card.status # lane /\ lane \in Offered(card.status)

\* A lane that would not take the card does not cancel the event, and the browser then
\* gives it no drop.
DragOver(lane) ==
  /\ desk.dragging
  /\ desk' = [desk EXCEPT !.over = IF LaneAccepts(lane) THEN [lane |-> lane, seen |-> card.ver]
                                    ELSE NoLane]
  /\ UNCHANGED <<row, card, taskCalls>>

DragLeaves ==
  /\ desk.over # NoLane /\ desk' = [desk EXCEPT !.over = NoLane]
  /\ UNCHANGED <<row, card, taskCalls>>

\* What is dropped is moved, whatever became of it since the lane took the dragover; a
\* card that is filtered out by now is not.
DropOn(lane) ==
  /\ desk.dragging /\ desk.over.lane = lane
  /\ desk' = [desk EXCEPT !.dragging = Hidden, !.over = NoLane]
  /\ IF Hidden THEN UNCHANGED taskCalls ELSE Move(lane, desk.over.seen)
  /\ UNCHANGED <<row, card>>

DragEnds ==
  /\ desk.dragging /\ desk' = [desk EXCEPT !.dragging = FALSE, !.over = NoLane]
  /\ UNCHANGED <<row, card, taskCalls>>

\* The catalog, read again, has the Channel's lifecycle.
ReadOnlyFollows ==
  /\ desk.readOnly # desk.archived /\ desk' = [desk EXCEPT !.readOnly = desk.archived]
  /\ UNCHANGED <<row, card, taskCalls>>

OpenDetail == /\ ~Hidden /\ ~desk.dragging /\ ~desk.selected
              /\ desk' = [desk EXCEPT !.selected = TRUE]
              /\ UNCHANGED <<row, card, taskCalls>>
CloseDetail == /\ desk.selected /\ desk' = [desk EXCEPT !.selected = FALSE]
               /\ UNCHANGED <<row, card, taskCalls>>

\* The status menu of the dialog disables what the table does not offer.
PickStatus(to) ==
  /\ desk.selected /\ ~desk.readOnly /\ to \in Offered(card.status)
  /\ Move(to, card.ver) /\ UNCHANGED <<row, card, desk>>

\* The assignee menu is there while nobody, or the user, holds the Task; it offers every
\* actor a claim, of a Task that is held or done as well.
PickAssignee(who) ==
  /\ desk.selected /\ ~desk.readOnly /\ card.holder \in {Nobody, Me}
  /\ IF who = Nobody THEN card.holder = Me /\ Unclaim ELSE Claim(who)
  /\ UNCHANGED <<row, card, desk>>

PickFilter(f) == /\ ~desk.selected /\ f # desk.filter
                 /\ desk' = [desk EXCEPT !.filter = f]
                 /\ UNCHANGED <<row, card, taskCalls>>

\* The board is left for the messages, and mounted anew by its tab or by a Task chip,
\* whose card no filter hides then.
BoardMounts ==
  /\ desk' = [desk EXCEPT !.filter = "none", !.dragging = FALSE, !.over = NoLane,
                          !.selected = FALSE]
  /\ UNCHANGED <<row, card, taskCalls>>

DeskNext ==
  \/ OthersMove \/ TasksChanged \/ DragStarts \/ DragEnds \/ OpenDetail \/ CloseDetail
  \/ BoardMounts \/ DragLeaves \/ Archived \/ Restored \/ ReadOnlyFollows
  \/ \E lane \in Lanes : DragOver(lane) \/ DropOn(lane) \/ PickStatus(lane)
  \/ \E who \in {Me, Agent, Nobody} : PickAssignee(who)
  \/ \E f \in Filters : PickFilter(f)
  \/ \E c \in taskCalls : TaskCallServed(c) \/ TaskCallAnswered(c) \/ TaskCallFails(c)

DeskSpec == DeskInit /\ [][DeskNext]_deskVars

\* The board never asks for a move the core does not know: however late lists and
\* answers are, a status change asked for by somebody entitled to it, in a Channel that
\* is active, is refused only because the row changed after the user was shown that it
\* might go there (the menu, or the lane's last dragover).
OnlyStaleMovesFail ==
  \A c \in taskCalls :
    c.kind = "update" /\ ~c.done /\ c.seen = row.ver /\ c.ver = row.ver /\ Entitled =>
      Granted(c)
=============================================================================
