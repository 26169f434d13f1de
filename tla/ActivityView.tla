----------------------------- MODULE ActivityView -----------------------------
(***************************************************************************)
(* The Activity inbox from end to end: the Done fences of the core         *)
(* (activity/mod.rs), the store's refreshes and Done calls, and the rows,  *)
(* filter and dock of ActivityView.tsx.                                    *)
(*                                                                         *)
(* A conversation is unread while its newest Message is past its fence.    *)
(* Answers come in any order; a refresh that fails is silent.              *)
(***************************************************************************)
EXTENDS Integers, FiniteSets

CONSTANTS
  Convs, NoConv,   \* conversations: Channels and followed Threads
  MaxActivity,     \* bound: Messages per conversation
  MaxRefreshes     \* bound: refreshes, and Done calls, in flight

ASSUME NoConvAssumption == NoConv \notin Convs

VARIABLES
  latest,     \* the core: newest sequence of a conversation
  fence,      \* the core: done_through_seq
  shownRows,  \* activityItems: the sequence of each listed row, 0 when not listed
  inbox,      \* activityFilter, activityCount, the debounce timer
  refreshes,  \* inboxList calls
  marks,      \* inboxDone and inboxDoneAll calls
  dock,       \* the row opened beside the list, and the busy flag
  agreedSeq   \* ghost: the newest activity a Done of the user was meant to cover

core == <<latest, fence>>
activityVars == <<core, shownRows, inbox, refreshes, marks, dock, agreedSeq>>

Larger(a, b) == IF a < b THEN b ELSE a
Unread == {c \in Convs : latest[c] > fence[c]}

ActivityInit ==
  /\ latest \in [Convs -> 0..1] /\ fence = [c \in Convs |-> 0]
  /\ shownRows = [c \in Convs |-> 0]
  /\ inbox = [filter |-> "unread", count |-> 0, timer |-> FALSE]
  /\ refreshes = {} /\ marks = {}
  /\ dock = [open |-> NoConv, busy |-> NoConv]
  /\ agreedSeq = [c \in Convs |-> 0]

(* --- The core --- *)

\* Every change schedules a refresh in 280 ms, unless one is scheduled.
Scheduled == [inbox EXCEPT !.timer = TRUE]

MessageArrives(c) ==
  /\ latest[c] < MaxActivity
  /\ latest' = [latest EXCEPT ![c] = @ + 1]
  /\ inbox' = Scheduled
  /\ UNCHANGED <<fence, shownRows, refreshes, marks, dock, agreedSeq>>

\* set_done_fence: forward only.
Advances(f, c, seq) == [f EXCEPT ![c] = Larger(@, seq)]

\* inbox_done refuses a sequence that is not there; inbox_done_all covers what is
\* unread when it runs.
DoneServed(m) ==
  /\ m \in marks /\ ~m.served
  /\ IF m.conv = NoConv
     THEN /\ fence' = [c \in Convs |-> latest[c]]
          /\ agreedSeq' = [c \in Convs |-> Larger(agreedSeq[c], latest[c])]
     ELSE /\ m.seq \in 1..latest[m.conv]
          /\ fence' = Advances(fence, m.conv, m.seq)
          /\ UNCHANGED agreedSeq
  /\ marks' = (marks \ {m}) \cup {[m EXCEPT !.served = TRUE]}
  /\ inbox' = IF fence' # fence THEN Scheduled ELSE inbox
  /\ UNCHANGED <<latest, shownRows, refreshes, dock>>

\* inbox_list: the badge is the number of unread conversations under any filter.
ListServed(r) ==
  /\ r \in refreshes /\ ~r.served
  /\ LET listed == IF r.filter = "unread" THEN Unread ELSE {c \in Convs : latest[c] > 0} IN
     refreshes' = (refreshes \ {r}) \cup
       {[r EXCEPT !.served = TRUE, !.count = Cardinality(Unread),
                  !.page = [c \in Convs |-> IF c \in listed THEN latest[c] ELSE 0]]}
  /\ UNCHANGED <<core, shownRows, inbox, marks, dock, agreedSeq>>

(* --- The store --- *)

\* A Done call awaits its refresh before its row stops being busy.
Refresh(filter, ofDone) ==
  /\ Cardinality(refreshes) < MaxRefreshes
  /\ refreshes' = refreshes \cup
       {[filter |-> filter, served |-> FALSE, count |-> 0, page |-> [c \in Convs |-> 0],
         ofDone |-> ofDone]}

Returned(R) == dock' = IF \E r \in R : r.ofDone THEN [dock EXCEPT !.busy = NoConv] ELSE dock

TimerFires ==
  /\ inbox.timer /\ inbox' = [inbox EXCEPT !.timer = FALSE]
  /\ Refresh(inbox.filter, FALSE)
  /\ UNCHANGED <<core, shownRows, marks, dock, agreedSeq>>

SetFilter ==
  \E f \in {"all", "unread"} \ {inbox.filter} :
    /\ inbox' = [inbox EXCEPT !.filter = f] /\ Refresh(f, FALSE)
    /\ UNCHANGED <<core, shownRows, marks, dock, agreedSeq>>

\* Of the current generation only; whatever filter is set by now.
RefreshAnswered(r) ==
  /\ r \in refreshes /\ r.served
  /\ shownRows' = r.page /\ inbox' = [inbox EXCEPT !.count = r.count]
  /\ refreshes' = refreshes \ {r} /\ Returned({r})
  /\ UNCHANGED <<core, marks, agreedSeq>>

RefreshFails(r) ==
  /\ r \in refreshes /\ refreshes' = refreshes \ {r} /\ Returned({r})
  /\ UNCHANGED <<core, shownRows, inbox, marks, agreedSeq>>

\* A resync or a new bootstrap: the answers on their way do nothing.
NewLoad ==
  /\ refreshes # {} /\ refreshes' = {} /\ Returned(refreshes)
  /\ UNCHANGED <<core, shownRows, inbox, marks, agreedSeq>>

(* --- The view --- *)

\* Defect: Done covers what is newest, not what the row showed.
MarkLatest(c) ==
  /\ shownRows[c] > 0 /\ dock.busy # c /\ Cardinality(marks) < MaxRefreshes
  /\ dock' = [dock EXCEPT !.busy = c]
  /\ marks' = marks \cup {[conv |-> c, seq |-> latest[c], served |-> FALSE]}
  /\ agreedSeq' = [agreedSeq EXCEPT ![c] = Larger(@, shownRows[c])]
  /\ UNCHANGED <<core, shownRows, inbox, refreshes>>

\* The row's check mark; only the busy row's button is disabled.
MarkDone(c) ==
  /\ shownRows[c] > 0 /\ dock.busy # c /\ Cardinality(marks) < MaxRefreshes
  /\ dock' = [dock EXCEPT !.busy = c]
  /\ marks' = marks \cup {[conv |-> c, seq |-> shownRows[c], served |-> FALSE]}
  /\ agreedSeq' = [agreedSeq EXCEPT ![c] = Larger(@, shownRows[c])]
  /\ UNCHANGED <<core, shownRows, inbox, refreshes>>

\* Shown while the badge counts something and no Done is under way.
MarkAllDone ==
  /\ inbox.count > 0 /\ dock.busy = NoConv /\ Cardinality(marks) < MaxRefreshes
  /\ marks' = marks \cup {[conv |-> NoConv, seq |-> 0, served |-> FALSE]}
  /\ dock' = [dock EXCEPT !.busy = "all"]
  /\ UNCHANGED <<core, shownRows, inbox, refreshes, agreedSeq>>

MarkAnswered(m) ==
  /\ m \in marks /\ m.served /\ marks' = marks \ {m}
  /\ Refresh(inbox.filter, TRUE)
  /\ UNCHANGED <<core, shownRows, inbox, dock, agreedSeq>>

\* Refused, or the connection failed before or after the core served it.
MarkFails(m) ==
  /\ m \in marks /\ marks' = marks \ {m}
  /\ dock' = [dock EXCEPT !.busy = NoConv]
  /\ UNCHANGED <<core, shownRows, inbox, refreshes, agreedSeq>>

\* A row opens beside the list; the row that is open closes.  ClientStore has what
\* hydrateTarget and openThread load.
OpenRow(c) ==
  /\ shownRows[c] > 0
  /\ dock' = [dock EXCEPT !.open = IF @ = c THEN NoConv ELSE c]
  /\ UNCHANGED <<core, shownRows, inbox, refreshes, marks, agreedSeq>>

CloseDock ==
  /\ dock.open # NoConv /\ dock' = [dock EXCEPT !.open = NoConv]
  /\ UNCHANGED <<core, shownRows, inbox, refreshes, marks, agreedSeq>>

ActivityNext ==
  \/ \E c \in Convs : MessageArrives(c) \/ MarkDone(c) \/ OpenRow(c)
  \/ \E r \in refreshes : ListServed(r) \/ RefreshAnswered(r) \/ RefreshFails(r)
  \/ \E m \in marks : DoneServed(m) \/ MarkAnswered(m) \/ MarkFails(m)
  \/ TimerFires \/ SetFilter \/ NewLoad \/ MarkAllDone \/ CloseDock

ActivitySpec == ActivityInit /\ [][ActivityNext]_activityVars

\* Done hides nothing the user did not see: a fence only moves forward, and never
\* past the activity the row showed when it was marked, however late the call is
\* served and whatever was refreshed in between.
DoneHidesNothingNewer ==
  [][\A c \in Convs : fence[c] <= fence'[c] /\ fence'[c] <= agreedSeq'[c]]_activityVars
=============================================================================
