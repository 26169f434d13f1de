---------------------------- MODULE ChangeReplay ----------------------------
(***************************************************************************)
(* What the change feed promises a browser tab, with no ledger rows,       *)
(* retention, sockets or cursors in sight: while the tab follows the feed  *)
(* it is told every change addressed to its viewer once and in order; when *)
(* it loses the feed it says so, and re-reads everything before it follows *)
(* again.                                                                  *)
(***************************************************************************)
EXTENDS Integers

CONSTANT Tabs

VARIABLES
  last,       \* changes ever committed are 1..last
  mine,       \* those addressed to the viewer
  at,         \* how far each tab is
  following   \* tabs that follow the feed

vars == <<last, mine, at, following>>

Init ==
  /\ last = 0
  /\ mine = {}
  /\ at = [t \in Tabs |-> 0]
  /\ following = {}

Commit ==
  /\ last' = last + 1
  /\ mine' \in {mine, mine \cup {last'}}
  /\ UNCHANGED <<at, following>>

\* The next change of the viewer, none skipped and none repeated.
Tell(t) ==
  /\ t \in following
  /\ \E n \in mine :
       /\ at[t] < n
       /\ \A m \in mine : at[t] < m => n <= m
       /\ at' = [at EXCEPT ![t] = n]
  /\ UNCHANGED <<last, mine, following>>

Lose(t) ==
  /\ following' = following \ {t}
  /\ UNCHANGED <<last, mine, at>>

\* Everything is read again, as of a moment not before the tab's own.
Reload(t) ==
  /\ t \notin following
  /\ \E c \in at[t]..last : at' = [at EXCEPT ![t] = c]
  /\ following' = following \cup {t}
  /\ UNCHANGED <<last, mine>>

Next == Commit \/ \E t \in Tabs : Tell(t) \/ Lose(t) \/ Reload(t)

Spec == Init /\ [][Next]_vars
=============================================================================
