------------------------------- MODULE Composer -------------------------------
(***************************************************************************)
(* ChannelComposer.tsx: the draft kept per target, one logical attempt per *)
(* body whose request id survives retries, the As-Task second step, and    *)
(* sends that are answered, lost before or lost after the core committed.  *)
(*                                                                         *)
(* A Channel's composer is mounted anew when another Channel is opened     *)
(* (ChannelView is keyed by it); a Thread's composer is not, so opening    *)
(* another Thread only changes its channel prop.  The core keeps one       *)
(* message per (author, request id).                                       *)
(***************************************************************************)
EXTENDS Integers

CONSTANTS
  Targets,
  Bodies,      \* what may be typed, trimmed
  Blank,       \* the empty draft
  MaxRequests, \* bound: request ids drawn
  InThread     \* TRUE: the composer of the Thread panel

VARIABLES
  seat,      \* the mounted composer: its target and React state
  drafts,    \* localStorage
  sends,     \* store.sendMessage and createTask calls and their continuations
  posted,    \* messages in the core
  tasked,    \* request ids whose message has a task
  requests,  \* ids drawn
  given      \* ghost: ids the user knows settled, or walked away from

composerVars == <<seat, drafts, sends, posted, tasked, requests, given>>

Ids == 1..MaxRequests
None == [kind |-> "none", id |-> 0, task |-> FALSE]
NoAttempt == [body |-> Blank, id |-> 0]

Fresh(t, n, body) == [target |-> t, mount |-> n, text |-> body, asTask |-> FALSE,
                      busy |-> FALSE, failure |-> None, attempt |-> NoAttempt]

ComposerInit ==
  /\ \E t \in Targets : seat = Fresh(t, 0, Blank)
  /\ drafts = [t \in Targets |-> Blank]
  /\ sends = {} /\ posted = {} /\ tasked = {} /\ requests = 0 /\ given = {}

\* The attempt the user leaves behind by editing or by opening another target.
Abandoned == given \cup {seat.attempt.id}

\* The draft effect runs with every change of the text.
SetText(s, body) ==
  /\ seat' = [s EXCEPT !.text = body]
  /\ drafts' = [drafts EXCEPT ![s.target] = body]

Type(body) ==
  /\ ~seat.busy /\ body # seat.text
  /\ SetText(seat, body)
  /\ given' = Abandoned
  /\ UNCHANGED <<sends, posted, tasked, requests>>

TickAsTask ==
  /\ ~seat.busy /\ ~InThread
  /\ seat' = [seat EXCEPT !.asTask = ~@]
  /\ UNCHANGED <<drafts, sends, posted, tasked, requests, given>>

\* Another target: a new mount, whose state starts over, or for the Thread
\* composer the effect on channel.id, which leaves busy and the calls in flight.
OpenTarget(t) ==
  /\ t # seat.target
  /\ seat' = IF InThread
             THEN [Fresh(t, seat.mount, drafts[t]) EXCEPT !.busy = seat.busy]
             ELSE Fresh(t, 1 - seat.mount, drafts[t])
  /\ given' = Abandoned
  /\ \A c \in sends : c.mount = seat.mount   \* bound: no call outlives two mounts
  /\ UNCHANGED <<drafts, sends, posted, tasked, requests>>

\* Defect: every try draws a new id.
NewAttempt(body) == [body |-> body, id |-> requests + 1]

AttemptFor(body) ==
  IF seat.attempt.id # 0 /\ seat.attempt.body = body THEN seat.attempt
  ELSE [body |-> body, id |-> requests + 1]

\* executeSend, from the button, Enter, the shortcut, or a retry of a send.
Send(task) ==
  /\ seat.text # Blank /\ ~seat.busy
  /\ LET a == AttemptFor(seat.text) IN
     /\ a.id \in Ids
     /\ requests' = IF a.id > requests THEN a.id ELSE requests
     /\ sends' = sends \cup {[kind |-> "send", target |-> seat.target, mount |-> seat.mount,
                              body |-> seat.text, id |-> a.id, task |-> task, done |-> FALSE]}
     /\ seat' = [seat EXCEPT !.busy = TRUE, !.failure = None, !.attempt = a]
  /\ UNCHANGED <<drafts, posted, tasked, given>>

PressSend == Send(seat.asTask)
PressSendAsTask == ~InThread /\ Send(TRUE)
RetrySend == seat.failure.kind = "send" /\ Send(seat.failure.task)

RetryTask ==
  /\ seat.failure.kind = "task" /\ ~seat.busy
  /\ sends' = sends \cup {[kind |-> "task", target |-> seat.target, mount |-> seat.mount,
                           body |-> Blank, id |-> seat.failure.id, task |-> TRUE, done |-> FALSE]}
  /\ seat' = [seat EXCEPT !.busy = TRUE]
  /\ UNCHANGED <<drafts, posted, tasked, requests, given>>

\* The core commits the call: a request id it knows returns the stored row.
CallCommits(c) ==
  /\ c \in sends /\ ~c.done
  /\ sends' = (sends \ {c}) \cup {[c EXCEPT !.done = TRUE]}
  /\ IF c.kind = "send"
     THEN /\ posted' = IF \E m \in posted : m.id = c.id THEN posted
                       ELSE posted \cup {[id |-> c.id, target |-> c.target, body |-> c.body]}
          /\ UNCHANGED tasked
     ELSE tasked' = tasked \cup {c.id} /\ UNCHANGED posted
  /\ UNCHANGED <<seat, drafts, requests, given>>

\* Defect: the composer stays mounted when another Channel is opened.
NeverLeaves(c) == TRUE

\* A continuation's setState reaches the seat only while its mount is there.
Mounted(c) == c.mount = seat.mount
Reached(c, s) == IF Mounted(c) THEN s ELSE seat

\* The message landed: text and draft are cleared before the As-Task step, which
\* goes on in the same continuation.
SendAnswered(c) ==
  /\ c \in sends /\ c.done /\ c.kind = "send"
  /\ LET cleared == [seat EXCEPT !.text = Blank, !.attempt = NoAttempt, !.busy = c.task] IN
     /\ seat' = Reached(c, cleared)
     /\ drafts' = [t \in Targets |->
          IF t = c.target \/ (Mounted(c) /\ t = seat.target) THEN Blank ELSE drafts[t]]
  /\ sends' = (sends \ {c}) \cup
       (IF c.task THEN {[c EXCEPT !.kind = "task", !.done = FALSE]} ELSE {})
  /\ given' = given \cup {c.id}
  /\ UNCHANGED <<posted, tasked, requests>>

TaskAnswered(c) ==
  /\ c \in sends /\ c.done /\ c.kind = "task"
  /\ seat' = Reached(c, [seat EXCEPT !.busy = FALSE, !.failure = None])
  /\ sends' = sends \ {c}
  /\ UNCHANGED <<drafts, posted, tasked, requests, given>>

\* The connection drops the call or its answer: committed or not, it rejects.
CallRejected(c) ==
  /\ c \in sends
  /\ seat' = Reached(c, [seat EXCEPT !.busy = FALSE,
                                    !.failure = [kind |-> c.kind, id |-> c.id, task |-> c.task]])
  /\ sends' = sends \ {c}
  /\ UNCHANGED <<drafts, posted, tasked, requests, given>>

ComposerNext ==
  \/ \E body \in Bodies \cup {Blank} : Type(body)
  \/ TickAsTask \/ PressSend \/ PressSendAsTask \/ RetrySend \/ RetryTask
  \/ \E t \in Targets : OpenTarget(t)
  \/ \E c \in sends : CallCommits(c) \/ SendAnswered(c) \/ TaskAnswered(c) \/ CallRejected(c)

ComposerSpec == ComposerInit /\ [][ComposerNext]_composerVars

\* However often a body is retried, with answers lost after the core committed,
\* it is posted once: two equal messages in a target mean that the user knew the
\* first had landed, had edited it, or had left its composer.
RetrySendsOnce ==
  \A m, n \in posted :
    m # n /\ m.target = n.target /\ m.body = n.body => m.id \in given \/ n.id \in given

\* A draft goes away only when the user edits it or when it was posted.
DraftsAreKept ==
  [][\A t \in Targets :
       drafts[t] # Blank /\ drafts'[t] = Blank =>
         \/ seat.target = t /\ seat'.target = t /\ sends' = sends
         \/ \E m \in posted : m.target = t /\ m.body = drafts[t]]_composerVars
=============================================================================
