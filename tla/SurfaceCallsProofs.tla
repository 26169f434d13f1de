-------------------------- MODULE SurfaceCallsProofs --------------------------
(***************************************************************************)
(* Proofs about the surfaces of the web client that send calls and wait    *)
(* for their answers: the composer, one open Channel, the Agent pages of   *)
(* Settings, and the RPC channel under them.  Each invariant is proved of  *)
(* its own module's specification, for every value of the constants.       *)
(***************************************************************************)
EXTENDS Composer, ChannelSurface, AgentSettings, RemoteCalls, TLAPS

-----------------------------------------------------------------------------
(* The composer.                                                           *)

Typed == Bodies \cup {Blank}

Seats ==
  [target : Targets, mount : {0, 1}, text : Typed, asTask : BOOLEAN, busy : BOOLEAN,
   failure : [kind : {"none", "send", "task"}, id : Nat, task : BOOLEAN],
   attempt : [body : Typed, id : Nat]]

Calls ==
  [kind : {"send", "task"}, target : Targets, mount : {0, 1}, body : Typed, id : Nat,
   task : BOOLEAN, done : BOOLEAN]

ComposerTypeOK ==
  /\ seat \in Seats /\ drafts \in [Targets -> Typed]
  /\ sends \subseteq Calls
  /\ posted \subseteq [id : Nat, target : Targets, body : Typed]
  /\ requests \in Nat

\* A mounted composer waits for its one call.
OneCallAMount ==
  /\ \A c \in sends : c.mount = seat.mount => seat.busy
  /\ \A c, d \in sends : c.mount = d.mount => c = d

\* What is sent and posted bears an id that was drawn, and the core keeps one of each.
IdsAreDrawn ==
  /\ \A c \in sends : c.kind = "send" => c.id \in 1..requests
  /\ \A m \in posted : m.id \in 1..requests
  /\ \A m, n \in posted : m.id = n.id => m = n
  /\ seat.attempt.id \in 0..requests

\* An id that is not the attempt's is settled or abandoned, and so is one whose body
\* is no longer in the field; a call under way is the attempt's.
OneOpenAttempt ==
  /\ \A i \in 1..requests : i \in given \/ i = seat.attempt.id
  /\ seat.attempt.id # 0 /\ seat.attempt.body # seat.text => seat.attempt.id \in given
  /\ \A c \in sends : c.kind = "send" /\ c.mount = seat.mount => seat.attempt.id \in {0, c.id}

RetryParts == OneCallAMount /\ IdsAreDrawn /\ OneOpenAttempt
RetryInv == ComposerTypeOK /\ RetryParts

\* The field shows the draft of its target.
FieldIsDraft == seat.text = drafts[seat.target]

\* A call belongs to the target it was sent from, whose draft still holds its body.
CallsHoldDrafts ==
  \A c \in sends : /\ c.mount = seat.mount <=> c.target = seat.target
                   /\ c.kind = "send" => drafts[c.target] = c.body

\* An id stands for one body in one target.
SameId(x, target, id, body) == x.id = id => x.target = target /\ x.body = body
IdsNameBodies ==
  /\ \A c, d \in sends : c.kind = "send" /\ d.kind = "send" => SameId(c, d.target, d.id, d.body)
  /\ \A c \in sends, m \in posted : c.kind = "send" => SameId(c, m.target, m.id, m.body)
  /\ seat.attempt.id # 0 =>
       /\ \A m \in posted : SameId(m, seat.target, seat.attempt.id, seat.attempt.body)
       /\ \A c \in sends : c.kind = "send" =>
            SameId(c, seat.target, seat.attempt.id, seat.attempt.body)

\* A call that was committed has its message.
CommittedIsPosted ==
  \A c \in sends : c.kind = "send" /\ c.done =>
    \E m \in posted : m.id = c.id /\ m.target = c.target /\ m.body = c.body

DraftInv == RetryInv /\ FieldIsDraft /\ CallsHoldDrafts /\ IdsNameBodies /\ CommittedIsPosted

\* Every step is one of the composer's actions, with what it takes.
LEMMA ComposerSteps ==
  ASSUME [ComposerNext]_composerVars
  PROVE  \/ \E body \in Typed : Type(body)
         \/ TickAsTask
         \/ \E task : Send(task) /\ task \in {seat.asTask, TRUE, seat.failure.task}
         \/ RetryTask
         \/ \E t \in Targets : OpenTarget(t)
         \/ \E c \in sends : CallCommits(c) \/ SendAnswered(c) \/ TaskAnswered(c) \/ CallRejected(c)
         \/ UNCHANGED composerVars
BY DEF ComposerNext, Typed, PressSend, PressSendAsTask, RetrySend

\* A send of the attempt under way, or of a new one.
SendsAttempt(task, a, call) ==
  /\ \/ /\ a = seat.attempt /\ a.id # 0 /\ a.body = seat.text
        /\ requests' \in {a.id, requests} /\ requests' >= requests /\ requests' >= a.id
     \/ /\ a = [body |-> seat.text, id |-> requests + 1] /\ requests' = requests + 1
        /\ ~(seat.attempt.id # 0 /\ seat.attempt.body = seat.text)
  /\ call = [kind |-> "send", target |-> seat.target, mount |-> seat.mount,
             body |-> seat.text, id |-> a.id, task |-> task, done |-> FALSE]
  /\ sends' = sends \cup {call}
  /\ seat' = [seat EXCEPT !.busy = TRUE, !.failure = None, !.attempt = a]
  /\ UNCHANGED <<drafts, posted, tasked, given>>

\* Send is one of these.
LEMMA SendEffect ==
  ASSUME ComposerTypeOK, NEW task \in BOOLEAN, Send(task)
  PROVE  \E a \in [body : Typed, id : Nat], call \in Calls : SendsAttempt(task, a, call)
<1> DEFINE a == AttemptFor(seat.text)
           call == [kind |-> "send", target |-> seat.target, mount |-> seat.mount,
                    body |-> seat.text, id |-> a.id, task |-> task, done |-> FALSE]
<1>1. a \in [body : Typed, id : Nat] /\ a.id \in Nat
  BY DEF AttemptFor, ComposerTypeOK, Seats
<1>2. call \in Calls
  <2> HIDE DEF a
  <2> QED BY <1>1 DEF ComposerTypeOK, Seats, Calls
<1>3. /\ sends' = sends \cup {call}
      /\ seat' = [seat EXCEPT !.busy = TRUE, !.failure = None, !.attempt = a]
      /\ requests' = IF a.id > requests THEN a.id ELSE requests
      /\ UNCHANGED <<drafts, posted, tasked, given>>
  BY DEF Send
<1>4. \/ a = seat.attempt /\ a.id # 0 /\ a.body = seat.text
      \/ /\ a = [body |-> seat.text, id |-> requests + 1]
         /\ ~(seat.attempt.id # 0 /\ seat.attempt.body = seat.text)
  BY DEF AttemptFor
<1>5. /\ requests' \in {a.id, requests} /\ requests' >= requests /\ requests' >= a.id
      /\ a = [body |-> seat.text, id |-> requests + 1] => requests' = requests + 1
  <2> HIDE DEF a
  <2> QED BY <1>1, <1>3 DEF ComposerTypeOK
<1> HIDE DEF a, call
<1> QED BY <1>1, <1>2, <1>3, <1>4, <1>5 DEF a, call, SendsAttempt

\* The types hold at first, and every step keeps them.
LEMMA ComposerTypes ==
  /\ ComposerInit => ComposerTypeOK
  /\ ComposerTypeOK /\ [ComposerNext]_composerVars => ComposerTypeOK'
<1>1. ComposerInit => ComposerTypeOK
  BY DEF ComposerInit, ComposerTypeOK, Fresh, None, NoAttempt, Seats, Typed
<1>2. ASSUME ComposerTypeOK, [ComposerNext]_composerVars PROVE ComposerTypeOK'
  <2> USE DEF ComposerTypeOK
  <2>1. ASSUME NEW body \in Typed, Type(body) PROVE ComposerTypeOK'
    BY <1>2, <2>1 DEF Type, SetText, Seats
  <2>2. CASE TickAsTask
    BY <1>2, <2>2 DEF TickAsTask, Seats
  <2>3. ASSUME NEW task \in BOOLEAN, Send(task) PROVE ComposerTypeOK'
    <3>1. PICK a \in [body : Typed, id : Nat], call \in Calls : SendsAttempt(task, a, call)
      BY <1>2, <2>3, SendEffect
    <3> USE DEF SendsAttempt
    <3>2. requests' \in Nat
      BY <1>2, <3>1
    <3>3. seat' \in Seats
      BY <1>2, <3>1 DEF Seats, None
    <3> QED BY <1>2, <3>1, <3>2, <3>3
  <2>4. CASE RetryTask
    <3>1. seat' \in Seats
      BY <1>2, <2>4 DEF RetryTask, Seats
    <3>2. [kind |-> "task", target |-> seat.target, mount |-> seat.mount, body |-> Blank,
           id |-> seat.failure.id, task |-> TRUE, done |-> FALSE] \in Calls
      BY <1>2 DEF Seats, Calls, Typed
    <3> QED BY <1>2, <2>4, <3>1, <3>2 DEF RetryTask
  <2>5. ASSUME NEW t \in Targets, OpenTarget(t) PROVE ComposerTypeOK'
    <3>1. seat' \in Seats
      <4>1. \A n \in {0, 1}, b \in BOOLEAN :
              /\ Fresh(t, n, drafts[t]) \in Seats
              /\ [Fresh(t, n, drafts[t]) EXCEPT !.busy = b] \in Seats
        <5> SUFFICES ASSUME NEW n \in {0, 1}
                     PROVE  /\ Fresh(t, n, drafts[t]) \in Seats
                            /\ \A b \in BOOLEAN :
                                 [Fresh(t, n, drafts[t]) EXCEPT !.busy = b] \in Seats
          OBVIOUS
        <5>1. None \in [kind : {"none", "send", "task"}, id : Nat, task : BOOLEAN]
          BY DEF None
        <5>2. NoAttempt \in [body : Typed, id : Nat] /\ drafts[t] \in Typed
          BY <1>2 DEF NoAttempt, Typed
        <5>3. Fresh(t, n, drafts[t]) \in Seats
          BY <5>1, <5>2 DEF Fresh, Seats
        <5> QED BY <5>3 DEF Seats
      <4>2. seat.mount \in {0, 1} /\ 1 - seat.mount \in {0, 1} /\ seat.busy \in BOOLEAN
        BY <1>2 DEF Seats
      <4> QED BY <2>5, <4>1, <4>2 DEF OpenTarget
    <3> QED BY <1>2, <2>5, <3>1 DEF OpenTarget
  <2>6. ASSUME NEW c \in sends, CallCommits(c) PROVE ComposerTypeOK'
    <3>1. [c EXCEPT !.done = TRUE] \in Calls
      BY <1>2 DEF Calls
    <3>2. [id |-> c.id, target |-> c.target, body |-> c.body]
            \in [id : Nat, target : Targets, body : Typed]
      BY <1>2 DEF Calls
    <3> QED BY <1>2, <2>6, <3>1, <3>2 DEF CallCommits
  <2>7. ASSUME NEW c \in sends, SendAnswered(c) PROVE ComposerTypeOK'
    <3>1. [c EXCEPT !.kind = "task", !.done = FALSE] \in Calls
      BY <1>2 DEF Calls
    <3>2. seat' \in Seats
      BY <1>2, <2>7 DEF SendAnswered, Reached, Mounted, NoAttempt, Seats, Calls, Typed
    <3>3. drafts' \in [Targets -> Typed]
      BY <1>2, <2>7 DEF SendAnswered, Typed
    <3> QED BY <1>2, <2>7, <3>1, <3>2, <3>3 DEF SendAnswered
  <2>8. ASSUME NEW c \in sends, TaskAnswered(c) PROVE ComposerTypeOK'
    <3>1. seat' \in Seats
      BY <1>2, <2>8 DEF TaskAnswered, Reached, None, Seats
    <3> QED BY <1>2, <2>8, <3>1 DEF TaskAnswered
  <2>9. ASSUME NEW c \in sends, CallRejected(c) PROVE ComposerTypeOK'
    <3>1. seat' \in Seats
      BY <1>2, <2>9 DEF CallRejected, Reached, Seats, Calls
    <3> QED BY <1>2, <2>9, <3>1 DEF CallRejected
  <2>10. CASE UNCHANGED composerVars
    BY <1>2, <2>10 DEF composerVars
  <2>11. {seat.asTask, TRUE, seat.failure.task} \subseteq BOOLEAN
    BY <1>2 DEF Seats
  <2> QED BY <1>2, <2>1, <2>2, <2>3, <2>4, <2>5, <2>6, <2>7, <2>8, <2>9, <2>10, <2>11, ComposerSteps
<1> QED BY <1>1, <1>2

\* RetryInv holds at first, and every step keeps it.
LEMMA RetryInductive ==
  /\ ComposerInit => RetryInv
  /\ RetryInv /\ [ComposerNext]_composerVars => RetryInv'
<1>1. ComposerInit => RetryInv
  <2>1. ComposerInit => RetryParts
    BY DEF ComposerInit, Fresh, NoAttempt, RetryParts, OneCallAMount, IdsAreDrawn, OneOpenAttempt
  <2> QED BY <2>1, ComposerTypes DEF RetryInv
<1>2. ASSUME RetryInv, [ComposerNext]_composerVars PROVE RetryInv'
  <2>0. ComposerTypeOK /\ ComposerTypeOK' /\ OneCallAMount /\ IdsAreDrawn /\ OneOpenAttempt
    BY <1>2, ComposerTypes DEF RetryInv, RetryParts
  <2>a. SUFFICES RetryParts'
    BY <2>0 DEF RetryInv
  <2>b. /\ seat \in Seats /\ seat' \in Seats /\ requests \in Nat /\ requests' \in Nat
        /\ sends \subseteq Calls /\ sends' \subseteq Calls
        /\ posted \subseteq [id : Nat, target : Targets, body : Typed]
    BY <2>0 DEF ComposerTypeOK
  <2>c. seat.attempt.id \in Nat /\ seat.mount \in {0, 1}
    BY <2>b DEF Seats
  <2> USE DEF RetryParts, OneCallAMount, IdsAreDrawn, OneOpenAttempt
  <2>1. ASSUME NEW body \in Typed, Type(body) PROVE RetryParts'
    <3>1. /\ seat'.mount = seat.mount /\ seat'.busy = seat.busy /\ seat'.attempt = seat.attempt
          /\ given' = given \cup {seat.attempt.id} /\ UNCHANGED <<sends, posted, requests>>
          /\ ~seat.busy
      BY <2>1, <2>b DEF Type, SetText, Seats, Abandoned
    <3> QED BY <2>0, <2>b, <2>c, <3>1
  <2>2. CASE TickAsTask
    <3>1. /\ seat'.mount = seat.mount /\ seat'.busy = seat.busy /\ seat'.attempt = seat.attempt
          /\ seat'.text = seat.text /\ UNCHANGED <<sends, posted, requests, given>>
      BY <2>2, <2>b DEF TickAsTask, Seats
    <3> QED BY <2>0, <2>b, <3>1
  <2>3. ASSUME NEW task \in BOOLEAN, Send(task) PROVE RetryParts'
    <3>1. PICK a \in [body : Typed, id : Nat], call \in Calls : SendsAttempt(task, a, call)
      BY <2>0, <2>3, SendEffect
    <3> USE DEF SendsAttempt
    <3>2. /\ seat'.mount = seat.mount /\ seat'.busy = TRUE /\ seat'.attempt = a
          /\ seat'.text = seat.text
      BY <2>b, <3>1 DEF Seats
    <3>3. call.kind = "send" /\ call.mount = seat.mount /\ call.id = a.id
      BY <3>1
    <3>4. \A c \in sends : c.mount # seat.mount
      BY <2>0, <2>3 DEF Send
    <3>5. OneCallAMount'
      <4>1. sends' = sends \cup {call}
        BY <3>1
      <4> QED BY <2>0, <3>2, <3>3, <3>4, <4>1
    <3>6. CASE a = seat.attempt /\ a.id # 0 /\ a.body = seat.text
      <4>1. requests' = requests
        BY <2>0, <2>b, <2>c, <3>1, <3>6
      <4> QED BY <2>0, <2>b, <2>c, <3>1, <3>2, <3>3, <3>4, <3>5, <3>6, <4>1
    <3>7. CASE /\ a = [body |-> seat.text, id |-> requests + 1] /\ requests' = requests + 1
               /\ ~(seat.attempt.id # 0 /\ seat.attempt.body = seat.text)
      <4>1. a.id = requests + 1 /\ a.body = seat.text
        BY <3>7
      <4>2. IdsAreDrawn'
        BY <2>0, <2>b, <3>1, <3>2, <3>3, <3>7, <4>1
      <4>3. \A i \in 1..requests : i \in given
        BY <2>0, <2>b, <2>c, <3>7
      <4> QED BY <2>0, <2>b, <3>1, <3>2, <3>3, <3>4, <3>5, <3>7, <4>1, <4>2, <4>3
    <3> QED BY <3>1, <3>6, <3>7
  <2>4. CASE RetryTask
    <3> DEFINE call == [kind |-> "task", target |-> seat.target, mount |-> seat.mount,
                        body |-> Blank, id |-> seat.failure.id, task |-> TRUE, done |-> FALSE]
    <3>1. /\ seat'.mount = seat.mount /\ seat'.busy = TRUE /\ seat'.attempt = seat.attempt
          /\ seat'.text = seat.text /\ UNCHANGED <<posted, requests, given>>
          /\ sends' = sends \cup {call} /\ ~seat.busy
      BY <2>4, <2>b DEF RetryTask, Seats
    <3>2. call.kind = "task" /\ call.mount = seat.mount
      OBVIOUS
    <3> HIDE DEF call
    <3> QED BY <2>0, <2>b, <3>1, <3>2
  <2>5. ASSUME NEW t \in Targets, OpenTarget(t) PROVE RetryParts'
    <3>1. /\ seat'.attempt.id = 0 /\ given' = given \cup {seat.attempt.id}
          /\ UNCHANGED <<sends, posted, requests>> /\ \A c \in sends : c.mount = seat.mount
      BY <2>5, <2>b DEF OpenTarget, Fresh, NoAttempt, Abandoned, Seats
    <3>2. \/ seat'.mount = seat.mount /\ seat'.busy = seat.busy
          \/ seat'.mount = 1 - seat.mount
      BY <2>5, <2>b DEF OpenTarget, Fresh, Seats
    <3> QED BY <2>0, <2>b, <2>c, <3>1, <3>2
  <2>6. ASSUME NEW c \in sends, CallCommits(c) PROVE RetryParts'
    <3> DEFINE e == [c EXCEPT !.done = TRUE]
               m == [id |-> c.id, target |-> c.target, body |-> c.body]
    <3>1. /\ UNCHANGED <<seat, requests, given>> /\ sends' = (sends \ {c}) \cup {e}
          /\ posted' \in {posted, posted \cup {m}}
          /\ posted' # posted => c.kind = "send" /\ \A n \in posted : n.id # c.id
      BY <2>6 DEF CallCommits
    <3>2. e.kind = c.kind /\ e.mount = c.mount /\ e.id = c.id /\ m.id = c.id
      BY <2>b DEF Calls
    <3> HIDE DEF e, m
    <3> QED BY <2>0, <2>b, <3>1, <3>2
  <2>7. ASSUME NEW c \in sends, SendAnswered(c) PROVE RetryParts'
    <3> DEFINE e == [c EXCEPT !.kind = "task", !.done = FALSE]
    <3>1. /\ UNCHANGED <<posted, requests>> /\ given' = given \cup {c.id} /\ c.kind = "send"
          /\ sends' = (sends \ {c}) \cup (IF c.task THEN {e} ELSE {})
      BY <2>7 DEF SendAnswered
    <3>2. e.kind = "task" /\ e.mount = c.mount /\ e.id = c.id
      BY <2>b DEF Calls
    <3>3. CASE c.mount = seat.mount
      <4>1. seat'.mount = seat.mount /\ seat'.busy = c.task /\ seat'.attempt.id = 0
        BY <2>7, <2>b, <3>3 DEF SendAnswered, Reached, Mounted, NoAttempt, Seats
      <4> HIDE DEF e
      <4> QED BY <2>0, <2>b, <2>c, <3>1, <3>2, <3>3, <4>1
    <3>4. CASE c.mount # seat.mount
      <4>1. UNCHANGED seat
        BY <2>7, <3>4 DEF SendAnswered, Reached, Mounted
      <4> HIDE DEF e
      <4> QED BY <2>0, <2>b, <2>c, <3>1, <3>2, <3>4, <4>1
    <3> QED BY <3>3, <3>4
  <2>8. ASSUME NEW c \in sends, TaskAnswered(c) \/ CallRejected(c)
        PROVE  RetryParts'
    <3>1. UNCHANGED <<posted, requests, given>> /\ sends' = sends \ {c}
      BY <2>8 DEF TaskAnswered, CallRejected
    <3>2. /\ seat'.mount = seat.mount /\ seat'.attempt = seat.attempt /\ seat'.text = seat.text
          /\ c.mount # seat.mount => UNCHANGED seat
      <4>1. CASE c.mount = seat.mount
        <5>1. \E f : seat' = [seat EXCEPT !.busy = FALSE, !.failure = f]
          BY <2>8, <4>1 DEF TaskAnswered, CallRejected, Reached, Mounted
        <5> QED BY <2>b, <4>1, <5>1 DEF Seats
      <4>2. CASE c.mount # seat.mount
        BY <2>8, <4>2 DEF TaskAnswered, CallRejected, Reached, Mounted
      <4> QED BY <4>1, <4>2
    <3> QED BY <2>0, <2>b, <3>1, <3>2
  <2>9. CASE UNCHANGED composerVars
    BY <2>0, <2>9 DEF composerVars
  <2>10. {seat.asTask, TRUE, seat.failure.task} \subseteq BOOLEAN
    BY <2>b DEF Seats
  <2> QED BY <1>2, <2>1, <2>2, <2>3, <2>4, <2>5, <2>6, <2>7, <2>8, <2>9, <2>10, ComposerSteps
<1> QED BY <1>1, <1>2

\* However often a body is retried, with answers lost after the core committed, it is
\* posted once: of two ids that were drawn only one is the attempt's.
THEOREM RetriesAlwaysSendOnce == ComposerSpec => []RetrySendsOnce
<1>1. RetryInv => RetrySendsOnce
  <2> SUFFICES ASSUME RetryInv, NEW m \in posted, NEW n \in posted, m # n
               PROVE  m.id \in given \/ n.id \in given
    BY DEF RetrySendsOnce
  <2> QED BY DEF RetryInv, RetryParts, IdsAreDrawn, OneOpenAttempt
<1> QED BY <1>1, RetryInductive, PTL DEF ComposerSpec

DraftParts == FieldIsDraft /\ CallsHoldDrafts /\ IdsNameBodies /\ CommittedIsPosted

\* DraftInv holds at first, and every step of a Channel's composer keeps it.
LEMMA DraftInductive ==
  ASSUME InThread = FALSE
  PROVE  /\ ComposerInit => DraftInv
         /\ DraftInv /\ [ComposerNext]_composerVars => DraftInv'
<1>1. ComposerInit => DraftInv
  <2>1. ComposerInit => DraftParts
    BY DEF ComposerInit, Fresh, NoAttempt, DraftParts, FieldIsDraft, CallsHoldDrafts,
           IdsNameBodies, CommittedIsPosted
  <2> QED BY <2>1, RetryInductive DEF DraftInv, DraftParts
<1>2. ASSUME DraftInv, [ComposerNext]_composerVars PROVE DraftInv'
  <2>0. /\ RetryInv /\ RetryInv' /\ ComposerTypeOK /\ ComposerTypeOK' /\ OneCallAMount
        /\ IdsAreDrawn /\ OneOpenAttempt /\ DraftParts
    BY <1>2, RetryInductive DEF DraftInv, DraftParts, RetryInv, RetryParts
  <2>a. SUFFICES DraftParts'
    BY <2>0 DEF DraftInv, DraftParts
  <2>b. /\ seat \in Seats /\ seat' \in Seats /\ requests \in Nat
        /\ sends \subseteq Calls /\ sends' \subseteq Calls
        /\ posted \subseteq [id : Nat, target : Targets, body : Typed]
        /\ drafts \in [Targets -> Typed]
    BY <2>0 DEF ComposerTypeOK
  <2>c. seat.attempt.id \in Nat /\ seat.mount \in {0, 1} /\ seat.target \in Targets
    BY <2>b DEF Seats
  <2>d. /\ \A c \in sends : c.target \in Targets /\ c.id \in Nat /\ c.mount \in {0, 1}
        /\ \A m \in posted : m.id \in Nat
    BY <2>b DEF Calls
  <2> USE DEF DraftParts, FieldIsDraft, CallsHoldDrafts, IdsNameBodies, CommittedIsPosted, SameId
  <2>1. ASSUME NEW body \in Typed, Type(body) PROVE DraftParts'
    <3>1. /\ seat'.mount = seat.mount /\ seat'.target = seat.target /\ seat'.attempt = seat.attempt
          /\ seat'.text = body /\ UNCHANGED <<sends, posted>>
          /\ ~seat.busy /\ drafts' = [drafts EXCEPT ![seat.target] = body]
      BY <2>1, <2>b DEF Type, SetText, Seats
    <3>2. \A c \in sends : c.target # seat.target
      BY <2>0, <3>1 DEF OneCallAMount
    <3> QED BY <2>0, <2>b, <2>c, <2>d, <3>1, <3>2
  <2>2. CASE TickAsTask
    <3>1. /\ seat'.mount = seat.mount /\ seat'.target = seat.target /\ seat'.attempt = seat.attempt
          /\ seat'.text = seat.text /\ UNCHANGED <<sends, posted, drafts>>
      BY <2>2, <2>b DEF TickAsTask, Seats
    <3> QED BY <2>0, <3>1
  <2>3. ASSUME NEW task \in BOOLEAN, Send(task) PROVE DraftParts'
    <3>1. PICK a \in [body : Typed, id : Nat], call \in Calls : SendsAttempt(task, a, call)
      BY <2>0, <2>3, SendEffect
    <3> USE DEF SendsAttempt
    <3>2. /\ seat'.mount = seat.mount /\ seat'.attempt = a
          /\ seat'.text = seat.text /\ seat'.target = seat.target
      BY <2>b, <3>1 DEF Seats
    <3>3. /\ call.kind = "send" /\ call.mount = seat.mount /\ call.id = a.id /\ ~call.done
          /\ call.target = seat.target /\ call.body = seat.text
      BY <3>1
    <3>4. a.body = seat.text
      BY <3>1
    <3>5. /\ \A m \in posted : SameId(m, seat.target, a.id, seat.text)
          /\ \A c \in sends : c.kind = "send" => SameId(c, seat.target, a.id, seat.text)
      <4>1. CASE a = seat.attempt /\ a.id # 0 /\ a.body = seat.text
        BY <2>0, <4>1
      <4>2. CASE a = [body |-> seat.text, id |-> requests + 1]
        <5>1. a.id = requests + 1
          BY <4>2
        <5> QED BY <2>0, <2>b, <5>1 DEF IdsAreDrawn
      <4> QED BY <3>1, <4>1, <4>2
    <3>6. sends' = sends \cup {call} /\ UNCHANGED <<drafts, posted>>
      BY <3>1
    <3>7. FieldIsDraft' /\ CallsHoldDrafts' /\ CommittedIsPosted'
      BY <2>0, <3>2, <3>3, <3>6
    <3>8. IdsNameBodies'
      BY <2>0, <3>2, <3>3, <3>4, <3>5, <3>6
    <3> QED BY <3>7, <3>8
  <2>4. CASE RetryTask
    <3> DEFINE call == [kind |-> "task", target |-> seat.target, mount |-> seat.mount,
                        body |-> Blank, id |-> seat.failure.id, task |-> TRUE, done |-> FALSE]
    <3>1. /\ seat'.mount = seat.mount /\ seat'.target = seat.target /\ seat'.attempt = seat.attempt
          /\ seat'.text = seat.text /\ UNCHANGED <<posted, drafts>>
          /\ sends' = sends \cup {call}
      BY <2>4, <2>b DEF RetryTask, Seats
    <3>2. call.kind = "task" /\ call.mount = seat.mount /\ call.target = seat.target
      OBVIOUS
    <3> HIDE DEF call
    <3> QED BY <2>0, <3>1, <3>2
  <2>5. ASSUME NEW t \in Targets, OpenTarget(t) PROVE DraftParts'
    <3>1. /\ seat'.attempt.id = 0 /\ seat'.target = t /\ seat'.text = drafts[t]
          /\ seat'.mount = 1 - seat.mount /\ t # seat.target
          /\ UNCHANGED <<sends, posted, drafts>> /\ \A c \in sends : c.mount = seat.mount
      BY <2>5, <2>b DEF OpenTarget, Fresh, NoAttempt
    <3> QED BY <2>0, <2>c, <3>1
  <2>6. ASSUME NEW c \in sends, CallCommits(c) PROVE DraftParts'
    <3> DEFINE e == [c EXCEPT !.done = TRUE]
               m == [id |-> c.id, target |-> c.target, body |-> c.body]
    <3>1. /\ UNCHANGED <<seat, drafts>> /\ sends' = (sends \ {c}) \cup {e}
          /\ posted' = IF c.kind # "send" \/ \E n \in posted : n.id = c.id THEN posted
                       ELSE posted \cup {m}
      BY <2>6 DEF CallCommits
    <3>2. /\ e.kind = c.kind /\ e.mount = c.mount /\ e.id = c.id /\ e.target = c.target
          /\ e.body = c.body /\ m.id = c.id /\ m.target = c.target /\ m.body = c.body
      BY <2>b DEF Calls
    <3> HIDE DEF e, m
    <3>3. FieldIsDraft' /\ CallsHoldDrafts'
      BY <2>0, <3>1, <3>2
    <3>4. IdsNameBodies'
      <4>1. \A d \in sends' : \E o \in sends : d.kind = o.kind /\ d.id = o.id /\ d.target = o.target
                                              /\ d.body = o.body
        BY <3>1, <3>2
      <4>2. \A n \in posted' : n \in posted \/ (n = m /\ c.kind = "send")
        BY <3>1
      <4> QED BY <2>0, <3>1, <3>2, <4>1, <4>2
    <3>5. CommittedIsPosted'
      <4> SUFFICES ASSUME NEW d \in sends', d.kind = "send", d.done
                   PROVE  \E n \in posted' : n.id = d.id /\ n.target = d.target /\ n.body = d.body
        OBVIOUS
      <4>1. CASE d = e
        BY <2>0, <3>1, <3>2, <4>1
      <4>2. CASE d \in sends
        BY <2>0, <3>1, <4>2
      <4> QED BY <3>1, <4>1, <4>2
    <3> QED BY <3>3, <3>4, <3>5
  <2>7. ASSUME NEW c \in sends, SendAnswered(c) PROVE DraftParts'
    <3> DEFINE e == [c EXCEPT !.kind = "task", !.done = FALSE]
    <3>1. /\ UNCHANGED posted /\ c.kind = "send"
          /\ sends' = (sends \ {c}) \cup (IF c.task THEN {e} ELSE {})
      BY <2>7 DEF SendAnswered
    <3>2. e.kind = "task" /\ e.mount = c.mount /\ e.target = c.target
      BY <2>b DEF Calls
    <3> HIDE DEF e
    <3>3. drafts' = [drafts EXCEPT ![c.target] = Blank]
      BY <2>0, <2>7, <2>b, <2>d DEF SendAnswered, Mounted
    <3>4. \A d \in sends : d.target = c.target => d = c
      BY <2>0, <2>c, <2>d DEF OneCallAMount
    <3>5. CASE c.mount = seat.mount
      <4>1. /\ seat'.mount = seat.mount /\ seat'.target = seat.target /\ seat'.attempt.id = 0
            /\ seat'.text = Blank
        BY <2>7, <2>b, <3>5 DEF SendAnswered, Reached, Mounted, NoAttempt, Seats
      <4> QED BY <2>0, <2>b, <2>c, <2>d, <3>1, <3>2, <3>3, <3>4, <3>5, <4>1
    <3>6. CASE c.mount # seat.mount
      <4>1. UNCHANGED seat
        BY <2>7, <3>6 DEF SendAnswered, Reached, Mounted
      <4> QED BY <2>0, <2>b, <2>c, <2>d, <3>1, <3>2, <3>3, <3>4, <3>6, <4>1
    <3> QED BY <3>5, <3>6
  <2>8. ASSUME NEW c \in sends, TaskAnswered(c) \/ CallRejected(c) PROVE DraftParts'
    <3>1. UNCHANGED <<posted, drafts>> /\ sends' = sends \ {c}
      BY <2>8 DEF TaskAnswered, CallRejected
    <3>2. /\ seat'.mount = seat.mount /\ seat'.target = seat.target
          /\ seat'.attempt = seat.attempt /\ seat'.text = seat.text
      <4>1. CASE c.mount = seat.mount
        <5>1. \E f : seat' = [seat EXCEPT !.busy = FALSE, !.failure = f]
          BY <2>8, <4>1 DEF TaskAnswered, CallRejected, Reached, Mounted
        <5> QED BY <2>b, <5>1 DEF Seats
      <4>2. CASE c.mount # seat.mount
        BY <2>8, <4>2 DEF TaskAnswered, CallRejected, Reached, Mounted
      <4> QED BY <4>1, <4>2
    <3> QED BY <2>0, <3>1, <3>2
  <2>9. CASE UNCHANGED composerVars
    BY <2>0, <2>9 DEF composerVars
  <2>10. {seat.asTask, TRUE, seat.failure.task} \subseteq BOOLEAN
    BY <2>b DEF Seats
  <2> QED BY <1>2, <2>1, <2>2, <2>3, <2>4, <2>5, <2>6, <2>7, <2>8, <2>9, <2>10, ComposerSteps
<1> QED BY <1>1, <1>2

\* A draft of a Channel's composer goes away only when the user edits it or when it was
\* posted: the call that clears it holds its body, and was committed.
THEOREM DraftsAlwaysKept ==
  ASSUME InThread = FALSE
  PROVE  ComposerSpec => DraftsAreKept
<1> DEFINE Kept ==
      \A t \in Targets :
        drafts[t] # Blank /\ drafts'[t] = Blank =>
          \/ seat.target = t /\ seat'.target = t /\ sends' = sends
          \/ \E m \in posted : m.target = t /\ m.body = drafts[t]
<1>1. DraftInv /\ [ComposerNext]_composerVars => [Kept]_composerVars
  <2> SUFFICES ASSUME DraftInv, ComposerNext, NEW t \in Targets,
                      drafts[t] # Blank, drafts'[t] = Blank
               PROVE  \/ seat.target = t /\ seat'.target = t /\ sends' = sends
                      \/ \E m \in posted : m.target = t /\ m.body = drafts[t]
    OBVIOUS
  <2>1. seat \in Seats /\ sends \subseteq Calls /\ drafts \in [Targets -> Typed]
    BY DEF DraftInv, RetryInv, ComposerTypeOK
  <2>2. ASSUME NEW body \in Typed, Type(body)
        PROVE  seat.target = t /\ seat'.target = t /\ sends' = sends
    BY <2>1, <2>2 DEF Type, SetText, Seats
  <2>3. ASSUME NEW c \in sends, SendAnswered(c)
        PROVE  \E m \in posted : m.target = t /\ m.body = drafts[t]
    <3>1. t = c.target /\ c.kind = "send" /\ c.done
      BY <2>1, <2>3 DEF SendAnswered, Mounted, DraftInv, CallsHoldDrafts
    <3> QED BY <3>1 DEF DraftInv, CallsHoldDrafts, CommittedIsPosted
  <2>4. ASSUME UNCHANGED drafts PROVE FALSE
    BY <2>4
  <2> QED BY <2>2, <2>3, <2>4, ComposerSteps
          DEF TickAsTask, Send, RetryTask, OpenTarget, CallCommits, TaskAnswered, CallRejected,
              composerVars
<1> QED BY <1>1, DraftInductive, PTL DEF ComposerSpec, DraftsAreKept

-----------------------------------------------------------------------------
(* One open Channel.                                                       *)

Places == StreamRows \cup {NoRow}

Streams == [loaded : BOOLEAN, held : SUBSET StreamRows, more : BOOLEAN, done : BOOLEAN,
            older : BOOLEAN, resyncing : BOOLEAN]
Pagings == [older : {"none", "mine", "other", "stale"}, roots : SUBSET Places]
Mounts == [docked : BOOLEAN, active : BOOLEAN, restDone : BOOLEAN]

SurfaceTypeOK ==
  /\ place \in [tab : {"messages", "tasks"}, thread : Places, jump : Places]
  /\ refs \in [handled : Places, opening : Places]
  /\ mount \in Mounts
  /\ stream \in Streams
  /\ threads \in [listed : SUBSET StreamRows, loaded : SUBSET StreamRows]
  /\ paging \in Pagings
  /\ pendingRoot \in Places

SurfaceInv == SurfaceTypeOK /\ JumpKeepsMoving

\* A render lets the jump effect run again, whatever it shows.
LEMMA RenderedMoves ==
  ASSUME Rendered PROVE JumpKeepsMoving'
BY DEF Rendered, Effects, JumpKeepsMoving

\* The flags alone: loading, a resync, or nothing.
LEMMA FlagsOnly ==
  ASSUME SurfaceTypeOK,
         \/ UNCHANGED stream
         \/ \E b \in BOOLEAN : \/ stream' = [stream EXCEPT !.older = b]
                            \/ stream' = [stream EXCEPT !.resyncing = b]
  PROVE  stream' \in Streams
<1>1. stream \in Streams
  BY DEF SurfaceTypeOK
<1> QED BY <1>1 DEF Streams

\* The page asked for is this Channel's, or that of the one that is active.
LEMMA LoadsOlderTyped ==
  ASSUME SurfaceTypeOK, LoadsOlder,
         UNCHANGED <<place, refs, pendingRoot, mount, threads>>
  PROVE  SurfaceTypeOK'
<1>1. stream' \in {stream, [stream EXCEPT !.older = TRUE]}
  BY DEF LoadsOlder
<1>2. paging' \in {paging, [paging EXCEPT !.older = "mine"], [paging EXCEPT !.older = "other"]}
  BY DEF LoadsOlder
<1>3. paging' \in Pagings
  BY <1>2 DEF SurfaceTypeOK, Pagings
<1> QED BY <1>1, <1>3, FlagsOnly DEF SurfaceTypeOK

\* The jump effect ends with the row reported, a page on its way, or nothing to do; the
\* store returns early only by the headDone of the active Channel.
LEMMA JumpEffectMoves ==
  ASSUME SurfaceTypeOK, JumpEffect
  PROVE  SurfaceTypeOK' /\ JumpKeepsMoving'
<1> DEFINE Goal == SurfaceTypeOK' /\ JumpKeepsMoving'
<1>0. /\ place.tab = "messages" /\ "jump" \in due /\ UNCHANGED <<pendingRoot, mount, threads>>
      /\ place.jump \in Places
  BY DEF JumpEffect, SurfaceTypeOK
<1>1. ASSUME Report PROVE Goal
  <2>1. JumpKeepsMoving'
    BY <1>1, RenderedMoves DEF Report
  <2> QED BY <1>0, <1>1, <2>1 DEF Report, SurfaceTypeOK, Places
<1>2. ASSUME ~stream.older, HasMore, LoadsOlder, UNCHANGED <<place, refs>>
      PROVE  Goal
  <2>1. SurfaceTypeOK'
    BY <1>0, <1>2, LoadsOlderTyped
  <2>2. CASE CanPage
    BY <1>2, <2>1, <2>2, RenderedMoves DEF LoadsOlder
  <2>3. CASE ~CanPage
    <3>1. HeadDone /\ UNCHANGED <<stream, mount>>
      BY <1>0, <1>2, <2>3 DEF CanPage, LoadsOlder
    <3>2. HasMore' /\ HeadDone'
      BY <1>2, <3>1 DEF HasMore, HeadDone
    <3> QED BY <2>1, <3>2 DEF JumpKeepsMoving
  <2> QED BY <2>2, <2>3
<1>3. ASSUME stream.older, due' = due \ {"jump"}, UNCHANGED <<place, refs, stream, paging>>
      PROVE  Goal
  <2>1. JumpKeepsMoving'
    BY <1>3 DEF JumpKeepsMoving, SurfaceTypeOK, Pagings
  <2> QED BY <1>0, <1>3, <2>1 DEF SurfaceTypeOK
<1>4. ASSUME place.jump = NoRow \/ stream.resyncing \/ refs.handled = place.jump,
             refs' = IF place.jump = NoRow THEN [refs EXCEPT !.handled = NoRow] ELSE refs,
             UNCHANGED <<place, stream, paging>>
      PROVE  Goal
  <2>1. JumpKeepsMoving'
    BY <1>4 DEF JumpKeepsMoving, StreamShown
  <2> QED BY <1>0, <1>4, <2>1 DEF SurfaceTypeOK, Places
<1> QED BY <1>1, <1>2, <1>3, <1>4 DEF JumpEffect

\* The user and the store move the view, the Threads and the mount; what they render lets
\* the jump effect run.
LEMMA ViewKeeps ==
  ASSUME SurfaceTypeOK, Rendered,
         place' \in [tab : {"messages", "tasks"}, thread : Places, jump : Places],
         refs' \in [handled : Places, opening : Places],
         mount' \in Mounts,
         paging' \in Pagings,
         threads' \in [listed : SUBSET StreamRows, loaded : SUBSET StreamRows],
         pendingRoot' \in Places,
         \/ UNCHANGED stream
         \/ \E b \in BOOLEAN : stream' = [stream EXCEPT !.older = b]
         \/ \E b \in BOOLEAN : stream' = [stream EXCEPT !.resyncing = b]
  PROVE  SurfaceInv'
<1>1. JumpKeepsMoving'
  BY RenderedMoves
<1>2. stream' \in Streams
  BY FlagsOnly
<1> QED BY <1>1, <1>2 DEF SurfaceInv, SurfaceTypeOK

\* Lists, totals, a page and a resync change what the store has of the Channel.
LEMMA RowsKeep ==
  ASSUME SurfaceTypeOK,
         \/ Recounted \/ ListsReplaced
         \/ \E rows \in SUBSET StreamRows : RowsShown(rows) \/ PageReturns(rows)
  PROVE  SurfaceInv'
<1>1. CASE Recounted
  <2>1. stream' \in Streams
    BY <1>1 DEF Recounted, SurfaceTypeOK, Streams
  <2> QED BY <1>1, <2>1, RenderedMoves DEF Recounted, SurfaceTypeOK, SurfaceInv
<1>2. CASE ListsReplaced
  <2>1. stream' \in Streams
    BY <1>2 DEF ListsReplaced, Unloaded, SurfaceTypeOK, Streams
  <2>2. mount' \in Mounts
    BY <1>2 DEF ListsReplaced, SurfaceTypeOK, Mounts
  <2>3. threads' \in [listed : SUBSET StreamRows, loaded : SUBSET StreamRows]
    BY <1>2 DEF ListsReplaced, SurfaceTypeOK
  <2> QED BY <1>2, <2>1, <2>2, <2>3, RenderedMoves DEF ListsReplaced, SurfaceTypeOK, SurfaceInv
<1>3. ASSUME NEW rows \in SUBSET StreamRows, RowsShown(rows) PROVE SurfaceInv'
  <2>1. stream' \in Streams
    <3>1. PICK more, done \in BOOLEAN :
            stream' = [stream EXCEPT !.loaded = TRUE, !.held = @ \cup rows, !.more = more,
                                     !.done = done]
      BY <1>3 DEF RowsShown
    <3> QED BY <3>1 DEF SurfaceTypeOK, Streams
  <2> QED BY <1>3, <2>1, RenderedMoves DEF RowsShown, SurfaceTypeOK, SurfaceInv
<1>4. ASSUME NEW rows \in SUBSET StreamRows, PageReturns(rows) PROVE SurfaceInv'
  <2>1. stream' \in Streams
    <3>1. CASE paging.older = "mine"
      <4>1. PICK more \in BOOLEAN, done \in BOOLEAN :
              stream' = [stream EXCEPT !.loaded = TRUE, !.held = @ \cup rows, !.older = FALSE,
                                       !.more = more, !.done = done]
        <5>1. stream.more \in BOOLEAN
          BY DEF SurfaceTypeOK, Streams
        <5>2. PICK more \in IF stream.loaded THEN {FALSE, stream.more} ELSE BOOLEAN :
                \E done \in IF rows = {} THEN {TRUE, ~more} ELSE {~more} :
                  stream' = [stream EXCEPT !.loaded = TRUE, !.held = @ \cup rows,
                                           !.older = FALSE, !.more = more, !.done = done]
          BY <1>4, <3>1 DEF PageReturns
        <5>3. more \in BOOLEAN
          BY <5>1, <5>2
        <5> QED BY <5>2, <5>3
      <4> QED BY <4>1 DEF SurfaceTypeOK, Streams
    <3>2. CASE paging.older = "other"
      <4>1. stream' = [stream EXCEPT !.older = FALSE]
        BY <1>4, <3>2 DEF PageReturns
      <4> QED BY <4>1, FlagsOnly
    <3>3. CASE paging.older = "stale"
      BY <1>4, <3>3, FlagsOnly DEF PageReturns
    <3> QED BY <1>4, <3>1, <3>2, <3>3 DEF PageReturns
  <2>2. mount' \in Mounts
    <3>1. UNCHANGED mount \/ \E done \in BOOLEAN : mount' = [mount EXCEPT !.restDone = done]
      BY <1>4 DEF PageReturns
    <3> QED BY <3>1 DEF SurfaceTypeOK, Mounts
  <2>3. paging' \in Pagings
    BY <1>4 DEF PageReturns, SurfaceTypeOK, Pagings
  <2> QED BY <1>4, <2>1, <2>2, <2>3, RenderedMoves DEF PageReturns, SurfaceTypeOK, SurfaceInv
<1> QED BY <1>1, <1>2, <1>3, <1>4

\* A mount starts on the messages, with no jump; elsewhere a page may have been asked for.
LEMMA MountKeeps ==
  ASSUME SurfaceTypeOK, NEW root \in Places, Mounted0(root), Rendered,
         mount' \in Docked \cup {InMain}, pendingRoot' \in Places,
         Elsewhere, UNCHANGED threads
  PROVE  SurfaceInv'
<1>1. /\ place' \in [tab : {"messages", "tasks"}, thread : Places, jump : Places]
      /\ refs' \in [handled : Places, opening : Places]
  BY DEF Mounted0, Places
<1>2. mount' \in Mounts
  <2>1. CASE mount' = InMain
    BY <2>1 DEF InMain, Mounts
  <2>2. CASE mount' \in Docked
    <3>1. mount' \in [docked : {TRUE}, active : BOOLEAN, restDone : BOOLEAN]
      BY <2>2 DEF Docked
    <3> QED BY <3>1 DEF Mounts
  <2> QED BY <2>1, <2>2
<1>3. paging' \in Pagings
  BY DEF Elsewhere, SurfaceTypeOK, Pagings
<1>4. UNCHANGED stream \/ \E b \in BOOLEAN : stream' = [stream EXCEPT !.older = b]
  BY DEF Elsewhere
<1>5. threads' \in [listed : SUBSET StreamRows, loaded : SUBSET StreamRows]
  BY DEF SurfaceTypeOK
<1> QED BY <1>1, <1>2, <1>3, <1>4, <1>5, ViewKeeps

\* The other effects and a Thread that fails touch nothing a jump reads.
LEMMA EffectsKeep ==
  ASSUME SurfaceInv, \/ ConsumeEffect \/ ThreadEffect
                     \/ \E root \in Roots : ThreadFails(root)
  PROVE  SurfaceInv'
<1>0. SurfaceTypeOK /\ JumpKeepsMoving
  BY DEF SurfaceInv
<1>1. CASE ConsumeEffect
  <2>1. CASE due' = due \ {"consume"} /\ UNCHANGED <<place, pendingRoot>>
    BY <1>0, <1>1, <2>1
       DEF ConsumeEffect, JumpKeepsMoving, StreamShown, HasMore, HeadDone, SurfaceTypeOK,
           SurfaceInv
  <2>2. CASE /\ place' = [place EXCEPT !.thread = pendingRoot, !.jump = pendingRoot]
             /\ pendingRoot' = NoRow /\ Rendered
    <3>1. UNCHANGED <<refs, mount, stream, threads, paging>>
      BY <1>1 DEF ConsumeEffect
    <3> QED BY <1>0, <2>2, <3>1, ViewKeeps DEF SurfaceTypeOK, Places
  <2> QED BY <1>1, <2>1, <2>2 DEF ConsumeEffect
<1>2. CASE ThreadEffect
  <2>1. /\ UNCHANGED <<place, pendingRoot, mount, stream, threads>>
        /\ due' = due \ {"thread"}
        /\ refs' \in {refs, [refs EXCEPT !.opening = place.thread]}
        /\ paging' \in {paging, [paging EXCEPT !.roots = @ \cup {place.thread}]}
    BY <1>2 DEF ThreadEffect
  <2>2. refs' \in [handled : Places, opening : Places] /\ refs'.handled = refs.handled
    BY <1>0, <2>1 DEF SurfaceTypeOK
  <2>3. /\ paging' \in Pagings
        /\ paging'.older = paging.older
    BY <1>0, <2>1 DEF SurfaceTypeOK, Pagings
  <2>4. JumpKeepsMoving'
    BY <1>0, <2>1, <2>2, <2>3 DEF JumpKeepsMoving, StreamShown, HasMore, HeadDone
  <2> QED BY <1>0, <2>1, <2>2, <2>3, <2>4 DEF SurfaceTypeOK, SurfaceInv
<1>3. ASSUME NEW root \in Roots, ThreadFails(root) PROVE SurfaceInv'
  <2>1. refs' \in [handled : Places, opening : Places] /\ refs'.handled = refs.handled
    BY <1>0, <1>3 DEF ThreadFails, SurfaceTypeOK, Places
  <2>2. /\ paging' \in Pagings
        /\ paging'.older = paging.older
    BY <1>0, <1>3 DEF ThreadFails, SurfaceTypeOK, Pagings
  <2>3. JumpKeepsMoving'
    BY <1>0, <1>3, <2>1, <2>2
       DEF ThreadFails, JumpKeepsMoving, StreamShown, HasMore, HeadDone
  <2> QED BY <1>0, <1>3, <2>1, <2>2, <2>3 DEF ThreadFails, SurfaceTypeOK, SurfaceInv
<1> QED BY <1>1, <1>2, <1>3

\* SurfaceInv holds at first, and every step keeps it.
LEMMA SurfaceInductive ==
  /\ SurfaceInit => SurfaceInv
  /\ SurfaceInv /\ [SurfaceNext]_surfaceVars => SurfaceInv'
<1>1. SurfaceInit => SurfaceInv
  <2> SUFFICES ASSUME SurfaceInit PROVE SurfaceInv
    OBVIOUS
  <2>2. stream \in Streams
    BY DEF SurfaceInit, Unloaded, Streams
  <2>3. threads \in [listed : SUBSET StreamRows, loaded : SUBSET StreamRows]
    BY RootsAssumption DEF SurfaceInit
  <2> QED BY <2>2, <2>3
          DEF SurfaceInit, SurfaceInv, SurfaceTypeOK, Places, InMain, Mounts, Pagings, Effects, JumpKeepsMoving
<1>2. ASSUME SurfaceInv, [SurfaceNext]_surfaceVars PROVE SurfaceInv'
  <2>0. SurfaceTypeOK /\ Roots \subseteq StreamRows
    BY <1>2, RootsAssumption DEF SurfaceInv
  <2>1. CASE ConsumeEffect \/ ThreadEffect \/ \E root \in Roots : ThreadFails(root)
    BY <1>2, <2>1, EffectsKeep
  <2>2. CASE JumpEffect
    BY <2>0, <2>2, JumpEffectMoves DEF SurfaceInv
  <2>3. CASE \/ Recounted \/ ListsReplaced
             \/ \E rows \in SUBSET (StreamRows \ stream.held) :
                  RowsShown(rows) \/ PageReturns(rows)
    BY <2>0, <2>3, RowsKeep
  <2>4. CASE PageFails \/ ResyncBegins \/ ResyncEnds
    <3>1. paging' \in Pagings
      BY <2>0, <2>4 DEF PageFails, ResyncBegins, ResyncEnds, SurfaceTypeOK, Pagings
    <3>2. \/ \E b \in BOOLEAN : stream' = [stream EXCEPT !.older = b]
          \/ \E b \in BOOLEAN : stream' = [stream EXCEPT !.resyncing = b]
      BY <2>4 DEF PageFails, ResyncBegins, ResyncEnds
    <3>3. Rendered /\ UNCHANGED <<place, refs, pendingRoot, mount, threads>>
      BY <2>4 DEF PageFails, ResyncBegins, ResyncEnds
    <3> QED BY <2>0, <3>1, <3>2, <3>3, ViewKeeps DEF SurfaceTypeOK
  <2>5. CASE \/ CloseThread \/ RootJump
             \/ \E root \in Roots : ToggleThread(root)
             \/ \E row \in StreamRows : OpenTasks(row)
    <3>1. place' \in [tab : {"messages", "tasks"}, thread : Places, jump : Places]
      <4>1. \E tab \in {"messages", "tasks"}, thread, jump \in Places :
              place' = [tab |-> tab, thread |-> thread, jump |-> jump]
        <5>1. /\ place = [tab |-> place.tab, thread |-> place.thread, jump |-> place.jump]
              /\ place.tab \in {"messages", "tasks"} /\ place.thread \in Places
              /\ place.jump \in Places /\ NoRow \in Places /\ Roots \subseteq Places
          BY <2>0 DEF SurfaceTypeOK, Places
        <5>2. CASE CloseThread \/ RootJump
          BY <5>1, <5>2 DEF CloseThread, RootJump, Moves
        <5>3. ASSUME NEW root \in Roots, ToggleThread(root)
              PROVE  place'.tab = place.tab /\ place'.jump = place.jump
                     /\ place'.thread \in Places
                     /\ place' = [tab |-> place'.tab, thread |-> place'.thread,
                                  jump |-> place'.jump]
          BY <5>1, <5>3 DEF ToggleThread, Moves
        <5>4. ASSUME NEW row \in StreamRows, OpenTasks(row)
              PROVE  place' = [tab |-> "tasks", thread |-> place.thread, jump |-> place.jump]
          BY <5>1, <5>4 DEF OpenTasks, Moves
        <5> QED BY <2>5, <5>1, <5>2, <5>3, <5>4
      <4> QED BY <4>1
    <3>2. Rendered /\ UNCHANGED <<refs, pendingRoot, mount, stream, threads, paging>>
      BY <2>5 DEF CloseThread, RootJump, ToggleThread, OpenTasks, Moves
    <3> QED BY <2>0, <3>1, <3>2, ViewKeeps DEF SurfaceTypeOK
  <2>6. CASE ThreadInChannel
    <3>1. /\ place' = [place EXCEPT !.thread = NoRow, !.jump = place.thread]
          /\ pendingRoot' = NoRow /\ Rendered
          /\ UNCHANGED <<refs, mount, stream, threads, paging>>
      BY <2>6 DEF ThreadInChannel
    <3> QED BY <2>0, <3>1, ViewKeeps DEF SurfaceTypeOK, Places
  <2>7. CASE ClickOlder
    <3>1. Rendered
      BY <2>7 DEF ClickOlder, LoadsOlder
    <3> QED BY <2>0, <2>7, <3>1, LoadsOlderTyped, RenderedMoves DEF ClickOlder, SurfaceInv
  <2>8. CASE ActiveChanges
    <3>1. mount' \in Mounts
      BY <2>8 DEF ActiveChanges, Docked, Mounts
    <3> QED BY <2>0, <2>8, <3>1, ViewKeeps DEF ActiveChanges, SurfaceTypeOK
  <2>9. CASE Docks \/ LeaveAndReturn
    <3>1. Mounted0(NoRow) /\ Rendered /\ Elsewhere /\ UNCHANGED threads
      BY <2>9 DEF Docks, LeaveAndReturn
    <3>2. mount' \in Docked \cup {InMain} /\ pendingRoot' \in Places
      BY <2>0, <2>9 DEF Docks, LeaveAndReturn, SurfaceTypeOK, Places
    <3> QED BY <2>0, <3>1, <3>2, MountKeeps DEF Places
  <2>10. CASE ReturnByTab
    BY <2>0, <2>10, MountKeeps DEF ReturnByTab, Elsewhere, SurfaceTypeOK
  <2>11. ASSUME NEW root \in Roots, OpenInChannel(root) PROVE SurfaceInv'
    BY <2>0, <2>11, MountKeeps DEF OpenInChannel, Places
  <2>12. ASSUME NEW root \in Roots, ThreadOpens(root) PROVE SurfaceInv'
    <3>1. /\ paging' \in Pagings
          /\ threads' \in [listed : SUBSET StreamRows, loaded : SUBSET StreamRows]
      BY <2>0, <2>12, RootsAssumption DEF ThreadOpens, SurfaceTypeOK, Pagings
    <3> QED BY <2>0, <2>12, <3>1, ViewKeeps DEF ThreadOpens, SurfaceTypeOK
  <2>13. ASSUME NEW row \in StreamRows, OpenMessage(row) PROVE SurfaceInv'
    <3>1. /\ place' \in [tab : {"messages", "tasks"}, thread : Places, jump : Places]
          /\ refs' \in [handled : Places, opening : Places]
      BY <2>0, <2>13 DEF OpenMessage, SurfaceTypeOK, Places
    <3> QED BY <2>0, <2>13, <3>1, ViewKeeps DEF OpenMessage, SurfaceTypeOK
  <2>14. CASE UNCHANGED surfaceVars
    BY <1>2, <2>0, <2>14
       DEF surfaceVars, SurfaceInv, SurfaceTypeOK, JumpKeepsMoving, StreamShown, HasMore,
           HeadDone
  <2> QED BY <1>2, <2>1, <2>2, <2>3, <2>4, <2>5, <2>6, <2>7, <2>8, <2>9, <2>10, <2>11, <2>12,
             <2>13, <2>14 DEF SurfaceNext
<1> QED BY <1>1, <1>2

\* No jump hangs, for every set of rows and of Threads opened, except where olderLoading
\* was left set or the total and headDone disagree: every change of what the jump effect
\* reads renders anew, and each run of the effect reports the row, or leaves a page on
\* its way.
THEOREM JumpsAlwaysMove == SurfaceSpec => []JumpKeepsMoving
<1>1. SurfaceInv => JumpKeepsMoving
  BY DEF SurfaceInv
<1> QED BY <1>1, SurfaceInductive, PTL DEF SurfaceSpec

-----------------------------------------------------------------------------
(* The Agent pages of Settings.                                            *)

\* The fields of the detail, of the card and of a call, whatever they hold.
IsDetail(d) ==
  d \in [agent : {d.agent}, name : {d.name}, route : {d.route}, members : {d.members},
         loading : BOOLEAN]
IsSettings(s) ==
  s \in [phase : {s.phase}, chosen : {s.chosen}, hidden : BOOLEAN, creating : BOOLEAN,
         doomed : {s.doomed}]
IsAgentCall(c) ==
  c \in [kind : {c.kind}, agent : {c.agent}, name : {c.name}, route : {c.route},
         profile : {c.profile}, mine : BOOLEAN, asked : BOOLEAN, done : BOOLEAN]

SettingsShape ==
  /\ IsDetail(detail) /\ IsSettings(settings)
  /\ \A c \in agentCalls : IsAgentCall(c)

\* The Agent whose detail the card shows.
ShownIn(s) == IF s.hidden \/ s.creating THEN NoAgent ELSE s.chosen

\* A read whose number is the newest one is of the Agent that is shown.
AskedOfShown(c) ==
  c.kind = "members" /\ c.asked => c.agent = detail.agent /\ detail.agent # NoAgent

SettingsInv ==
  /\ SettingsShape
  /\ detail.agent = ShownIn(settings)
  /\ \A c \in agentCalls : AskedOfShown(c)
  /\ MembershipsOfShownAgent

\* No read of an orphan, or of a detail that moved on, is the newest one.
LEMMA NoneAsked ==
  ASSUME SettingsShape, NEW c \in Orphaned \cup Outdated
  PROVE  IsAgentCall(c) /\ ~(c.kind = "members" /\ c.asked)
<1>1. \A d \in agentCalls : IsAgentCall(d)
  BY DEF SettingsShape
<1>2. CASE c \in Orphaned
  <2>1. PICK d \in agentCalls :
          c = IF d.kind \in {"identity", "avatar", "runtime", "members"}
              THEN [d EXCEPT !.mine = FALSE, !.asked = FALSE] ELSE d
    BY <1>2 DEF Orphaned
  <2> DEFINE e == [d EXCEPT !.mine = FALSE, !.asked = FALSE]
  <2>2. IsAgentCall(e) /\ ~e.asked
    BY <1>1 DEF IsAgentCall
  <2> HIDE DEF e
  <2> QED BY <1>1, <2>1, <2>2 DEF e
<1>3. CASE c \in Outdated
  <2>1. PICK d \in agentCalls : c = IF d.kind = "members" THEN [d EXCEPT !.asked = FALSE] ELSE d
    BY <1>3 DEF Outdated
  <2> DEFINE e == [d EXCEPT !.asked = FALSE]
  <2>2. IsAgentCall(e) /\ ~e.asked
    BY <1>1 DEF IsAgentCall
  <2> HIDE DEF e
  <2> QED BY <1>1, <2>1, <2>2 DEF e
<1> QED BY <1>2, <1>3

\* Another shape of the card: its detail stays, goes, comes, or is of another Agent.
LEMMA ShowsKeeps ==
  ASSUME SettingsInv, NEW s, IsSettings(s), Shows(s)
  PROVE  SettingsInv'
<1>0. SettingsShape /\ settings' = s
  BY DEF SettingsInv, Shows
<1>1. CASE ShownIn(s) = detail.agent
  <2>1. UNCHANGED <<detail, agentCalls>>
    BY <1>1 DEF Shows, ShownIn
  <2> QED BY <1>0, <1>1, <2>1
          DEF SettingsInv, SettingsShape, ShownIn, AskedOfShown, MembershipsOfShownAgent
<1>2. CASE ShownIn(s) # detail.agent /\ ShownIn(s) = NoAgent
  <2>1. detail' = NoDetail /\ agentCalls' = Orphaned
    BY <1>2 DEF Shows, ShownIn
  <2>2. /\ IsDetail(detail') /\ detail'.agent = NoAgent /\ detail'.members = NoAgent
        /\ ~detail'.loading
    BY <2>1 DEF NoDetail, IsDetail
  <2>3. \A c \in agentCalls' : IsAgentCall(c) /\ ~(c.kind = "members" /\ c.asked)
    BY <1>0, <2>1, NoneAsked
  <2> QED BY <1>0, <1>2, <2>2, <2>3
          DEF SettingsInv, SettingsShape, ShownIn, AskedOfShown, MembershipsOfShownAgent
<1>3. CASE ShownIn(s) # detail.agent /\ ShownIn(s) # NoAgent
  <2>1. /\ detail' = Filled(ShownIn(s))
        /\ agentCalls' = IF detail.agent = NoAgent THEN agentCalls ELSE Outdated
    BY <1>3 DEF Shows, ShownIn
  <2>2. /\ IsDetail(detail') /\ detail'.agent = ShownIn(s) /\ detail'.members = NoAgent
        /\ ~detail'.loading
    BY <2>1 DEF Filled, NoDetail, IsDetail
  <2>3. \A c \in agentCalls' : IsAgentCall(c) /\ ~(c.kind = "members" /\ c.asked)
    <3>1. CASE detail.agent = NoAgent
      BY <1>0, <2>1, <3>1 DEF SettingsInv, SettingsShape, AskedOfShown
    <3>2. CASE detail.agent # NoAgent
      BY <1>0, <2>1, <3>2, NoneAsked
    <3> QED BY <3>1, <3>2
  <2> QED BY <1>0, <1>3, <2>2, <2>3
          DEF SettingsInv, SettingsShape, ShownIn, AskedOfShown, MembershipsOfShownAgent
<1> QED BY <1>1, <1>2, <1>3

\* A call other than a Membership read leaves, and the detail keeps its Agent.
LEMMA LaunchKeeps ==
  ASSUME SettingsInv, NEW c, IsAgentCall(c), Launch(c), c.kind # "members",
         IsSettings(settings'), ShownIn(settings') = ShownIn(settings), UNCHANGED detail
  PROVE  SettingsInv'
<1>1. agentCalls' = agentCalls \cup {c}
  BY DEF Launch
<1> QED BY <1>1 DEF SettingsInv, SettingsShape, AskedOfShown, MembershipsOfShownAgent

\* An answer that is not a Membership read's, with the forms of the same Agent.
LEMMA FinishedKeeps ==
  ASSUME SettingsInv, NEW c \in agentCalls, Finished(c), c.kind # "members",
         IsSettings(settings'), ShownIn(settings') = ShownIn(settings),
         IsDetail(detail'), detail'.agent = detail.agent, detail'.members = detail.members,
         detail'.loading = detail.loading
  PROVE  SettingsInv'
<1>1. agentCalls' = agentCalls \ {c}
  BY DEF Finished
<1> QED BY <1>1 DEF SettingsInv, SettingsShape, AskedOfShown, MembershipsOfShownAgent

\* The forms of the same Agent change, and no call.
LEMMA FormsKeep ==
  ASSUME SettingsInv, UNCHANGED agentCalls,
         IsSettings(settings'), ShownIn(settings') = ShownIn(settings),
         IsDetail(detail'), detail'.agent = detail.agent, detail'.members = detail.members,
         detail'.loading = detail.loading
  PROVE  SettingsInv'
BY DEF SettingsInv, SettingsShape, AskedOfShown, MembershipsOfShownAgent

\* A profile that comes in changes the text of the forms alone, and only where it was
\* that of the list.
LEMMA SyncedForms ==
  ASSUME SettingsInv, NEW a, NEW row, Updated(a, row)
  PROVE  /\ IsDetail(detail') /\ detail'.agent = detail.agent
         /\ detail'.members = detail.members /\ detail'.loading = detail.loading
         /\ detail.name # listed[detail.agent].name => detail'.name = detail.name
         /\ detail.route # listed[detail.agent].route => detail'.route = detail.route
<1>1. IsDetail(detail)
  BY DEF SettingsInv, SettingsShape
<1>2. CASE detail.agent = a
  <2> DEFINE p == listed[a] q == listed'[a]
  <2>1. detail' = Synced(detail, p, q)
    BY <1>2 DEF Updated
  <2> HIDE DEF p, q
  <2>2. /\ IsDetail(detail') /\ detail'.agent = detail.agent
        /\ detail'.members = detail.members /\ detail'.loading = detail.loading
        /\ detail.name # p.name => detail'.name = detail.name
        /\ detail.route # p.route => detail'.route = detail.route
    BY <1>1, <2>1 DEF Synced, IsDetail
  <2> QED BY <1>2, <2>2 DEF p
<1>3. CASE detail.agent # a
  BY <1>1, <1>3 DEF Updated
<1> QED BY <1>2, <1>3

\* SettingsInv holds at first, and every step keeps it.
LEMMA SettingsInductive ==
  /\ SettingsInit => SettingsInv
  /\ SettingsInv /\ [SettingsNext]_settingsVars => SettingsInv'
<1>1. SettingsInit => SettingsInv
  <2>1. SettingsInit =>
          /\ settings = [phase |-> "loading", chosen |-> NoAgent, hidden |-> FALSE,
                         creating |-> FALSE, doomed |-> NoAgent]
          /\ detail = NoDetail /\ agentCalls = {}
    BY DEF SettingsInit
  <2>2. /\ IsDetail(NoDetail) /\ NoDetail.agent = NoAgent /\ NoDetail.members = NoAgent
        /\ ~NoDetail.loading
    BY DEF NoDetail, IsDetail
  <2>3. SettingsInit => IsSettings(settings) /\ ShownIn(settings) = NoAgent
    <3> DEFINE s == [phase |-> "loading", chosen |-> NoAgent, hidden |-> FALSE,
                     creating |-> FALSE, doomed |-> NoAgent]
    <3>1. IsSettings(s) /\ ShownIn(s) = NoAgent
      BY DEF IsSettings, ShownIn
    <3> QED BY <2>1, <3>1
  <2> QED BY <2>1, <2>2, <2>3 DEF SettingsInv, SettingsShape, MembershipsOfShownAgent
<1>2. ASSUME SettingsInv, [SettingsNext]_settingsVars PROVE SettingsInv'
  <2>0. /\ IsDetail(detail) /\ IsSettings(settings)
        /\ \A c \in agentCalls : IsAgentCall(c)
    BY <1>2 DEF SettingsInv, SettingsShape
  <2>1. ASSUME NEW a \in Agents, SelectAgent(a) PROVE SettingsInv'
    <3>1. IsSettings([settings EXCEPT !.chosen = a, !.hidden = FALSE])
      BY <2>0 DEF IsSettings
    <3> QED BY <1>2, <2>1, <3>1, ShowsKeeps DEF SelectAgent
  <2>2. CASE CloseAgent \/ Search \/ ToggleCreate
    <3>1. /\ IsSettings([settings EXCEPT !.chosen = NoAgent])
          /\ IsSettings([settings EXCEPT !.hidden = ~@])
          /\ IsSettings([settings EXCEPT !.creating = ~@])
      BY <2>0 DEF IsSettings
    <3> QED BY <1>2, <2>2, <3>1, ShowsKeeps DEF CloseAgent, Search, ToggleCreate
  <2>3. ASSUME NEW x \in Texts, TypeName(x) \/ PickRoute(x) PROVE SettingsInv'
    <3>1. /\ IsDetail(detail') /\ detail'.agent = detail.agent
          /\ detail'.members = detail.members /\ detail'.loading = detail.loading
          /\ UNCHANGED <<settings, agentCalls>>
      BY <2>0, <2>3 DEF TypeName, PickRoute, IsDetail
    <3> QED BY <1>2, <2>0, <3>1, FormsKeep
  <2>4. CASE SaveIdentity \/ SaveRuntime \/ ChooseAvatar
    <3>1. ASSUME NEW kind \in {"identity", "runtime", "avatar"}, NEW name, NEW route,
                 Launch(Save(kind, name, route)), UNCHANGED <<settings, detail>>
          PROVE  SettingsInv'
      <4>1. IsAgentCall(Save(kind, name, route)) /\ Save(kind, name, route).kind = kind
        BY DEF Save, Plain, IsAgentCall
      <4> QED BY <1>2, <2>0, <3>1, <4>1, LaunchKeeps
    <3> QED BY <2>4, <3>1 DEF SaveIdentity, SaveRuntime, ChooseAvatar
  <2>5. CASE ReadMembers
    <3> DEFINE c == Plain("members", detail.agent)
    <3>1. IsAgentCall(c) /\ c.kind = "members" /\ c.asked /\ c.agent = detail.agent
      BY DEF Plain, IsAgentCall
    <3>2. /\ agentCalls' = agentCalls \cup {c} /\ UNCHANGED settings
          /\ detail' = [detail EXCEPT !.loading = TRUE]
          /\ detail.agent # NoAgent
      BY <2>5 DEF ReadMembers, Launch, Editing
    <3>3. IsDetail(detail') /\ detail'.agent = detail.agent /\ detail'.members = detail.members
      BY <2>0, <3>2 DEF IsDetail
    <3> HIDE DEF c
    <3> QED BY <1>2, <3>1, <3>2, <3>3
            DEF SettingsInv, SettingsShape, AskedOfShown, MembershipsOfShownAgent
  <2>6. CASE AskDeletion \/ CancelDeletion
    <3>1. /\ IsSettings(settings') /\ ShownIn(settings') = ShownIn(settings)
          /\ UNCHANGED <<detail, agentCalls>>
      BY <2>0, <2>6 DEF AskDeletion, CancelDeletion, IsSettings, ShownIn
    <3> QED BY <1>2, <2>0, <3>1, FormsKeep
  <2>7. CASE ConfirmDeletion \/ Load \/ \E a \in Agents : SubmitCreate(a)
    <3>1. PICK kind, a : kind \in {"delete", "load", "create"} /\ Launch(Plain(kind, a))
      BY <2>7 DEF ConfirmDeletion, Load, SubmitCreate
    <3>2. IsAgentCall(Plain(kind, a)) /\ Plain(kind, a).kind = kind
      BY DEF Plain, IsAgentCall
    <3>3. /\ IsSettings(settings') /\ ShownIn(settings') = ShownIn(settings) /\ UNCHANGED detail
      BY <2>0, <2>7 DEF ConfirmDeletion, Load, SubmitCreate, IsSettings, ShownIn
    <3> QED BY <1>2, <3>1, <3>2, <3>3, LaunchKeeps
  <2>8. ASSUME NEW c \in agentCalls, AgentCallServed(c) PROVE SettingsInv'
    <3>1. PICK profile :
            agentCalls' = (agentCalls \ {c}) \cup {[c EXCEPT !.done = TRUE, !.profile = profile]}
      BY <2>8 DEF AgentCallServed
    <3> DEFINE e == [c EXCEPT !.done = TRUE, !.profile = profile]
    <3>2. IsAgentCall(e) /\ e.kind = c.kind /\ e.asked = c.asked /\ e.agent = c.agent
      <4>1. IsAgentCall(c)
        BY <2>0
      <4>2. DOMAIN e = DOMAIN c /\ e.kind = c.kind /\ e.asked = c.asked /\ e.agent = c.agent
        BY <4>1 DEF IsAgentCall
      <4> QED BY <4>1, <4>2 DEF IsAgentCall
    <3>3. agentCalls' = (agentCalls \ {c}) \cup {e} /\ UNCHANGED <<settings, detail>>
      BY <2>8, <3>1 DEF AgentCallServed
    <3> HIDE DEF e
    <3>4. SettingsShape' /\ detail'.agent = ShownIn(settings')
      BY <1>2, <3>2, <3>3 DEF SettingsInv, SettingsShape
    <3>5. (\A d \in agentCalls : AskedOfShown(d))'
      BY <1>2, <3>2, <3>3 DEF SettingsInv, AskedOfShown
    <3>6. MembershipsOfShownAgent'
      BY <1>2, <3>2, <3>3 DEF SettingsInv, MembershipsOfShownAgent
    <3> QED BY <3>4, <3>5, <3>6 DEF SettingsInv
  <2>9. ASSUME NEW c \in agentCalls, SaveAnswered(c) PROVE SettingsInv'
    <3>1. Updated(c.agent, c.profile) /\ Finished(c) /\ UNCHANGED settings /\ c.kind # "members"
      BY <2>9 DEF SaveAnswered
    <3> QED BY <1>2, <2>0, <3>1, SyncedForms, FinishedKeeps
  <2>10. ASSUME NEW c \in agentCalls, MembersAnswered(c) PROVE SettingsInv'
    <3>1. agentCalls' = agentCalls \ {c} /\ UNCHANGED settings
      BY <2>10 DEF MembersAnswered, Finished
    <3>2. CASE c.asked
      <4>1. /\ detail' = [detail EXCEPT !.members = c.agent, !.loading = FALSE]
            /\ c.agent = detail.agent
        BY <1>2, <2>10, <3>2 DEF MembersAnswered, SettingsInv, AskedOfShown
      <4>2. IsDetail(detail') /\ detail'.agent = detail.agent /\ detail'.members = detail.agent
            /\ ~detail'.loading
        BY <2>0, <4>1 DEF IsDetail
      <4> QED BY <1>2, <3>1, <4>2
              DEF SettingsInv, SettingsShape, AskedOfShown, MembershipsOfShownAgent
    <3>3. CASE ~c.asked
      <4>1. UNCHANGED detail
        BY <2>10, <3>3 DEF MembersAnswered
      <4> QED BY <1>2, <3>1, <3>3, <4>1
              DEF SettingsInv, SettingsShape, AskedOfShown, MembershipsOfShownAgent
    <3> QED BY <3>2, <3>3
  <2>11. ASSUME NEW c \in agentCalls, DeleteAnswered(c) PROVE SettingsInv'
    <3>1. /\ IsSettings(settings') /\ ShownIn(settings') = NoAgent
      BY <2>0, <2>11 DEF DeleteAnswered, IsSettings, ShownIn
    <3>2. /\ IsDetail(detail') /\ detail'.agent = NoAgent /\ detail'.members = NoAgent
          /\ ~detail'.loading
      BY <2>11 DEF DeleteAnswered, NoDetail, IsDetail
    <3>3. \A d \in agentCalls' : IsAgentCall(d) /\ ~(d.kind = "members" /\ d.asked)
      BY <1>2, <2>11, NoneAsked DEF DeleteAnswered, SettingsInv
    <3> QED BY <3>1, <3>2, <3>3
            DEF SettingsInv, SettingsShape, AskedOfShown, MembershipsOfShownAgent
  <2>12. ASSUME NEW c \in agentCalls, CreateAnswered(c) PROVE SettingsInv'
    <3>1. /\ IsSettings(settings') /\ c.kind = "create" /\ Finished(c)
          /\ ShownIn(settings') = IF settings.hidden THEN NoAgent ELSE settings.chosen
      BY <2>0, <2>12 DEF CreateAnswered, IsSettings, ShownIn
    <3>2. CASE settings.creating /\ settings.chosen # NoAgent /\ ~settings.hidden
      <4>1. detail' = Filled(settings.chosen) /\ detail.agent = NoAgent
        BY <1>2, <2>12, <3>2 DEF CreateAnswered, SettingsInv, ShownIn
      <4>2. /\ IsDetail(detail') /\ detail'.agent = settings.chosen /\ detail'.members = NoAgent
            /\ ~detail'.loading
        BY <4>1 DEF Filled, NoDetail, IsDetail
      <4> QED BY <1>2, <3>1, <3>2, <4>1, <4>2
              DEF Finished, SettingsInv, SettingsShape, AskedOfShown, MembershipsOfShownAgent
    <3>3. CASE ~(settings.creating /\ settings.chosen # NoAgent /\ ~settings.hidden)
      <4>1. UNCHANGED detail
        BY <2>12, <3>3 DEF CreateAnswered
      <4>2. ShownIn(settings') = ShownIn(settings)
        BY <3>1, <3>3 DEF ShownIn
      <4> QED BY <1>2, <2>0, <3>1, <4>1, <4>2, FinishedKeeps
    <3> QED BY <3>2, <3>3
  <2>13. ASSUME NEW c \in agentCalls, LoadAnswered(c) \/ AgentCallFails(c) PROVE SettingsInv'
    <3>1. /\ Finished(c) /\ c.kind # "members" /\ UNCHANGED detail
          /\ IsSettings(settings') /\ ShownIn(settings') = ShownIn(settings)
      BY <2>0, <2>13 DEF LoadAnswered, AgentCallFails, IsSettings, ShownIn
    <3> QED BY <1>2, <2>0, <3>1, FinishedKeeps
  <2>14. CASE UNCHANGED settingsVars
    BY <1>2, <2>0, <2>14, FormsKeep DEF settingsVars
  <2> QED BY <1>2, <2>1, <2>2, <2>3, <2>4, <2>5, <2>6, <2>7, <2>8, <2>9, <2>10, <2>11, <2>12,
             <2>13, <2>14 DEF SettingsNext
<1> QED BY <1>1, <1>2

\* The Memberships under an Agent's name are that Agent's, and no read is waited for in
\* vain: a read keeps its number only while its Agent is shown.
THEOREM MembershipsAlwaysOfShown == SettingsSpec => []MembershipsOfShownAgent
<1>1. SettingsInv => MembershipsOfShownAgent
  BY DEF SettingsInv
<1> QED BY <1>1, SettingsInductive, PTL DEF SettingsSpec

\* What the user typed and has not saved stays, in whatever order the saves of one Agent
\* are answered: the steps that refill the forms show another Agent, or none.
THEOREM TypingAlwaysKept == SettingsSpec => AnswersKeepTyping
<1> DEFINE Keeps(c) ==
      /\ c.done /\ detail'.agent = detail.agent /\ detail.agent # NoAgent
      => /\ detail.name # listed[detail.agent].name => detail'.name = detail.name
         /\ detail.route # listed[detail.agent].route => detail'.route = detail.route
<1>1. SettingsInv /\ [SettingsNext]_settingsVars
        => [\A c \in agentCalls \ agentCalls' : Keeps(c)]_settingsVars
  <2> SUFFICES ASSUME SettingsInv, SettingsNext, NEW c \in agentCalls, c \notin agentCalls',
                      c.done, detail'.agent = detail.agent, detail.agent # NoAgent
               PROVE  /\ detail.name # listed[detail.agent].name => detail'.name = detail.name
                      /\ detail.route # listed[detail.agent].route => detail'.route = detail.route
    OBVIOUS
  <2>1. ASSUME NEW s, Shows(s) PROVE UNCHANGED detail
    <3>1. ShownIn(s) = detail.agent
      <4>1. NoDetail.agent = NoAgent /\ \A a : Filled(a).agent = a
        BY DEF Filled, NoDetail
      <4> QED BY <2>1, <4>1 DEF Shows, ShownIn
    <3> QED BY <2>1, <3>1 DEF Shows, ShownIn
  <2>2. ASSUME NEW d, Launch(d) PROVE FALSE
    BY <2>2 DEF Launch
  <2>3. ASSUME UNCHANGED agentCalls PROVE FALSE
    BY <2>3
  <2>4. ASSUME NEW d \in agentCalls, AgentCallServed(d) PROVE FALSE
    BY <2>4 DEF AgentCallServed
  <2>5. ASSUME NEW d \in agentCalls, SaveAnswered(d)
        PROVE  /\ detail.name # listed[detail.agent].name => detail'.name = detail.name
               /\ detail.route # listed[detail.agent].route => detail'.route = detail.route
    BY <2>5, SyncedForms DEF SaveAnswered
  <2>6. ASSUME NEW d \in agentCalls, MembersAnswered(d)
        PROVE  detail'.name = detail.name /\ detail'.route = detail.route
    BY <2>6 DEF MembersAnswered, SettingsInv, SettingsShape, IsDetail
  <2>7. ASSUME NEW d \in agentCalls, DeleteAnswered(d) PROVE FALSE
    BY <2>7 DEF DeleteAnswered, NoDetail
  <2>8. ASSUME NEW d \in agentCalls, CreateAnswered(d) PROVE UNCHANGED detail
    BY <2>8 DEF CreateAnswered, SettingsInv, ShownIn
  <2>9. ASSUME NEW d \in agentCalls, LoadAnswered(d) \/ AgentCallFails(d) PROVE UNCHANGED detail
    BY <2>9 DEF LoadAnswered, AgentCallFails
  <2> QED BY <2>1, <2>2, <2>3, <2>4, <2>5, <2>6, <2>7, <2>8, <2>9
          DEF SettingsNext, SelectAgent, CloseAgent, Search, ToggleCreate, TypeName, PickRoute,
              SaveIdentity, SaveRuntime, ChooseAvatar, ReadMembers, AskDeletion, CancelDeletion,
              ConfirmDeletion, Load, SubmitCreate
<1> QED BY <1>1, SettingsInductive, PTL DEF SettingsSpec, AnswersKeepTyping

-----------------------------------------------------------------------------
(* The RPC channel.                                                        *)

\* The fields of a call in flight, whatever it carries.
IsRemote(c) ==
  c \in [to : {c.to}, payload : {c.payload}, phase : {"sent", "running", "committed"}]

WireInv ==
  /\ \A c \in remote : IsRemote(c) /\ <<c.to, c.payload>> \in Requests
  /\ CallsAreUnderstood /\ CommitsAreAnnounced

\* Every call that appends to the change ledger ends in publishChange.
LEMMA LedgerIsAnnounced == ASSUME NEW e \in Ledger PROVE Announces(e)
BY DEF Ledger, Announces

\* What each reader takes of the values the client puts in a payload.
LEMMA ReadersTake ==
  /\ ReadAs(Text, Name) /\ ReadAs(Check("decimal"), Decimal)
  /\ ReadAs(Check("decimal or 0"), Decimal)
  /\ ReadAs(Check("optional"), Name) /\ ReadAs(Check("optional"), Decimal)
  /\ ReadAs(Check("optional"), Missing)
  /\ ReadAs(Check("status"), Value("status", 1)) /\ ReadAs(Check("filter"), Value("filter", 1))
  /\ \A n \in {1, 50, 100} : ReadAs(Within("integer", 100), Number(n))
  /\ ReadAs(Within("integer", 50), Number(30))
  /\ \A n \in {1, 100} : ReadAs(Within("array", 100), Strings(n))
<1>1. /\ Name.t = "text" /\ Decimal.t = "decimal" /\ Missing.t = "missing"
      /\ Value("status", 1).t = "status" /\ Value("filter", 1).t = "filter"
      /\ \A n : /\ Number(n).t = "number" /\ Number(n).n = n
                /\ Strings(n).t = "list" /\ Strings(n).n = n
  BY DEF Name, Decimal, Missing, Number, Strings, Value
<1>2. /\ Text.how = "required" /\ Check("optional").how = "optional"
      /\ Check("decimal").how = "decimal" /\ Check("decimal or 0").how = "decimal or 0"
      /\ Check("status").how = "status" /\ Check("filter").how = "filter"
      /\ Within("integer", 100).how = "integer" /\ Within("integer", 100).max = 100
      /\ Within("integer", 50).how = "integer" /\ Within("integer", 50).max = 50
      /\ Within("array", 100).how = "array" /\ Within("array", 100).max = 100
  BY DEF Check, Within, Text
<1>3. ASSUME NEW v, Nonblank(v) PROVE ReadAs(Text, v)
  BY <1>2, <1>3 DEF ReadAs
<1>4. ASSUME NEW v, v = Missing \/ Nonblank(v) PROVE ReadAs(Check("optional"), v)
  BY <1>2, <1>4 DEF ReadAs
<1>5. ASSUME NEW v, v.t = "decimal" PROVE ReadAs(Check("decimal"), v)
  BY <1>2, <1>5 DEF ReadAs
<1>6. ASSUME NEW v, v.t = "decimal" PROVE ReadAs(Check("decimal or 0"), v)
  BY <1>2, <1>6 DEF ReadAs
<1>7. ASSUME NEW v, v.t = "status" PROVE ReadAs(Check("status"), v)
  BY <1>2, <1>7 DEF ReadAs
<1>8. ASSUME NEW v, v.t = "filter" PROVE ReadAs(Check("filter"), v)
  BY <1>2, <1>8 DEF ReadAs
<1>9. Nonblank(Name) /\ Nonblank(Decimal)
  BY <1>1 DEF Nonblank
<1>10. /\ \A n \in {1, 50, 100} : ReadAs(Within("integer", 100), Number(n))
      /\ ReadAs(Within("integer", 50), Number(30))
      /\ \A n \in {1, 100} : ReadAs(Within("array", 100), Strings(n))
  <2>1. ASSUME NEW max \in Nat, NEW n \in 1..max
        PROVE  ReadAs(Within("integer", max), Number(n)) /\ ReadAs(Within("array", max), Strings(n))
    <3>1. /\ Within("integer", max).how = "integer" /\ Within("integer", max).max = max
          /\ Within("array", max).how = "array" /\ Within("array", max).max = max
      BY DEF Within
    <3>2. /\ Number(n).t = "number" /\ Number(n).n = n
          /\ Strings(n).t = "list" /\ Strings(n).n = n
      BY <1>1
    <3>3. ReadAs(Within("integer", max), Number(n))
      BY <3>1, <3>2 DEF ReadAs
    <3>4. ReadAs(Within("array", max), Strings(n))
      BY <3>1, <3>2 DEF ReadAs
    <3> QED BY <3>3, <3>4
  <2>2. /\ 100 \in Nat /\ 1 \in 1..100 /\ 50 \in 1..100 /\ 100 \in 1..100
        /\ 50 \in Nat /\ 30 \in 1..50
    OBVIOUS
  <2> QED BY <2>1, <2>2
<1> QED BY <1>1, <1>3, <1>4, <1>5, <1>6, <1>7, <1>8, <1>9, <1>10

\* A payload of texts and one decimal, asked for texts and a fence.
LEMMA FencedUnderstood ==
  ASSUME NEW e, NEW names, NEW fence, Readings(e) = Fenced(names, fence), fence \notin names
  PROVE  Understood(e, Put(names, {fence}))
<1>1. ASSUME NEW f \in names \cup {fence}
      PROVE  ReadAs(Readings(e)[f], Field(Put(names, {fence}), f))
  <2>1. CASE f = fence
    BY <2>1, ReadersTake DEF Fenced, Field, Put
  <2>2. CASE f # fence
    BY <2>2, ReadersTake DEF Fenced, Field, Put
  <2> QED BY <2>1, <2>2
<1> QED BY <1>1 DEF Understood, Fenced

\* A payload of texts, asked for those texts.
LEMMA GivenUnderstood ==
  ASSUME NEW e, NEW names, Readings(e) = Given(names)
  PROVE  Understood(e, Put(names, {}))
BY ReadersTake DEF Understood, Given, Field, Put

\* The calls that leave a field out, or give one that is neither text nor fence.
LEMMA MixedUnderstood ==
  /\ Understood("history", [targetId |-> Name, afterSeq |-> Decimal, limit |-> Number(100)])
  /\ \A n \in {1, 50} : Understood("history.tail", [targetId |-> Name, limit |-> Number(n)])
  /\ \A v \in SummarySlices : Understood("thread.summaries", [rootMessageIds |-> v])
  /\ Understood("inbox.list", [limit |-> Number(30), filter |-> Value("filter", 1)])
  /\ Understood("tasks", Put({}, {}))
  /\ Understood("task.claim", Put({"messageId"}, {}))
  /\ Understood("task.claim", Put({"messageId", "actorId"}, {}))
  /\ Understood("task.update",
                [messageId |-> Name, expectedVersion |-> Decimal, status |-> Value("status", 1)])
  /\ Understood("agent.avatar.update",
                Put({"agentId", "avatarDataUrl"}, {"expectedProfileVersion"}))
  /\ Understood("agent.runtime.replace", Put({"agentId", "provider", "model", "presetId"}, {}))
  /\ Understood("agent.runtime.replace",
                Put({"agentId", "provider", "model", "presetId"}, {"expectedGeneration"}))
<1>1. Understood("history", [targetId |-> Name, afterSeq |-> Decimal, limit |-> Number(100)])
  <2> DEFINE p == [targetId |-> Name, afterSeq |-> Decimal, limit |-> Number(100)]
             r == Readings("history")
  <2>1. /\ DOMAIN r = {"targetId", "afterSeq", "limit"} /\ r["targetId"] = Text
        /\ r["afterSeq"] = Check("decimal or 0") /\ r["limit"] = Within("integer", 100)
    BY DEF Readings
  <2>2. /\ Field(p, "targetId") = Name /\ Field(p, "afterSeq") = Decimal
        /\ Field(p, "limit") = Number(100)
    BY DEF Field
  <2>3. /\ ReadAs(Text, Name) /\ ReadAs(Check("decimal or 0"), Decimal)
        /\ ReadAs(Within("integer", 100), Number(100))
    BY ReadersTake
  <2> HIDE DEF p, r
  <2>4. Understood("history", p)
    BY <2>1, <2>2, <2>3 DEF Understood, r
  <2> QED BY <2>4 DEF p
<1>2. ASSUME NEW n \in {1, 50}
      PROVE  Understood("history.tail", [targetId |-> Name, limit |-> Number(n)])
  <2> DEFINE p == [targetId |-> Name, limit |-> Number(n)]
             r == Readings("history.tail")
  <2>1. /\ DOMAIN r = {"targetId", "limit"} /\ r["targetId"] = Text
        /\ r["limit"] = Within("integer", 100)
    BY DEF Readings
  <2>2. /\ Field(p, "targetId") = Name /\ Field(p, "limit") = Number(n)
    BY DEF Field
  <2>3. ReadAs(Text, Name) /\ ReadAs(Within("integer", 100), Number(n))
    BY ReadersTake
  <2> HIDE DEF p, r
  <2>4. Understood("history.tail", p)
    BY <2>1, <2>2, <2>3 DEF Understood, r
  <2> QED BY <2>4 DEF p
<1>3. ASSUME NEW v \in SummarySlices PROVE Understood("thread.summaries", [rootMessageIds |-> v])
  <2> DEFINE p == [rootMessageIds |-> v]
             r == Readings("thread.summaries")
  <2>1. /\ DOMAIN r = {"rootMessageIds"} /\ r["rootMessageIds"] = Within("array", 100)
    BY DEF Readings, Managing, Conversing
  <2>2. /\ Field(p, "rootMessageIds") = v
    BY DEF Field
  <2>3. v \in {Strings(1), Strings(100)}
    BY DEF SummarySlices
  <2> HIDE DEF p, r
  <2>4. Understood("thread.summaries", p)
    BY <2>1, <2>2, <2>3, ReadersTake DEF Understood, r
  <2> QED BY <2>4 DEF p
<1>4. Understood("inbox.list", [limit |-> Number(30), filter |-> Value("filter", 1)])
  <2> DEFINE p == [limit |-> Number(30), filter |-> Value("filter", 1)]
             r == Readings("inbox.list")
  <2>1. /\ DOMAIN r = {"filter", "limit", "cursor"} /\ r["filter"] = Check("filter")
        /\ r["limit"] = Within("integer", 50) /\ r["cursor"] = Check("optional")
    BY DEF Readings
  <2>2. /\ Field(p, "filter") = Value("filter", 1) /\ Field(p, "limit") = Number(30)
        /\ Field(p, "cursor") = Missing
    BY DEF Field
  <2> HIDE DEF p, r
  <2>3. Understood("inbox.list", p)
    BY <2>1, <2>2, ReadersTake DEF Understood, r
  <2> QED BY <2>3 DEF p
<1>5. Understood("tasks", Put({}, {}))
  <2> DEFINE p == Put({}, {})
             r == Readings("tasks")
  <2>1. /\ DOMAIN r = {"targetId"} /\ r["targetId"] = Check("optional")
    BY DEF Readings
  <2>2. /\ Field(p, "targetId") = Missing
    BY DEF Field, Put
  <2> HIDE DEF p, r
  <2>3. Understood("tasks", p)
    BY <2>1, <2>2, ReadersTake DEF Understood, r
  <2> QED BY <2>3 DEF p
<1>6. Understood("task.claim", Put({"messageId"}, {}))
  <2> DEFINE p == Put({"messageId"}, {})
             r == Readings("task.claim")
  <2>1. /\ DOMAIN r = {"messageId", "actorId"} /\ r["messageId"] = Text
        /\ r["actorId"] = Check("optional")
    BY DEF Readings, Managing, Conversing
  <2>2. /\ Field(p, "messageId") = Name /\ Field(p, "actorId") = Missing
    BY DEF Field, Put
  <2> HIDE DEF p, r
  <2>3. Understood("task.claim", p)
    BY <2>1, <2>2, ReadersTake DEF Understood, r
  <2> QED BY <2>3 DEF p
<1>7. Understood("task.claim", Put({"messageId", "actorId"}, {}))
  <2> DEFINE p == Put({"messageId", "actorId"}, {})
             r == Readings("task.claim")
  <2>1. /\ DOMAIN r = {"messageId", "actorId"} /\ r["messageId"] = Text
        /\ r["actorId"] = Check("optional")
    BY DEF Readings, Managing, Conversing
  <2>2. /\ Field(p, "messageId") = Name /\ Field(p, "actorId") = Name
    BY DEF Field, Put
  <2> HIDE DEF p, r
  <2>3. Understood("task.claim", p)
    BY <2>1, <2>2, ReadersTake DEF Understood, r
  <2> QED BY <2>3 DEF p
<1>8. Understood("task.update",
                [messageId |-> Name, expectedVersion |-> Decimal, status |-> Value("status", 1)])
  <2> DEFINE p == [messageId |-> Name, expectedVersion |-> Decimal, status |-> Value("status", 1)]
             r == Readings("task.update")
  <2>1. /\ DOMAIN r = {"messageId", "status", "expectedVersion"} /\ r["messageId"] = Text
        /\ r["status"] = Check("status") /\ r["expectedVersion"] = Check("decimal")
    BY DEF Readings, Managing, Conversing
  <2>2. /\ Field(p, "messageId") = Name /\ Field(p, "status") = Value("status", 1)
        /\ Field(p, "expectedVersion") = Decimal
    BY DEF Field
  <2> HIDE DEF p, r
  <2>3. Understood("task.update", p)
    BY <2>1, <2>2, ReadersTake DEF Understood, r
  <2> QED BY <2>3 DEF p
<1>9. Understood("agent.avatar.update",
                Put({"agentId", "avatarDataUrl"}, {"expectedProfileVersion"}))
  <2> DEFINE p == Put({"agentId", "avatarDataUrl"}, {"expectedProfileVersion"})
             r == Readings("agent.avatar.update")
  <2>1. /\ DOMAIN r = {"agentId", "avatarDataUrl", "expectedProfileVersion"}
        /\ r["agentId"] = Text /\ r["avatarDataUrl"] = Check("optional")
        /\ r["expectedProfileVersion"] = Check("decimal")
    BY DEF Readings, Managing
  <2>2. /\ Field(p, "agentId") = Name /\ Field(p, "avatarDataUrl") = Name
        /\ Field(p, "expectedProfileVersion") = Decimal
    BY DEF Field, Put
  <2> HIDE DEF p, r
  <2>3. Understood("agent.avatar.update", p)
    BY <2>1, <2>2, ReadersTake DEF Understood, r
  <2> QED BY <2>3 DEF p
<1>10. Understood("agent.runtime.replace", Put({"agentId", "provider", "model", "presetId"}, {}))
  <2> DEFINE p == Put({"agentId", "provider", "model", "presetId"}, {})
             r == Readings("agent.runtime.replace")
  <2>1. /\ DOMAIN r = {"agentId", "provider", "model", "presetId", "expectedGeneration"}
        /\ r["agentId"] = Text /\ r["provider"] = Text /\ r["model"] = Text
        /\ r["presetId"] = Text /\ r["expectedGeneration"] = Check("optional")
    BY DEF Readings, Managing
  <2>2. /\ Field(p, "agentId") = Name /\ Field(p, "provider") = Name /\ Field(p, "model") = Name
        /\ Field(p, "presetId") = Name /\ Field(p, "expectedGeneration") = Missing
    BY DEF Field, Put
  <2> HIDE DEF p, r
  <2>3. Understood("agent.runtime.replace", p)
    BY <2>1, <2>2, ReadersTake DEF Understood, r
  <2> QED BY <2>3 DEF p
<1>11. Understood("agent.runtime.replace",
                Put({"agentId", "provider", "model", "presetId"}, {"expectedGeneration"}))
  <2> DEFINE p == Put({"agentId", "provider", "model", "presetId"}, {"expectedGeneration"})
             r == Readings("agent.runtime.replace")
  <2>1. /\ DOMAIN r = {"agentId", "provider", "model", "presetId", "expectedGeneration"}
        /\ r["agentId"] = Text /\ r["provider"] = Text /\ r["model"] = Text
        /\ r["presetId"] = Text /\ r["expectedGeneration"] = Check("optional")
    BY DEF Readings, Managing
  <2>2. /\ Field(p, "agentId") = Name /\ Field(p, "provider") = Name /\ Field(p, "model") = Name
        /\ Field(p, "presetId") = Name /\ Field(p, "expectedGeneration") = Decimal
    BY DEF Field, Put
  <2> HIDE DEF p, r
  <2>3. Understood("agent.runtime.replace", p)
    BY <2>1, <2>2, ReadersTake DEF Understood, r
  <2> QED BY <2>3 DEF p
<1> QED BY <1>1, <1>2, <1>3, <1>4, <1>5, <1>6, <1>7, <1>8, <1>9, <1>10, <1>11

\* Every call of the client carries what its endpoint reads, however many roots, pages
\* or rows it asks for.
LEMMA RequestsUnderstood ==
  ASSUME NEW call \in Requests
  PROVE  Understood(call[1], call[2])
<1>1. ASSUME NEW e \in {"snapshot", "actors", "inbox.doneAll", "agent.presets", "agent.profiles",
                        "runtime.bindings"}
      PROVE  Understood(e, Put({}, {}))
  <2>1. CASE e \in {"snapshot", "actors", "inbox.doneAll"}
    BY <2>1, GivenUnderstood DEF Readings
  <2>2. CASE e \in {"agent.presets", "agent.profiles", "runtime.bindings"}
    BY <2>2, GivenUnderstood DEF Readings, Managing
  <2> QED BY <2>1, <2>2
<1>2. ASSUME NEW e \in {"agent.memberships", "agent.delete"}
      PROVE  Understood(e, Put({"agentId"}, {}))
  <2>1. Readings(e) = Given({"agentId"})
    BY DEF Readings, Managing
  <2> QED BY <2>1, GivenUnderstood
<1>3. Understood("agent.create",
                 Put({"displayName", "description", "provider", "model", "presetId"}, {}))
  <2>1. Readings("agent.create") =
          Given({"displayName", "description", "provider", "model", "presetId"})
    BY DEF Readings, Managing
  <2> QED BY <2>1, GivenUnderstood
<1>4. /\ Understood("target.memberships", Put({"targetId"}, {}))
      /\ Understood("channel.create", Put({"name", "description"}, {}))
      /\ Understood("member.add", Put({"targetId", "memberId"}, {}))
      /\ Understood("message.send", Put({"targetId", "requestId", "text"}, {}))
      /\ Understood("thread.create", Put({"rootMessageId"}, {}))
      /\ Understood("task.create", Put({"messageId"}, {}))
  <2>1. /\ Readings("target.memberships") = Given({"targetId"})
        /\ Readings("channel.create") = Given({"name", "description"})
        /\ Readings("member.add") = Given({"targetId", "memberId"})
        /\ Readings("message.send") = Given({"targetId", "requestId", "text"})
        /\ Readings("thread.create") = Given({"rootMessageId"})
        /\ Readings("task.create") = Given({"messageId"})
    BY DEF Readings, Managing, Conversing
  <2> QED BY <2>1, GivenUnderstood
<1>5. ASSUME NEW e \in {"channel.archive", "channel.restore", "channel.delete"}
      PROVE  Understood(e, Put({"targetId"}, {"expectedVersion"}))
  <2>1. Readings(e) = Fenced({"targetId"}, "expectedVersion")
    BY DEF Readings, Managing, Conversing
  <2> QED BY <2>1, FencedUnderstood
<1>6. /\ Understood("channel.update",
                    Put({"targetId", "name", "description"}, {"expectedVersion"}))
      /\ Understood("inbox.done", Put({"targetId"}, {"throughSeq"}))
      /\ Understood("task.unclaim", Put({"messageId"}, {"expectedVersion"}))
      /\ Understood("agent.profile.update",
                    Put({"agentId", "displayName", "description"}, {"expectedProfileVersion"}))
  <2>1. /\ Readings("channel.update") =
             Fenced({"targetId", "name", "description"}, "expectedVersion")
        /\ Readings("inbox.done") = Fenced({"targetId"}, "throughSeq")
        /\ Readings("task.unclaim") = Fenced({"messageId"}, "expectedVersion")
        /\ Readings("agent.profile.update") =
             Fenced({"agentId", "displayName", "description"}, "expectedProfileVersion")
    BY DEF Readings, Managing, Conversing
  <2> QED BY <2>1, FencedUnderstood
<1> QED BY <1>1, <1>2, <1>3, <1>4, <1>5, <1>6, MixedUnderstood DEF Requests

\* WireInv holds at first, and every step keeps it.
LEMMA WireInductive ==
  /\ WireInit => WireInv
  /\ WireInv /\ [WireNext]_wireVars => WireInv'
<1>1. WireInit => WireInv
  BY DEF WireInit, WireInv, CallsAreUnderstood, CommitsAreAnnounced
<1>2. ASSUME WireInv, [WireNext]_wireVars PROVE WireInv'
  <2> USE DEF WireInv, CallsAreUnderstood, CommitsAreAnnounced
  \* A call goes on to its next phase with what it carries.
  <2>0. ASSUME NEW c \in remote, NEW phase \in {"running", "committed"}
        PROVE  LET d == [c EXCEPT !.phase = phase]
               IN IsRemote(d) /\ d.to = c.to /\ d.payload = c.payload /\ d.phase = phase
    BY <1>2 DEF IsRemote
  <2>1. ASSUME NEW call \in Requests, CallLeaves(call) PROVE WireInv'
    <3> DEFINE c == [to |-> call[1], payload |-> call[2], phase |-> "sent"]
    <3>1. remote' = remote \cup {c} /\ UNCHANGED <<refused, behind>>
      BY <2>1 DEF CallLeaves
    <3>2. IsRemote(c) /\ c.to = call[1] /\ c.payload = call[2]
      BY DEF IsRemote
    <3>3. <<call[1], call[2]>> \in Requests
      BY DEF Requests
    <3> HIDE DEF c
    <3> QED BY <1>2, <3>1, <3>2, <3>3
  <2>2. ASSUME NEW c \in remote, Cancelled(c) \/ CoreRefuses(c) PROVE WireInv'
    BY <1>2, <2>2 DEF Cancelled, CoreRefuses
  <2>3. ASSUME NEW c \in remote, Dispatched(c) PROVE WireInv'
    <3>1. Understood(c.to, c.payload)
      <4>1. <<c.to, c.payload>> \in Requests
        BY <1>2
      <4> QED BY <4>1, RequestsUnderstood
    <3>2. /\ remote' = (remote \ {c}) \cup {[c EXCEPT !.phase = "running"]} /\ c.phase = "sent"
          /\ UNCHANGED <<refused, behind>>
      BY <2>3, <3>1 DEF Dispatched, Advance
    <3> QED BY <1>2, <2>0, <3>2
  <2>4. ASSUME NEW c \in remote, CoreCommits(c) PROVE WireInv'
    <3>1. /\ remote' = (remote \ {c}) \cup {[c EXCEPT !.phase = "committed"]}
          /\ c.phase = "running" /\ UNCHANGED refused
          /\ behind' = behind \/ c.to \in Ledger
      BY <2>4 DEF CoreCommits, Advance
    <3> QED BY <1>2, <2>0, <3>1
  <2>5. ASSUME NEW c \in remote, Answered(c) PROVE WireInv'
    BY <1>2, <2>5, LedgerIsAnnounced DEF Answered
  <2>6. ASSUME NEW c \in remote, ReadFails(c) PROVE WireInv'
    BY <1>2, <2>6 DEF ReadFails
  <2>7. CASE HeartbeatDue
    BY <1>2, <2>7 DEF HeartbeatDue
  <2>8. CASE UNCHANGED wireVars
    BY <1>2, <2>8 DEF wireVars
  <2> QED BY <1>2, <2>1, <2>2, <2>3, <2>4, <2>5, <2>6, <2>7, <2>8 DEF WireNext
<1> QED BY <1>1, <1>2

\* No call of the client is turned away by the host's own checks.
THEOREM CallsAlwaysUnderstood == WireSpec => []CallsAreUnderstood
<1>1. WireInv => CallsAreUnderstood
  BY DEF WireInv
<1> QED BY <1>1, WireInductive, PTL DEF WireSpec

\* A committed change that no stream was told of has its call still under way, or a
\* heartbeat to come.
THEOREM CommitsAlwaysAnnounced == WireSpec => []CommitsAreAnnounced
<1>1. WireInv => CommitsAreAnnounced
  BY DEF WireInv
<1> QED BY <1>1, WireInductive, PTL DEF WireSpec
===============================================================================
