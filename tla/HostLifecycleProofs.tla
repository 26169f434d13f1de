-------------------------- MODULE HostLifecycleProofs --------------------------
(***************************************************************************)
(* Proofs about the host's start, operations and cleanup, for any number   *)
(* of Agents, operations, messages and edits, with every fault allowed.    *)
(*                                                                         *)
(* The inductive invariant has four parts: what the lock of an Agent says  *)
(* about its handles, what each stage of the cleanup has already ended,    *)
(* where a request of the kick loop is, and which version a prompt shows.  *)
(***************************************************************************)
EXTENDS HostLifecycle, FiniteSetTheorems, SequenceTheorems, TLAPS

\* No operation holds the lock, or it is at a stage; the handle it opened and the
\* one it is to replace never both run.
LockInv(a) ==
  /\ queue[a] = <<>> => stage[a] = "start"
  /\ stage[a] \in {"start", "fence", "prepare", "dispose", "open"} => opened[a] = 0
  /\ stage[a] \in {"open", "bind", "check", "abort"} => lease[a] = 0
  /\ stage[a] = "dispose" => lease[a] # 0
  /\ stage[a] \in {"bind", "check", "abort"} => opened[a] # 0
  /\ live[a] \ broken[a] \subseteq {lease[a], opened[a]} \ {0}

Past(stages) == down \in stages

\* What the cleanup has behind it at each of its stages.
CloseInv ==
  /\ phase \in {"pruning", "preparing", "restoring"} => down = "up"
  /\ bridge.on => phase = "serving" /\ Past({"up", "retention"})
  /\ ~Past({"up", "retention"}) => ~pruning
  /\ Past({"locks", "leases", "handle", "done"}) => bridge.drain = "idle"
  /\ core = "closed" => down = "done"

\* close() awaits every operation that is left; then every lease.
AwaitInv(a) ==
  /\ down = "locks" => ahead[a] = Len(queue[a])
  /\ Past({"leases", "handle", "done"}) => queue[a] = <<>>
  /\ down = "leases" => IF ahead[a] = 0 THEN live[a] \subseteq broken[a] ELSE lease[a] # 0
  /\ Past({"handle", "done"}) => live[a] \subseteq broken[a]

\* The prompt shows the durable version, unless an edit's answer still brings it
\* or nothing was prepared yet.
PromptInv(a) ==
  /\ 1 <= profile[a] /\ shown[a] <= profile[a] /\ read[a] <= profile[a]
  /\ edits[a] \subseteq 1..profile[a]
  /\ \/ lease[a] # 0 \/ opened[a] # 0
     \/ stage[a] \in {"dispose", "open", "bind", "check", "abort"}
     => 1 <= shown[a]
  /\ ~Closing => \/ profile[a] \in edits[a] \/ shown[a] = profile[a]
                 \/ profile[a] = 1 /\ shown[a] = 0

LifeInv ==
  /\ LifeTypeOK
  /\ CloseInv
  /\ NoKickLost
  /\ \A a \in Agents : LockInv(a) /\ AwaitInv(a) /\ PromptInv(a)

-----------------------------------------------------------------------------
(* How an operation moves under its lock.                                  *)

JobTypes ==
  /\ queue \in [Agents -> Seq(Job)] /\ stage \in [Agents -> Stages]
  /\ cur \in [Agents -> Generations] /\ read \in [Agents -> Nat]
  /\ ahead \in [Agents -> Nat]

HandleTypes ==
  /\ lease \in [Agents -> Handles \cup {0}] /\ opened \in [Agents -> Handles \cup {0}]
  /\ live \in [Agents -> SUBSET Handles] /\ broken \in [Agents -> SUBSET Handles]
  /\ binding \in [Agents -> Generations] /\ shown \in [Agents -> Nat]

StartTypes ==
  /\ phase \in {"pruning", "preparing", "restoring", "serving", "failed"}
  /\ down \in {"up", "retention", "delivery", "locks", "leases", "handle", "done"}
  /\ core \in {"open", "closed"} /\ pruning \in BOOLEAN
  /\ bridge \in [on : BOOLEAN, requested : BOOLEAN, missed : BOOLEAN,
                 drain : {"idle", "listing", "delivering", "ended"}]
  /\ unlisted \in BOOLEAN
  /\ sent \in [issued : Nat, open : Nat]

EditTypes ==
  /\ asked \in [Agents -> 0..MaxJobs]
  /\ profile \in [Agents -> Nat] /\ edits \in [Agents -> SUBSET Nat]

LEMMA TypesSplit ==
  /\ LifeTypeOK <=> StartTypes /\ JobTypes /\ HandleTypes /\ EditTypes
  /\ LifeTypeOK' <=> StartTypes' /\ JobTypes' /\ HandleTypes' /\ EditTypes'
BY Zenon DEF LifeTypeOK, StartTypes, JobTypes, HandleTypes, EditTypes

\* The holder of a's lock goes on or lets go, and nobody else moves.
Moves(a) ==
  /\ JobTypes'
  /\ \A b \in Agents \ {a} : /\ queue'[b] = queue[b] /\ stage'[b] = stage[b]
                             /\ read'[b] = read[b] /\ ahead'[b] = ahead[b]
  /\ queue'[a] = <<>> => stage'[a] = "start"
  /\ ahead[a] = Len(queue[a]) => ahead'[a] = Len(queue'[a])
  /\ read'[a] \in {0, read[a], profile[a]}

LEMMA HolderIsJob ==
  ASSUME LifeTypeOK, NEW a \in Agents, queue[a] # <<>>
  PROVE  /\ Holder(a) \in Job /\ Tail(queue[a]) \in Seq(Job)
         /\ Len(Tail(queue[a])) = Len(queue[a]) - 1 /\ Len(queue[a]) \in Nat \ {0}
BY HeadTailProperties, EmptySeq DEF LifeTypeOK, Holder

LEMMA FinishMoves ==
  ASSUME LifeTypeOK, NEW a \in Agents, queue[a] # <<>>, Finish(a)
  PROVE  Moves(a) /\ stage'[a] = "start"
<1>1. /\ queue' = [queue EXCEPT ![a] = Tail(queue[a])]
      /\ stage' = [stage EXCEPT ![a] = "start"]
      /\ ahead' = [ahead EXCEPT ![a] = IF ahead[a] > 0 THEN ahead[a] - 1 ELSE 0]
      /\ cur' = [cur EXCEPT ![a] = 0] /\ read' = [read EXCEPT ![a] = 0]
  BY DEF Finish, Put, Goto
<1>2. JobTypes'
  <2>1. queue' \in [Agents -> Seq(Job)]
    BY <1>1, HolderIsJob DEF LifeTypeOK
  <2>2. ahead' \in [Agents -> Nat]
    BY <1>1 DEF LifeTypeOK
  <2>3. /\ stage' \in [Agents -> Stages] /\ read' \in [Agents -> Nat]
        /\ cur' \in [Agents -> Generations]
    BY <1>1 DEF LifeTypeOK, Stages, Generations
  <2> QED BY <2>1, <2>2, <2>3 DEF JobTypes
<1> QED BY <1>1, <1>2, HolderIsJob DEF LifeTypeOK, Moves

LEMMA ContinueMoves ==
  ASSUME LifeTypeOK, NEW a \in Agents, queue[a] # <<>>, NEW s \in Stages, Continue(a, s)
  PROVE  Moves(a) /\ stage'[a] = s
BY DEF Continue, Goto, LifeTypeOK, Moves, JobTypes

LEMMA FailMoves ==
  ASSUME LifeTypeOK, NEW a \in Agents, queue[a] # <<>>, Fail(a)
  PROVE  Moves(a) /\ stage'[a] = "start"
<1>1. CASE Finish(a)
  BY <1>1, FinishMoves
<1>2. CASE /\ queue' = Put(queue, a, <<[kind |-> "recover", expects |-> cur[a]]>> \o Tail(queue[a]))
           /\ Goto(a, "start") /\ UNCHANGED <<cur, read, ahead>>
  <2> DEFINE again == [kind |-> "recover", expects |-> cur[a]]
  <2>1. again \in Job
    BY DEF Job, Kinds, LifeTypeOK
  <2>2. /\ <<again>> \o Tail(queue[a]) \in Seq(Job)
        /\ Len(<<again>> \o Tail(queue[a])) = Len(queue[a])
    <3>1. <<again>> \in Seq(Job) /\ Len(<<again>>) = 1
      BY <2>1
    <3> HIDE DEF again
    <3> QED BY <3>1, HolderIsJob, ConcatProperties
  <2>3. <<again>> \o Tail(queue[a]) # <<>>
    BY <2>2, HolderIsJob
  <2> HIDE DEF again
  <2>4. /\ queue' = [queue EXCEPT ![a] = <<again>> \o Tail(queue[a])]
        /\ stage' = [stage EXCEPT ![a] = "start"]
    BY <1>2 DEF Put, Goto, again
  <2>5. JobTypes'
    <3>1. queue' \in [Agents -> Seq(Job)]
      BY <2>2, <2>4 DEF LifeTypeOK
    <3>2. stage' \in [Agents -> Stages]
      BY <2>4 DEF LifeTypeOK, Stages
    <3> QED BY <1>2, <3>1, <3>2 DEF LifeTypeOK, JobTypes
  <2> QED BY <1>2, <2>2, <2>3, <2>4, <2>5 DEF LifeTypeOK, Moves
<1> QED BY <1>1, <1>2 DEF Fail

-----------------------------------------------------------------------------
(* What a step of an operation keeps when only the lock moves.             *)

\* Everything about the other Agents.
Elsewhere(a) ==
  \A b \in Agents \ {a} :
    /\ lease'[b] = lease[b] /\ opened'[b] = opened[b]
    /\ live'[b] = live[b] /\ broken'[b] = broken[b]
    /\ profile'[b] = profile[b] /\ shown'[b] = shown[b] /\ edits'[b] = edits[b]

\* A step of a's operation keeps the whole invariant if it keeps a's.
LEMMA JobKeeps ==
  ASSUME LifeInv, NEW a \in Agents, Moves(a), Elsewhere(a), HandleTypes',
         UNCHANGED <<starts, delivering, asked, profile, edits>>,
         LockInv(a)', AwaitInv(a)', PromptInv(a)'
  PROVE  LifeInv'
<1>1. LifeTypeOK'
  <2>1. StartTypes' /\ EditTypes'
    BY TypesSplit DEF LifeInv, StartTypes, EditTypes, starts, delivering
  <2> QED BY <2>1, TypesSplit DEF Moves
<1>2. CloseInv'
  BY DEF LifeInv, CloseInv, Past, starts, delivering
<1>3. NoKickLost'
  BY DEF LifeInv, NoKickLost, delivering
<1>4. ASSUME NEW b \in Agents PROVE LockInv(b)' /\ AwaitInv(b)' /\ PromptInv(b)'
  <2>1. CASE b = a
    BY <2>1
  <2>2. CASE b # a
    <3>1. LockInv(b)'
      BY <2>2 DEF LifeInv, LockInv, Moves, Elsewhere
    <3>2. AwaitInv(b)'
      BY <2>2 DEF LifeInv, AwaitInv, Past, Moves, Elsewhere, starts
    <3>3. PromptInv(b)'
      BY <2>2 DEF LifeInv, PromptInv, Closing, Moves, Elsewhere, starts
    <3> QED BY <3>1, <3>2, <3>3
  <2> QED BY <2>1, <2>2
<1> QED BY <1>1, <1>2, <1>3, <1>4 DEF LifeInv

\* A step that leaves handles and identities alone keeps what does not name a stage.
LEMMA LockMoves ==
  ASSUME LifeInv, NEW a \in Agents, Moves(a), queue[a] # <<>>,
         opened[a] = 0,
         \/ stage'[a] \in {"start", "fence", "prepare"}
         \/ stage'[a] = "dispose" /\ lease[a] # 0,
         UNCHANGED <<starts, delivering, asked, handles, identities>>
  PROVE  LifeInv'
<1>1. HandleTypes' /\ Elsewhere(a)
  BY DEF LifeInv, LifeTypeOK, HandleTypes, Elsewhere, handles, identities
<1>2. LockInv(a)'
  BY DEF LifeInv, LockInv, Moves, handles
<1>3. AwaitInv(a)'
  BY DEF LifeInv, AwaitInv, Past, Moves, handles, starts
<1>4. PromptInv(a)'
  BY DEF LifeInv, LifeTypeOK, PromptInv, Closing, Moves, handles, starts, identities
<1>5. UNCHANGED <<starts, delivering, asked, profile, edits>>
  BY DEF identities
<1> QED BY <1>1, <1>2, <1>3, <1>4, <1>5, JobKeeps

LEMMA JobStartsKeeps ==
  ASSUME LifeInv, NEW a \in Agents, JobStarts(a) PROVE LifeInv'
<1>1. queue[a] # <<>> /\ stage[a] = "start" /\ LifeTypeOK
  BY DEF JobStarts, At, LifeInv
<1>2. opened[a] = 0
  BY <1>1 DEF LifeInv, LockInv
<1>3. UNCHANGED <<starts, delivering, asked, handles, identities>>
  BY DEF JobStarts
<1>4. \/ Finish(a)
      \/ lease[a] # 0 /\ Continue(a, "dispose")
      \/ Continue(a, "prepare")
      \/ Continue(a, "fence")
  BY DEF JobStarts
<1>5. CASE Finish(a)
  BY <1>1, <1>2, <1>3, <1>5, FinishMoves, LockMoves
<1>6. CASE lease[a] # 0 /\ Continue(a, "dispose")
  <2>1. "dispose" \in Stages
    BY DEF Stages
  <2> QED BY <1>1, <1>2, <1>3, <1>6, <2>1, ContinueMoves, LockMoves
<1>7. ASSUME NEW s \in {"prepare", "fence"}, Continue(a, s) PROVE LifeInv'
  <2>1. s \in Stages
    BY DEF Stages
  <2> QED BY <1>1, <1>2, <1>3, <1>7, <2>1, ContinueMoves, LockMoves
<1> QED BY <1>4, <1>5, <1>6, <1>7

LEMMA JobFencedKeeps ==
  ASSUME LifeInv, NEW a \in Agents, JobFenced(a) PROVE LifeInv'
<1>1. queue[a] # <<>> /\ stage[a] = "fence" /\ LifeTypeOK
  BY DEF JobFenced, At, LifeInv
<1>2. opened[a] = 0
  BY <1>1 DEF LifeInv, LockInv
<1>3. UNCHANGED <<starts, delivering, asked, handles, identities>>
  BY DEF JobFenced
<1>4. CASE Finish(a)
  BY <1>1, <1>2, <1>3, <1>4, FinishMoves, LockMoves
<1>5. CASE Goto(a, "prepare") /\ cur' = Put(cur, a, binding[a]) /\ UNCHANGED <<queue, read, ahead>>
  <2>1. Moves(a) /\ stage'[a] = "prepare"
    BY <1>1, <1>5 DEF Goto, Put, Moves, JobTypes, LifeTypeOK, Stages
  <2> QED BY <1>1, <1>2, <1>3, <2>1, LockMoves
<1> QED BY <1>4, <1>5 DEF JobFenced

LEMMA JobReadsKeeps ==
  ASSUME LifeInv, NEW a \in Agents, JobReads(a) PROVE LifeInv'
<1>1. queue[a] # <<>> /\ stage[a] = "prepare" /\ LifeTypeOK
  BY DEF JobReads, At, LifeInv
<1>2. opened[a] = 0
  BY <1>1 DEF LifeInv, LockInv
<1>3. Moves(a) /\ stage'[a] = "prepare"
  BY <1>1 DEF JobReads, Put, Moves, JobTypes, LifeTypeOK
<1>4. UNCHANGED <<starts, delivering, asked, handles, identities>>
  BY DEF JobReads
<1> QED BY <1>1, <1>2, <1>3, <1>4, LockMoves

\* The projection takes the newer of two versions.
LEMMA JobPreparedKeeps ==
  ASSUME LifeInv, NEW a \in Agents, JobPrepared(a) PROVE LifeInv'
<1>1. queue[a] # <<>> /\ stage[a] = "prepare" /\ LifeTypeOK /\ opened[a] = 0
  BY DEF JobPrepared, At, LifeInv, LockInv
<1>2. UNCHANGED <<starts, delivering, asked, handles, profile, edits>>
  BY DEF JobPrepared
<1>3. /\ shown[a] \in Nat /\ read[a] \in Nat \ {0} /\ profile[a] \in Nat
      /\ Newest(a, read[a]) \in Nat
  BY <1>1 DEF JobPrepared, LifeTypeOK, Newest
<1>4. /\ Moves(a)
      /\ \/ stage'[a] = "start" /\ shown' \in {shown, Put(shown, a, Newest(a, read[a]))}
         \/ /\ stage'[a] = IF lease[a] = 0 THEN "open" ELSE "dispose"
            /\ shown' = Put(shown, a, Newest(a, read[a]))
  <2>1. CASE Finish(a) /\ shown' \in {shown, Put(shown, a, Newest(a, read[a]))}
    BY <1>1, <2>1, FinishMoves
  <2>2. CASE /\ shown' = Put(shown, a, Newest(a, read[a]))
             /\ Goto(a, IF lease[a] = 0 THEN "open" ELSE "dispose")
             /\ UNCHANGED <<queue, cur, ahead>> /\ read' = Put(read, a, 0)
    BY <1>1, <2>2 DEF Goto, Put, Moves, JobTypes, LifeTypeOK, Stages
  <2> QED BY <2>1, <2>2 DEF JobPrepared
<1>5. /\ shown' \in [Agents -> Nat] /\ shown'[a] \in {shown[a], Newest(a, read[a])}
      /\ stage'[a] # "start" => shown'[a] = Newest(a, read[a])
      /\ \A b \in Agents \ {a} : shown'[b] = shown[b]
  <2>1. CASE shown' = shown
    BY <1>1, <1>3, <1>4, <2>1 DEF LifeTypeOK, Put
  <2>2. CASE shown' = [shown EXCEPT ![a] = Newest(a, read[a])]
    BY <1>1, <1>3, <2>2 DEF LifeTypeOK
  <2> QED BY <1>4, <2>1, <2>2 DEF Put
<1>6. HandleTypes' /\ Elsewhere(a)
  BY <1>1, <1>2, <1>5 DEF LifeTypeOK, HandleTypes, Elsewhere, handles
<1>7. LockInv(a)'
  BY <1>1, <1>2, <1>4 DEF LifeInv, LockInv, Moves, handles
<1>8. AwaitInv(a)'
  <2>1. Moves(a) /\ queue[a] # <<>>
    BY <1>1, <1>4
  <2> QED BY <1>2, <2>1 DEF LifeInv, AwaitInv, Past, Moves, handles, starts
<1>9. PromptInv(a)'
  BY <1>1, <1>2, <1>3, <1>4, <1>5
     DEF LifeInv, PromptInv, Newest, Closing, Moves, handles, starts
<1> QED BY <1>2, <1>4, <1>6, <1>7, <1>8, <1>9, JobKeeps

\* The old handle is gone before anything opens, or it stays leased.
LEMMA JobDisposesKeeps ==
  ASSUME LifeInv, NEW a \in Agents, JobDisposes(a) PROVE LifeInv'
<1>1. queue[a] # <<>> /\ stage[a] = "dispose" /\ LifeTypeOK /\ opened[a] = 0
      /\ lease[a] # 0 /\ 1 <= shown[a] /\ live[a] \ broken[a] \subseteq {lease[a]}
  BY DEF JobDisposes, At, LifeInv, LockInv, PromptInv
<1>2. UNCHANGED <<starts, delivering, asked, opened, binding, identities>>
  BY DEF JobDisposes
<1>3. CASE /\ lease' = Put(lease, a, 0)
           /\ live' = Put(live, a, live[a] \ {lease[a]})
           /\ broken' = Put(broken, a, broken[a] \ {lease[a]})
           /\ Finish(a) \/ Continue(a, "open")
  <2>1. Moves(a) /\ stage'[a] \in {"start", "open"}
    BY <1>1, <1>3, FinishMoves, ContinueMoves DEF Stages
  <2>2. HandleTypes' /\ Elsewhere(a)
    BY <1>1, <1>2, <1>3 DEF LifeTypeOK, HandleTypes, Elsewhere, Put, identities
  <2>3. lease'[a] = 0 /\ live'[a] \subseteq broken'[a]
    BY <1>1, <1>3 DEF LifeTypeOK, Put
  <2>4. LockInv(a)'
    BY <1>1, <1>2, <2>1, <2>3 DEF LockInv, Moves
  <2>5. AwaitInv(a)'
    BY <1>1, <1>2, <2>1, <2>3 DEF LifeInv, AwaitInv, Past, Moves, starts
  <2>6. PromptInv(a)'
    BY <1>1, <1>2, <2>1 DEF LifeInv, LifeTypeOK, PromptInv, Closing, Moves, starts, identities
  <2> QED BY <1>2, <2>1, <2>2, <2>4, <2>5, <2>6, JobKeeps DEF identities
<1>4. CASE /\ broken' = Put(broken, a, broken[a] \cup {lease[a]})
           /\ Fail(a) /\ UNCHANGED <<lease, live>>
  <2>1. Moves(a) /\ stage'[a] = "start"
    BY <1>1, <1>4, FailMoves
  <2>2. HandleTypes' /\ Elsewhere(a)
    BY <1>1, <1>2, <1>4 DEF LifeTypeOK, HandleTypes, Elsewhere, Put, identities
  <2>3. live'[a] \subseteq broken'[a]
    BY <1>1, <1>4 DEF LifeTypeOK, Put
  <2>4. LockInv(a)'
    BY <1>1, <1>2, <2>1, <2>3 DEF LockInv, Moves
  <2>5. AwaitInv(a)'
    BY <1>1, <1>2, <2>1, <2>3 DEF LifeInv, AwaitInv, Past, Moves, starts
  <2>6. PromptInv(a)'
    BY <1>1, <1>2, <2>1 DEF LifeInv, LifeTypeOK, PromptInv, Closing, Moves, starts, identities
  <2> QED BY <1>2, <2>1, <2>2, <2>4, <2>5, <2>6, JobKeeps DEF identities
<1> QED BY <1>3, <1>4 DEF JobDisposes

\* A handle opens only where none runs.
LEMMA JobOpensKeeps ==
  ASSUME LifeInv, NEW a \in Agents, JobOpens(a) PROVE LifeInv'
<1>1. queue[a] # <<>> /\ stage[a] = "open" /\ LifeTypeOK /\ lease[a] = 0 /\ opened[a] = 0
      /\ 1 <= shown[a] /\ live[a] \subseteq broken[a]
  BY DEF JobOpens, At, LifeInv, LockInv, PromptInv
<1>2. UNCHANGED <<starts, delivering, asked, lease, broken, binding, identities>>
  BY DEF JobOpens
<1>3. ASSUME NEW h \in Handles, NEW s \in {"bind", "check"},
             opened' = Put(opened, a, h), live' = Put(live, a, live[a] \cup {h}), Continue(a, s)
      PROVE  LifeInv'
  <2>1. Moves(a) /\ stage'[a] = s
    BY <1>1, <1>3, ContinueMoves DEF Stages
  <2>2. HandleTypes' /\ Elsewhere(a)
    BY <1>1, <1>2, <1>3 DEF LifeTypeOK, HandleTypes, Elsewhere, Put, identities
  <2>3. opened'[a] = h /\ h # 0 /\ lease'[a] = 0 /\ live'[a] \ broken'[a] \subseteq {h}
    BY <1>1, <1>2, <1>3 DEF LifeTypeOK, Put, Handles
  <2>4. LockInv(a)'
    BY <1>1, <2>1, <2>3 DEF LockInv, Moves
  <2>5. AwaitInv(a)'
    <3>1. queue' = queue /\ ahead' = ahead
      BY <1>3 DEF Continue
    <3>2. ahead[a] \in Nat /\ Len(queue[a]) \in Nat \ {0}
      BY <1>1, HolderIsJob DEF LifeTypeOK
    <3> QED BY <1>1, <1>2, <3>1, <3>2 DEF LifeInv, AwaitInv, Past, starts
  <2>6. PromptInv(a)'
    BY <1>1, <1>2, <2>1 DEF LifeInv, LifeTypeOK, PromptInv, Closing, Moves, starts, identities
  <2> QED BY <1>2, <2>1, <2>2, <2>4, <2>5, <2>6, JobKeeps DEF identities
<1>4. CASE Fail(a) /\ UNCHANGED <<opened, live>>
  <2>1. Moves(a) /\ stage'[a] = "start"
    BY <1>1, <1>4, FailMoves
  <2>2. HandleTypes' /\ Elsewhere(a)
    BY <1>1, <1>2, <1>4 DEF LifeTypeOK, HandleTypes, Elsewhere, identities
  <2>3. LockInv(a)'
    BY <1>1, <1>2, <1>4, <2>1 DEF LockInv, Moves
  <2>4. AwaitInv(a)'
    BY <1>1, <1>2, <1>4, <2>1 DEF LifeInv, AwaitInv, Past, Moves, starts
  <2>5. PromptInv(a)'
    BY <1>1, <1>2, <1>4, <2>1
       DEF LifeInv, LifeTypeOK, PromptInv, Closing, Moves, starts, identities
  <2> QED BY <1>2, <2>1, <2>2, <2>3, <2>4, <2>5, JobKeeps DEF identities
<1> QED BY <1>3, <1>4 DEF JobOpens, Fresh

LEMMA JobPublishesKeeps ==
  ASSUME LifeInv, NEW a \in Agents, JobPublishes(a) PROVE LifeInv'
<1>1. /\ queue[a] # <<>> /\ stage[a] \in {"bind", "check"} /\ LifeTypeOK
      /\ lease[a] = 0 /\ opened[a] # 0 /\ opened[a] \in Handles
      /\ 1 <= shown[a] /\ live[a] \ broken[a] \subseteq {opened[a]}
  BY DEF JobPublishes, At, LifeInv, LockInv, PromptInv, LifeTypeOK
<1>2. UNCHANGED <<starts, delivering, asked, live, broken, identities>>
  BY DEF JobPublishes
<1>3. CASE /\ binding' = Put(binding, a, IF stage[a] = "bind" THEN binding[a] + 1 ELSE binding[a])
           /\ lease' = Put(lease, a, opened[a]) /\ opened' = Put(opened, a, 0)
           /\ Finish(a)
  <2>1. Moves(a) /\ stage'[a] = "start"
    BY <1>1, <1>3, FinishMoves
  <2>2. HandleTypes' /\ Elsewhere(a)
    BY <1>1, <1>2, <1>3 DEF LifeTypeOK, HandleTypes, Elsewhere, Put, Generations, identities
  <2>3. opened'[a] = 0 /\ lease'[a] = opened[a]
    BY <1>1, <1>3 DEF LifeTypeOK, Put
  <2>4. LockInv(a)'
    BY <1>1, <1>2, <2>1, <2>3 DEF LockInv
  <2>5. AwaitInv(a)'
    <3>1. Len(queue[a]) \in Nat \ {0} /\ ~Past({"leases", "handle", "done"})
      BY <1>1, HolderIsJob DEF LifeInv, AwaitInv
    <3> QED BY <1>1, <1>2, <2>1, <3>1 DEF LifeInv, AwaitInv, Past, Moves, starts
  <2>6. PromptInv(a)'
    BY <1>1, <1>2, <2>1 DEF LifeInv, LifeTypeOK, PromptInv, Closing, Moves, starts, identities
  <2> QED BY <1>2, <2>1, <2>2, <2>4, <2>5, <2>6, JobKeeps DEF identities
<1>4. CASE Continue(a, "abort") /\ UNCHANGED <<lease, opened, binding>>
  <2>1. Moves(a) /\ stage'[a] = "abort"
    BY <1>1, <1>4, ContinueMoves DEF Stages
  <2>2. HandleTypes' /\ Elsewhere(a)
    BY <1>1, <1>2, <1>4 DEF LifeTypeOK, HandleTypes, Elsewhere, identities
  <2>3. LockInv(a)'
    BY <1>1, <1>2, <1>4, <2>1 DEF LockInv, Moves
  <2>4. AwaitInv(a)'
    BY <1>1, <1>2, <1>4, <2>1 DEF LifeInv, AwaitInv, Past, Moves, starts
  <2>5. PromptInv(a)'
    BY <1>1, <1>2, <1>4, <2>1
       DEF LifeInv, LifeTypeOK, PromptInv, Closing, Moves, starts, identities
  <2> QED BY <1>2, <2>1, <2>2, <2>3, <2>4, <2>5, JobKeeps DEF identities
<1> QED BY <1>3, <1>4 DEF JobPublishes

\* A handle nobody will hold is ended, or its dispose() threw.
LEMMA JobAbortsKeeps ==
  ASSUME LifeInv, NEW a \in Agents, JobAborts(a) PROVE LifeInv'
<1>1. /\ queue[a] # <<>> /\ stage[a] = "abort" /\ LifeTypeOK
      /\ lease[a] = 0 /\ opened[a] # 0 /\ opened[a] \in Handles
      /\ 1 <= shown[a] /\ live[a] \ broken[a] \subseteq {opened[a]}
  BY DEF JobAborts, At, LifeInv, LockInv, PromptInv, LifeTypeOK
<1>2. /\ UNCHANGED <<starts, delivering, asked, lease, binding, identities>>
      /\ opened' = Put(opened, a, 0)
  BY DEF JobAborts
<1>3. Moves(a) /\ stage'[a] = "start"
  BY <1>1, FailMoves DEF JobAborts
<1>4. /\ live' \in [Agents -> SUBSET Handles] /\ broken' \in [Agents -> SUBSET Handles]
      /\ \A b \in Agents \ {a} : live'[b] = live[b] /\ broken'[b] = broken[b]
      /\ live'[a] \subseteq broken'[a]
  <2>1. CASE live' = Put(live, a, live[a] \ {opened[a]}) /\ UNCHANGED broken
    BY <1>1, <2>1 DEF LifeTypeOK, Put
  <2>2. CASE broken' = Put(broken, a, broken[a] \cup {opened[a]}) /\ UNCHANGED live
    BY <1>1, <2>2 DEF LifeTypeOK, Put
  <2> QED BY <2>1, <2>2 DEF JobAborts
<1>5. HandleTypes' /\ Elsewhere(a) /\ opened'[a] = 0
  BY <1>1, <1>2, <1>4 DEF LifeTypeOK, HandleTypes, Elsewhere, Put, identities
<1>6. LockInv(a)'
  BY <1>1, <1>2, <1>3, <1>4, <1>5 DEF LockInv
<1>7. AwaitInv(a)'
  BY <1>1, <1>2, <1>3, <1>4 DEF LifeInv, AwaitInv, Past, Moves, starts
<1>8. PromptInv(a)'
  BY <1>1, <1>2, <1>3 DEF LifeInv, LifeTypeOK, PromptInv, Closing, Moves, starts, identities
<1> QED BY <1>2, <1>3, <1>5, <1>6, <1>7, <1>8, JobKeeps DEF identities

-----------------------------------------------------------------------------
(* Steps of the service, the bridge and the cleanup.                       *)

\* A step that leaves operations, handles and identities alone.
LEMMA QuietKeeps ==
  ASSUME LifeInv, UNCHANGED <<jobs, handles, identities>>,
         StartTypes', CloseInv', NoKickLost', Closing => Closing',
         \A a \in Agents : AwaitInv(a)'
  PROVE  LifeInv'
<1>1. LifeTypeOK'
  BY TypesSplit DEF LifeInv, JobTypes, HandleTypes, EditTypes, jobs, handles, identities
<1>2. ASSUME NEW a \in Agents PROVE LockInv(a)' /\ PromptInv(a)'
  BY DEF LifeInv, LockInv, PromptInv, jobs, handles, identities
<1> QED BY <1>1, <1>2 DEF LifeInv

\* And the cleanup too.
LEMMA StillKeeps ==
  ASSUME LifeInv, UNCHANGED <<jobs, handles, identities, down>>,
         StartTypes', CloseInv', NoKickLost'
  PROVE  LifeInv'
<1>1. Closing => Closing'
  BY DEF Closing
<1>2. \A a \in Agents : AwaitInv(a)'
  BY DEF LifeInv, AwaitInv, Past, jobs, handles
<1> QED BY <1>1, <1>2, QuietKeeps

\* A kick leaves a scan that is still to read, or a request behind the drain.
LEMMA KickedReads ==
  ASSUME NEW b \in [on : BOOLEAN, requested : BOOLEAN, missed : BOOLEAN,
                    drain : {"idle", "listing", "delivering", "ended"}]
  PROVE  /\ Kicked(b) \in [on : BOOLEAN, requested : BOOLEAN, missed : BOOLEAN,
                           drain : {"idle", "listing", "delivering", "ended"}]
         /\ Kicked(b).on = b.on
         /\ \/ Kicked(b).drain = "listing"
            \/ Kicked(b).requested /\ Kicked(b).drain # "idle"
BY DEF Kicked

LEMMA RoundsRead ==
  ASSUME NEW b \in [on : BOOLEAN, requested : BOOLEAN, missed : BOOLEAN,
                    drain : {"idle", "listing", "delivering", "ended"}]
  PROVE  /\ NextRound(b) \in [on : BOOLEAN, requested : BOOLEAN, missed : BOOLEAN,
                              drain : {"idle", "listing", "delivering", "ended"}]
         /\ NextRound(b).on = b.on /\ NextRound(b).missed = b.missed
         /\ b.on /\ b.requested => NextRound(b).drain = "listing"
BY DEF NextRound

LEMMA StartKeeps ==
  ASSUME LifeInv, Pruned \/ InitFails \/ PruneBegins \/ PruneEnds PROVE LifeInv'
<1>1. UNCHANGED <<down, core, delivering, jobs, handles, identities>>
  BY DEF Pruned, InitFails, PruneBegins, PruneEnds
<1>2. StartTypes'
  <2>1. StartTypes
    BY TypesSplit DEF LifeInv
  <2>2. UNCHANGED <<bridge, unlisted, sent>>
    BY <1>1 DEF delivering
  <2>3. /\ phase' \in {"pruning", "preparing", "restoring", "serving", "failed"}
        /\ pruning' \in BOOLEAN
    BY <2>1 DEF StartTypes, Pruned, InitFails, PruneBegins, PruneEnds
  <2> QED BY <1>1, <2>1, <2>2, <2>3 DEF StartTypes
<1>3. CloseInv'
  BY <1>1 DEF LifeInv, CloseInv, Past, Pruned, InitFails, PruneBegins, PruneEnds, delivering
<1>4. NoKickLost'
  BY <1>1 DEF LifeInv, NoKickLost, delivering
<1> QED BY <1>1, <1>2, <1>3, <1>4, StillKeeps

LEMMA RestoredKeeps == ASSUME LifeInv, Restored PROVE LifeInv'
<1>1. StartTypes /\ CloseInv
  BY TypesSplit DEF LifeInv
<1>2. UNCHANGED <<down, core, pruning, unlisted, sent, jobs, handles, identities>>
      /\ phase = "restoring" /\ phase' = "serving"
  BY DEF Restored
<1> DEFINE b == [bridge EXCEPT !.on = TRUE]
<1>3. b \in [on : BOOLEAN, requested : BOOLEAN, missed : BOOLEAN,
             drain : {"idle", "listing", "delivering", "ended"}]
  BY <1>1 DEF StartTypes
<1>4. bridge' = Kicked(b)
  BY DEF Restored
<1> HIDE DEF b
<1>5. StartTypes'
  BY <1>1, <1>2, <1>3, <1>4, KickedReads DEF StartTypes
<1>6. CloseInv'
  BY <1>1, <1>2 DEF CloseInv, Past
<1>7. NoKickLost'
  BY <1>3, <1>4, KickedReads DEF NoKickLost
<1> QED BY <1>2, <1>5, <1>6, <1>7, StillKeeps

\* A message: its send is unanswered, and its answer kicks.
LEMMA SendsKeep ==
  ASSUME LifeInv, Send \/ SendAnswered \/ Poll PROVE LifeInv'
<1>1. StartTypes /\ CloseInv /\ NoKickLost
  BY TypesSplit DEF LifeInv
<1>2. UNCHANGED <<phase, down, core, pruning, jobs, handles, identities>>
  BY DEF Send, SendAnswered, Poll, starts
<1>3. bridge \in [on : BOOLEAN, requested : BOOLEAN, missed : BOOLEAN,
                  drain : {"idle", "listing", "delivering", "ended"}]
  BY <1>1 DEF StartTypes
<1>4. \/ bridge' = bridge /\ sent'.open = sent.open + 1 /\ unlisted' = TRUE
      \/ bridge' = Kicked(bridge) /\ bridge.on /\ unlisted' = unlisted
      \/ bridge' = bridge /\ ~bridge.on /\ unlisted' = unlisted
  BY <1>1 DEF Send, SendAnswered, Poll, CloseInv, Bridged, Past, StartTypes
<1>5. StartTypes'
  <2>1. sent' \in [issued : Nat, open : Nat]
    BY <1>1 DEF StartTypes, Send, SendAnswered, Poll
  <2>2. bridge' \in [on : BOOLEAN, requested : BOOLEAN, missed : BOOLEAN,
                     drain : {"idle", "listing", "delivering", "ended"}]
    BY <1>3, <1>4, KickedReads
  <2> QED BY <1>1, <1>2, <1>4, <2>1, <2>2 DEF StartTypes
<1>6. CloseInv'
  BY <1>1, <1>2, <1>3, <1>4, KickedReads DEF CloseInv, Past, StartTypes
<1>7. NoKickLost'
  <2>1. CASE bridge' = bridge /\ sent'.open = sent.open + 1
    BY <1>1, <2>1 DEF NoKickLost, StartTypes
  <2>2. CASE bridge' = Kicked(bridge)
    BY <1>3, <2>2, KickedReads DEF NoKickLost
  <2>3. CASE bridge' = bridge /\ ~bridge.on
    BY <2>3 DEF NoKickLost
  <2> QED BY <1>4, <2>1, <2>2, <2>3
<1> QED BY <1>2, <1>5, <1>6, <1>7, StillKeeps

\* The drain: what it has not read yet is read by another round, or was missed.
LEMMA ScansKeep ==
  ASSUME LifeInv, ScanNext PROVE LifeInv'
<1>1. StartTypes /\ CloseInv /\ NoKickLost
  BY TypesSplit DEF LifeInv
<1>2. UNCHANGED <<phase, down, core, pruning, sent, jobs, handles, identities>>
  BY DEF ScanNext, ScanReads, ScanEnds, DrainSettles, starts
<1>3. bridge \in [on : BOOLEAN, requested : BOOLEAN, missed : BOOLEAN,
                  drain : {"idle", "listing", "delivering", "ended"}]
  BY <1>1 DEF StartTypes
<1>4. /\ bridge' \in [on : BOOLEAN, requested : BOOLEAN, missed : BOOLEAN,
                      drain : {"idle", "listing", "delivering", "ended"}]
      /\ bridge'.on = bridge.on /\ unlisted' \in {unlisted, FALSE}
      /\ bridge.drain # "idle"
      /\ NoKickLost'
  <2>1. CASE ScanReads
    BY <1>1, <1>3, <2>1 DEF ScanReads, NoKickLost
  <2>2. CASE bridge.drain = "delivering" /\ bridge' = NextRound(bridge) /\ unlisted' = unlisted
    BY <1>1, <1>2, <1>3, <2>2, RoundsRead DEF NoKickLost
  <2>3. CASE /\ bridge.drain = "listing" /\ unlisted' = unlisted
             /\ bridge' = NextRound([bridge EXCEPT !.missed = TRUE])
    <3> DEFINE b == [bridge EXCEPT !.missed = TRUE]
    <3>1. /\ b \in [on : BOOLEAN, requested : BOOLEAN, missed : BOOLEAN,
                    drain : {"idle", "listing", "delivering", "ended"}]
          /\ b.on = bridge.on /\ b.missed
      BY <1>3
    <3> HIDE DEF b
    <3>2. bridge' = NextRound(b)
      BY <2>3 DEF b
    <3> QED BY <2>3, <3>1, <3>2, RoundsRead DEF NoKickLost
  <2>4. CASE DrainSettles
    <3>1. [bridge EXCEPT !.drain = "idle"]
            \in [on : BOOLEAN, requested : BOOLEAN, missed : BOOLEAN,
                 drain : {"idle", "listing", "delivering", "ended"}]
      BY <1>3
    <3>2. CASE bridge.on /\ bridge.requested
      BY <1>3, <2>4, <3>1, <3>2, KickedReads DEF DrainSettles, NoKickLost
    <3>3. CASE ~(bridge.on /\ bridge.requested)
      BY <1>1, <1>2, <1>3, <2>4, <3>1, <3>3 DEF DrainSettles, NoKickLost
    <3> QED BY <3>2, <3>3
  <2> QED BY <2>1, <2>2, <2>3, <2>4 DEF ScanNext, ScanEnds
<1>5. StartTypes'
  BY <1>1, <1>2, <1>4 DEF StartTypes
<1>6. CloseInv'
  BY <1>1, <1>2, <1>4 DEF CloseInv, Past
<1> QED BY <1>2, <1>4, <1>5, <1>6, StillKeeps

-----------------------------------------------------------------------------
(* Asking, edits and the cleanup.                                          *)

\* Operations are queued only while the manager is not closing.
LEMMA QueuedKeeps ==
  ASSUME LifeInv, queue' \in [Agents -> Seq(Job)],
         \A a \in Agents : queue'[a] = queue[a] \/ queue'[a] # <<>>,
         asked' \in [Agents -> 0..MaxJobs],
         UNCHANGED <<down, core, pruning, delivering, stage, cur, read, ahead, handles,
                     identities>>,
         Past({"up", "retention", "delivery"}), StartTypes', CloseInv'
  PROVE  LifeInv'
<1>1. LifeTypeOK'
  BY TypesSplit DEF LifeInv, JobTypes, HandleTypes, EditTypes, handles, identities
<1>2. NoKickLost'
  BY DEF LifeInv, NoKickLost, delivering
<1>3. ASSUME NEW a \in Agents PROVE LockInv(a)' /\ AwaitInv(a)' /\ PromptInv(a)'
  BY DEF LifeInv, LockInv, AwaitInv, PromptInv, Past, Closing, handles, identities
<1> QED BY <1>1, <1>2, <1>3 DEF LifeInv

LEMMA AskKeeps ==
  ASSUME LifeInv, NEW a \in Agents, NEW kind \in Kinds, NEW expects \in Generations,
         Ask(a, kind, expects)
  PROVE  LifeInv'
<1>1. StartTypes /\ CloseInv /\ queue \in [Agents -> Seq(Job)]
      /\ asked \in [Agents -> 0..MaxJobs]
  BY TypesSplit DEF LifeInv, JobTypes, EditTypes
<1>2. UNCHANGED <<starts, delivering, stage, cur, read, ahead, handles, identities>>
      /\ Past({"up", "retention", "delivery"})
  BY DEF Ask, Managed, Past
<1>3. [kind |-> kind, expects |-> expects] \in Job
  BY DEF Job
<1> DEFINE j == [kind |-> kind, expects |-> expects]
<1>4. queue' = [queue EXCEPT ![a] = Append(queue[a], j)]
  BY DEF Ask, Put
<1> HIDE DEF j
<1>5. Append(queue[a], j) \in Seq(Job) /\ Append(queue[a], j) # <<>>
  BY <1>1, <1>3, AppendProperties DEF j
<1>6. queue' \in [Agents -> Seq(Job)]
      /\ \A b \in Agents : queue'[b] = queue[b] \/ queue'[b] # <<>>
  BY <1>1, <1>4, <1>5
<1>7. asked' \in [Agents -> 0..MaxJobs]
  BY <1>1, BoundsAssumption DEF Ask, Put
<1>8. StartTypes' /\ CloseInv' /\ UNCHANGED <<down, core, pruning>>
  BY <1>1, <1>2 DEF StartTypes, CloseInv, Past, starts, delivering
<1> QED BY <1>2, <1>6, <1>7, <1>8, QueuedKeeps

LEMMA BeginRestoreKeeps == ASSUME LifeInv, BeginRestore PROVE LifeInv'
<1>1. StartTypes /\ CloseInv /\ queue \in [Agents -> Seq(Job)]
      /\ asked \in [Agents -> 0..MaxJobs]
  BY TypesSplit DEF LifeInv, JobTypes, EditTypes
<1> DEFINE j == [kind |-> "restore", expects |-> 0]
<1>2. j \in Job
  BY DEF Job, Kinds, Generations
<1>3. queue' = [a \in Agents |-> IF binding[a] = 0 THEN queue[a] ELSE Append(queue[a], j)]
      /\ UNCHANGED <<down, core, pruning, delivering, stage, cur, read, asked, ahead,
                     handles, identities>>
      /\ down = "up" /\ phase' = "restoring"
  BY DEF BeginRestore
<1> HIDE DEF j
<1>4. \A a \in Agents : Append(queue[a], j) \in Seq(Job) /\ Append(queue[a], j) # <<>>
  BY <1>1, <1>2, AppendProperties
<1>5. queue' \in [Agents -> Seq(Job)]
      /\ \A b \in Agents : queue'[b] = queue[b] \/ queue'[b] # <<>>
  BY <1>1, <1>3, <1>4
<1>6. bridge' = bridge /\ sent' = sent /\ unlisted' = unlisted
  BY <1>3 DEF delivering
<1>7. ~bridge.on
  BY <1>1 DEF CloseInv, BeginRestore
<1>8. StartTypes' /\ CloseInv'
  BY <1>1, <1>3, <1>6, <1>7 DEF StartTypes, CloseInv, Past
<1>9. Past({"up", "retention", "delivery"})
  BY <1>3 DEF Past
<1> QED BY <1>1, <1>3, <1>5, <1>8, <1>9, QueuedKeeps

\* An edit's answer brings a version that is at least the one shown.
LEMMA EditsKeep ==
  ASSUME LifeInv, NEW a \in Agents, EditCommits(a) \/ EditAnswered(a) PROVE LifeInv'
<1>1. /\ LifeTypeOK /\ PromptInv(a)
      /\ profile[a] \in Nat /\ shown[a] \in Nat /\ edits[a] \subseteq Nat /\ read[a] \in Nat
  BY DEF LifeInv, LifeTypeOK
<1>2. UNCHANGED <<starts, delivering, jobs, handles>>
  BY DEF EditCommits, EditAnswered
<1> DEFINE Goal ==
      /\ profile' \in [Agents -> Nat] /\ shown' \in [Agents -> Nat]
      /\ edits' \in [Agents -> SUBSET Nat]
      /\ \A b \in Agents \ {a} : /\ profile'[b] = profile[b] /\ shown'[b] = shown[b]
                                 /\ edits'[b] = edits[b]
      /\ PromptInv(a)'
<1>3. Goal
  <2>1. CASE EditCommits(a)
    <3>1. /\ profile' = [profile EXCEPT ![a] = profile[a] + 1] /\ shown' = shown
          /\ edits' = [edits EXCEPT ![a] = edits[a] \cup {profile[a] + 1}]
      BY <2>1 DEF EditCommits, Put
    <3>2. PromptInv(a)'
      BY <1>1, <1>2, <3>1 DEF LifeTypeOK, PromptInv, Closing, starts, jobs, handles
    <3> QED BY <1>1, <3>1, <3>2 DEF LifeTypeOK
  <2>2. ASSUME NEW version \in edits[a], edits' = Put(edits, a, edits[a] \ {version}),
               shown' = IF Closing THEN shown ELSE Put(shown, a, Newest(a, version)),
               profile' = profile
        PROVE  Goal
    <3>1. version \in Nat /\ 1 <= version /\ version <= profile[a]
      BY <1>1 DEF PromptInv
    <3>2. edits' = [edits EXCEPT ![a] = edits[a] \ {version}]
      BY <2>2 DEF Put
    <3>3. CASE Closing
      <4>1. shown' = shown
        BY <2>2, <3>3
      <4>2. /\ edits'[a] \subseteq edits[a] /\ edits' \in [Agents -> SUBSET Nat]
            /\ \A b \in Agents \ {a} : edits'[b] = edits[b]
        BY <1>1, <3>2 DEF LifeTypeOK
      <4>3. Closing' /\ UNCHANGED <<lease, opened, stage, read, profile, shown>>
        BY <1>2, <2>2, <3>3, <4>1 DEF Closing, starts, jobs, handles
      <4>4. PromptInv(a)'
        BY <1>1, <4>2, <4>3 DEF PromptInv
      <4> QED BY <1>1, <4>2, <4>3, <4>4 DEF LifeTypeOK
    <3>4. CASE ~Closing
      BY <1>1, <1>2, <2>2, <3>1, <3>2, <3>4
         DEF LifeTypeOK, PromptInv, Newest, Put, Closing, starts, jobs, handles
    <3> QED BY <3>3, <3>4
  <2>3. EditAnswered(a) =>
          \E version \in edits[a] :
             /\ edits' = Put(edits, a, edits[a] \ {version}) /\ profile' = profile
             /\ shown' = IF Closing THEN shown ELSE Put(shown, a, Newest(a, version))
    BY DEF EditAnswered
  <2> HIDE DEF Goal
  <2> QED BY <2>1, <2>2, <2>3
<1>4. LifeTypeOK' /\ NoKickLost' /\ CloseInv'
  <2>1. StartTypes' /\ JobTypes'
    BY <1>2, TypesSplit DEF LifeInv, StartTypes, JobTypes, starts, delivering, jobs
  <2>2. HandleTypes' /\ EditTypes'
    BY <1>2, <1>3, TypesSplit DEF LifeInv, HandleTypes, EditTypes, handles, jobs
  <2> QED BY <1>2, <2>1, <2>2, TypesSplit
          DEF LifeInv, NoKickLost, CloseInv, Past, starts, delivering
<1>5. ASSUME NEW b \in Agents PROVE LockInv(b)' /\ AwaitInv(b)' /\ PromptInv(b)'
  <2>1. LockInv(b)' /\ AwaitInv(b)'
    BY <1>2 DEF LifeInv, LockInv, AwaitInv, Past, starts, jobs, handles
  <2>2. CASE b # a
    BY <1>2, <1>3, <2>1, <2>2 DEF LifeInv, PromptInv, Closing, starts, jobs, handles
  <2> QED BY <1>3, <2>1, <2>2
<1> QED BY <1>4, <1>5 DEF LifeInv

\* A cleanup step, whose next stage has ended what it must have.
LEMMA CleanupStageKeeps ==
  ASSUME LifeInv, CleanupBegins \/ BridgeStops \/ ManagerClosed \/ CoreCloses
  PROVE  LifeInv'
<1>1. StartTypes /\ CloseInv /\ NoKickLost
  BY TypesSplit DEF LifeInv
<1>2. UNCHANGED <<phase, pruning, unlisted, sent, jobs, handles, identities>>
  BY DEF CleanupBegins, BridgeStops, ManagerClosed, CoreCloses, delivering
<1>3. StartTypes' /\ CloseInv' /\ NoKickLost' /\ (Closing => Closing')
  <2>1. CASE CleanupBegins
    BY <1>1, <2>1
       DEF CleanupBegins, StartTypes, CloseInv, NoKickLost, Past, Closing, delivering
  <2>2. CASE BridgeStops
    BY <1>1, <2>2 DEF BridgeStops, StartTypes, CloseInv, NoKickLost, Past, Closing
  <2>3. CASE ManagerClosed \/ CoreCloses
    BY <1>1, <2>3
       DEF ManagerClosed, CoreCloses, StartTypes, CloseInv, NoKickLost, Past, Closing, delivering
  <2> QED BY <2>1, <2>2, <2>3
<1>4. \A a \in Agents : AwaitInv(a)'
  BY <1>2 DEF LifeInv, AwaitInv, Past, CleanupBegins, BridgeStops, ManagerClosed, CoreCloses,
              jobs, handles
<1> QED BY <1>2, <1>3, <1>4, QuietKeeps

\* close() counts what it awaits; leases are disposed when nothing holds a lock.
LEMMA CloseKeeps ==
  ASSUME LifeInv, CloseBegins \/ LocksSettled PROVE LifeInv'
<1>1. StartTypes /\ CloseInv /\ NoKickLost /\ LifeTypeOK
  BY TypesSplit DEF LifeInv
<1>2. UNCHANGED <<phase, core, pruning, delivering, queue, stage, cur, read, asked,
                  handles, identities>>
  BY DEF CloseBegins, LocksSettled
<1>3. ahead' \in [Agents -> Nat] /\ \A a \in Agents : AwaitInv(a)'
  <2>1. CASE CloseBegins
    <3>1. \A a \in Agents : Len(queue[a]) \in Nat
      BY <1>1, LenProperties DEF LifeTypeOK
    <3>2. ahead' = [a \in Agents |-> Len(queue[a])] /\ down' = "locks"
      BY <2>1 DEF CloseBegins
    <3> QED BY <1>2, <3>1, <3>2 DEF AwaitInv, Past
  <2>2. CASE LocksSettled
    <3>1. /\ down' = "leases" /\ down = "locks" /\ \A a \in Agents : ahead[a] = 0
          /\ ahead' = [a \in Agents |-> IF lease[a] = 0 THEN 0 ELSE 1]
      BY <2>2 DEF LocksSettled
    <3>2. ASSUME NEW a \in Agents PROVE queue[a] = <<>>
      <4>1. Len(queue[a]) = 0 /\ queue[a] \in Seq(Job)
        BY <1>1, <3>1 DEF LifeInv, AwaitInv, LifeTypeOK
      <4> QED BY <4>1, EmptySeq
    <3>3. ASSUME NEW a \in Agents, lease[a] = 0 PROVE live[a] \subseteq broken[a]
      BY <3>2, <3>3 DEF LifeInv, LockInv
    <3> QED BY <1>2, <3>1, <3>2, <3>3 DEF AwaitInv, Past, handles
  <2> QED BY <2>1, <2>2
<1>4. StartTypes' /\ CloseInv' /\ NoKickLost' /\ Closing'
  BY <1>1, <1>2
     DEF CloseBegins, LocksSettled, StartTypes, CloseInv, NoKickLost, Past, Closing, delivering
<1>5. LifeTypeOK'
  BY <1>2, <1>3, <1>4, TypesSplit
     DEF LifeInv, JobTypes, HandleTypes, EditTypes, handles, identities
<1>6. ASSUME NEW a \in Agents PROVE LockInv(a)' /\ PromptInv(a)'
  BY <1>2, <1>4 DEF LifeInv, LockInv, PromptInv, handles, identities
<1> QED BY <1>3, <1>4, <1>5, <1>6 DEF LifeInv

LEMMA LeaseDisposedKeeps ==
  ASSUME LifeInv, NEW a \in Agents, LeaseDisposed(a) PROVE LifeInv'
<1>1. StartTypes /\ CloseInv /\ NoKickLost /\ LifeTypeOK /\ down = "leases" /\ queue[a] = <<>>
      /\ ahead[a] > 0 /\ lease[a] # 0 /\ lease[a] \in Handles
  <2>1. StartTypes /\ CloseInv /\ NoKickLost /\ LifeTypeOK /\ AwaitInv(a)
    BY TypesSplit DEF LifeInv
  <2>2. down = "leases" /\ ahead[a] > 0
    BY DEF LeaseDisposed
  <2>3. lease[a] \in Handles \cup {0} /\ ahead[a] \in Nat
    BY <2>1 DEF LifeTypeOK
  <2> QED BY <2>1, <2>2, <2>3 DEF AwaitInv, Past
<1>2. UNCHANGED <<starts, delivering, queue, stage, cur, read, asked, opened, binding,
                  identities>>
      /\ ahead' = [ahead EXCEPT ![a] = 0]
  BY DEF LeaseDisposed, Put
<1>3. stage[a] = "start" /\ opened[a] = 0 /\ live[a] \ broken[a] \subseteq {lease[a]} \ {0}
  BY <1>1 DEF LifeInv, LockInv
<1>4. /\ lease' \in [Agents -> Handles \cup {0}] /\ live' \in [Agents -> SUBSET Handles]
      /\ broken' \in [Agents -> SUBSET Handles]
      /\ \A b \in Agents \ {a} : /\ lease'[b] = lease[b] /\ live'[b] = live[b]
                                 /\ broken'[b] = broken[b]
      /\ live'[a] \subseteq broken'[a]
  <2>1. CASE /\ lease' = Put(lease, a, 0)
             /\ live' = Put(live, a, live[a] \ {lease[a]})
             /\ broken' = Put(broken, a, broken[a] \ {lease[a]})
    BY <1>1, <1>3, <2>1 DEF LifeTypeOK, Put
  <2>2. CASE broken' = Put(broken, a, broken[a] \cup {lease[a]}) /\ UNCHANGED <<lease, live>>
    BY <1>1, <1>3, <2>2 DEF LifeTypeOK, Put
  <2> QED BY <2>1, <2>2 DEF LeaseDisposed
<1>5. LifeTypeOK'
  <2>1. ahead' \in [Agents -> Nat]
    BY <1>1, <1>2 DEF LifeTypeOK
  <2>2. StartTypes' /\ EditTypes'
    BY <1>2, TypesSplit DEF LifeInv, StartTypes, EditTypes, starts, delivering, identities
  <2>3. JobTypes' /\ HandleTypes'
    BY <1>1, <1>2, <1>4, <2>1 DEF LifeTypeOK, JobTypes, HandleTypes, identities
  <2> QED BY <2>2, <2>3, TypesSplit
<1>6. CloseInv' /\ NoKickLost'
  BY <1>1, <1>2 DEF CloseInv, NoKickLost, Past, starts, delivering
<1>7. ASSUME NEW b \in Agents PROVE LockInv(b)' /\ AwaitInv(b)' /\ PromptInv(b)'
  <2>1. CASE b = a
    <3>1. ahead'[a] = 0
      BY <1>1, <1>2 DEF LifeTypeOK
    <3>2. LockInv(a)'
      BY <1>1, <1>2, <1>3, <1>4 DEF LockInv
    <3>3. AwaitInv(a)'
      BY <1>1, <1>2, <1>4, <3>1 DEF AwaitInv, Past, starts
    <3>4. PromptInv(a)'
      BY <1>1, <1>2, <1>3, <1>4 DEF LifeInv, PromptInv, Closing, starts, identities
    <3> QED BY <2>1, <3>2, <3>3, <3>4
  <2>2. CASE b # a
    <3>1. ahead'[b] = ahead[b]
      BY <1>1, <1>2, <2>2 DEF LifeTypeOK
    <3> QED BY <1>2, <1>4, <2>2, <3>1
            DEF LifeInv, LockInv, AwaitInv, PromptInv, Past, Closing, starts, identities
  <2> QED BY <2>1, <2>2
<1> QED BY <1>5, <1>6, <1>7 DEF LifeInv

-----------------------------------------------------------------------------
(* The theorems.                                                           *)

LEMMA LifeInitHolds == LifeInit => LifeInv
<1> SUFFICES ASSUME LifeInit PROVE LifeInv
  OBVIOUS
<1>1. StartTypes
  BY DEF LifeInit, StartTypes
<1>2. JobTypes
  BY EmptySeq DEF LifeInit, JobTypes, Stages, Generations
<1>3. HandleTypes /\ EditTypes
  BY BoundsAssumption DEF LifeInit, HandleTypes, EditTypes, Generations
<1>4. CloseInv /\ NoKickLost
  BY DEF LifeInit, CloseInv, NoKickLost, Past
<1>5. \A a \in Agents : LockInv(a) /\ AwaitInv(a) /\ PromptInv(a)
  BY DEF LifeInit, LockInv, AwaitInv, PromptInv, Past, Closing
<1> QED BY <1>1, <1>2, <1>3, <1>4, <1>5, TypesSplit DEF LifeInv

LEMMA LifeInductive == LifeInv /\ [LifeNext]_vars => LifeInv'
<1> SUFFICES ASSUME LifeInv, [LifeNext]_vars PROVE LifeInv'
  OBVIOUS
<1>1. CASE Pruned \/ InitFails \/ PruneBegins \/ PruneEnds
  BY <1>1, StartKeeps
<1>2. CASE BeginRestore
  BY <1>2, BeginRestoreKeeps
<1>3. CASE Restored
  BY <1>3, RestoredKeeps
<1>4. CASE Send \/ SendAnswered \/ Poll
  BY <1>4, SendsKeep
<1>5. CASE ScanNext
  BY <1>5, ScansKeep
<1>6. CASE CleanupBegins \/ CleanupNext
  BY <1>6, CleanupStageKeeps, CloseKeeps, LeaseDisposedKeeps DEF CleanupNext
<1>7. ASSUME NEW a \in Agents, NEW kind \in {"create", "resume", "stop"}, Ask(a, kind, 0)
      PROVE  LifeInv'
  <2>1. kind \in Kinds /\ 0 \in Generations
    BY DEF Kinds, Generations
  <2> QED BY <1>7, <2>1, AskKeeps
<1>8. ASSUME NEW a \in Agents, NEW expects \in {0, binding[a]}, Ask(a, "reset", expects)
      PROVE  LifeInv'
  <2>1. "reset" \in Kinds /\ expects \in Generations
    BY DEF Kinds, Generations, LifeInv, LifeTypeOK
  <2> QED BY <1>8, <2>1, AskKeeps
<1>9. ASSUME NEW a \in Agents, JobNext(a) PROVE LifeInv'
  BY <1>9, JobStartsKeeps, JobFencedKeeps, JobReadsKeeps, JobPreparedKeeps, JobDisposesKeeps,
     JobOpensKeeps, JobPublishesKeeps, JobAbortsKeeps DEF JobNext
<1>10. ASSUME NEW a \in Agents, EditCommits(a) \/ EditAnswered(a) PROVE LifeInv'
  BY <1>10, EditsKeep
<1>11. CASE UNCHANGED vars
  <2>1. UNCHANGED <<jobs, handles, identities, down>> /\ UNCHANGED <<starts, delivering>>
    BY <1>11 DEF vars, starts
  <2>2. StartTypes' /\ CloseInv' /\ NoKickLost'
    BY <2>1, TypesSplit DEF LifeInv, StartTypes, CloseInv, NoKickLost, Past, starts, delivering
  <2> QED BY <2>1, <2>2, StillKeeps
<1> QED BY <1>1, <1>2, <1>3, <1>4, <1>5, <1>6, <1>7, <1>8, <1>9, <1>10, <1>11 DEF LifeNext

\* The state of the host stays within its types.
THEOREM LifeTypeCorrect == LifeSpec => []LifeTypeOK
<1>1. LifeInv => LifeTypeOK
  BY DEF LifeInv
<1> QED BY <1>1, LifeInitHolds, LifeInductive, PTL DEF LifeSpec

\* An Agent never has two Sessions that run, whatever is refused and whoever waits.
THEOREM OneSessionAlways == LifeSpec => []OneSession
<1>1. LifeInv => OneSession
  <2> SUFFICES ASSUME LifeInv, NEW a \in Agents
               PROVE  Cardinality(live[a] \ broken[a]) <= 1
    BY DEF OneSession
  <2>1. PICK h : live[a] \ broken[a] \subseteq {h}
    <3>1. live[a] \ broken[a] \subseteq {lease[a], opened[a]} \ {0}
      BY DEF LifeInv, LockInv
    <3>2. lease[a] = 0 \/ opened[a] = 0
      BY DEF LifeInv, LockInv, LifeTypeOK, Stages
    <3> QED BY <3>1, <3>2
  <2>2. live[a] \ broken[a] = {} \/ live[a] \ broken[a] = {h}
    BY <2>1
  <2>3. Cardinality({}) = 0 /\ Cardinality({h}) = 1
    BY FS_EmptySet, FS_Singleton
  <2> QED BY <2>2, <2>3
<1> QED BY <1>1, LifeInitHolds, LifeInductive, PTL DEF LifeSpec

\* Coalesced kicks never lose the last one.
THEOREM NoKickEverLost == LifeSpec => []NoKickLost
<1>1. LifeInv => NoKickLost
  BY DEF LifeInv
<1> QED BY <1>1, LifeInitHolds, LifeInductive, PTL DEF LifeSpec

\* Everything the host runs on its own has ended when the core closes.
THEOREM LoopsEndFirst == LifeSpec => []LoopsEndBeforeCore
<1>1. LifeInv => LoopsEndBeforeCore
  BY DEF LifeInv, CloseInv, AwaitInv, Past, LoopsEndBeforeCore
<1> QED BY <1>1, LifeInitHolds, LifeInductive, PTL DEF LifeSpec

\* No handle is left running when the manager is closed.
THEOREM HandlesEndFirst == LifeSpec => []NoHandleOutlives
<1>1. LifeInv => NoHandleOutlives
  BY DEF LifeInv, AwaitInv, Past, NoHandleOutlives
<1> QED BY <1>1, LifeInitHolds, LifeInductive, PTL DEF LifeSpec

\* A published Session's prompt shows the durable identity once edits are answered.
THEOREM PromptAlwaysCurrent == LifeSpec => []PromptIsCurrent
<1>1. LifeInv => PromptIsCurrent
  <2> SUFFICES ASSUME LifeInv, NEW a \in Agents, lease[a] # 0, edits[a] = {}, ~Closing
               PROVE  shown[a] = profile[a]
    BY DEF PromptIsCurrent
  <2>1. PromptInv(a) /\ shown[a] \in Nat
    BY DEF LifeInv, LifeTypeOK
  <2> QED BY <2>1 DEF PromptInv
<1> QED BY <1>1, LifeInitHolds, LifeInductive, PTL DEF LifeSpec
=============================================================================
