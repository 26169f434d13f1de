---------------------------- MODULE SurfacesProofs ----------------------------
(***************************************************************************)
(* Proofs about the surfaces of the web client: the panel's block on the   *)
(* composer, the Activity inbox, the list of Channels with its dialogs,    *)
(* and the Task board.  Each invariant is proved of its own module's       *)
(* specification, for every value of the constants; side by side, as the   *)
(* run explores them, the surfaces behave as each alone.                   *)
(***************************************************************************)
EXTENDS Surfaces, TLAPS

-----------------------------------------------------------------------------
(* The panel.                                                              *)

\* The session whose block we remember is the one that is covered.
Covered == IF panel.mounted /\ panel.open THEN session ELSE Nowhere

ShellInv ==
  /\ panel \in [mounted : BOOLEAN, open : BOOLEAN]
  /\ others \subseteq OtherPanels
  /\ blocked = Covered
  /\ BlockFollowsPanel

\* Sync leaves a block on the session it is told about, and no other.
LEMMA SyncMoves ==
  ASSUME NEW open \in BOOLEAN, NEW current,
         blocks = IF blocked = Nowhere THEN {} ELSE {blocked},
         Sync(open, current)
  PROVE  /\ blocked' = IF open THEN current ELSE Nowhere
         /\ blocks' = IF open /\ current # Nowhere THEN {current} ELSE {}
BY DEF Sync

\* The block raised is the one remembered.
LEMMA BlockIsRemembered ==
  ShellInv => blocks = IF blocked = Nowhere THEN {} ELSE {blocked}
BY DEF ShellInv, BlockFollowsPanel, Covered

\* Opening closes every other panel: each hears a name that is not its own.
LEMMA OpenedAlone ==
  ASSUME ShellInv, panel.mounted, Opened
  PROVE  ShellInv' \/ session' # session
<1>1. blocked' = session /\ blocks' = IF session # Nowhere THEN {session} ELSE {}
  BY SyncMoves, BlockIsRemembered DEF Opened
<1>2. others' = {}
  BY PanelsAssumption DEF Opened, ShellInv
<1>3. panel' = [mounted |-> TRUE, open |-> TRUE]
  BY DEF Opened, ShellInv
<1> QED BY <1>1, <1>2, <1>3 DEF ShellInv, Covered, BlockFollowsPanel

\* Closing gives the composer back.
LEMMA ClosedFree ==
  ASSUME ShellInv, Closed, others' \subseteq OtherPanels
  PROVE  ShellInv'
<1>1. blocked' = Nowhere /\ blocks' = {}
  BY SyncMoves, BlockIsRemembered DEF Closed
<1>2. panel' \in [mounted : BOOLEAN, open : BOOLEAN] /\ ~panel'.open
  BY DEF Closed, ShellInv
<1> QED BY <1>1, <1>2 DEF ShellInv, Covered, BlockFollowsPanel

\* ShellInv holds at first, and every step keeps it.
LEMMA ShellInductive ==
  /\ ShellInit => ShellInv
  /\ ShellInv /\ [ShellNext]_shellVars => ShellInv'
<1>1. ShellInit => ShellInv
  BY DEF ShellInit, ShellInv, Covered, BlockFollowsPanel
<1>2. ASSUME ShellInv, [ShellNext]_shellVars PROVE ShellInv'
  <2>1. CASE ToggleEntry
    BY <1>2, <2>1, OpenedAlone, ClosedFree DEF ToggleEntry, ShellInv
  <2>2. CASE CloseShell
    BY <1>2, <2>2, ClosedFree DEF CloseShell, ShellInv
  <2>3. CASE Unmount
    BY <1>2, <2>3 DEF Unmount, ShellInv, Covered, BlockFollowsPanel
  <2>4. ASSUME NEW p \in OtherPanels, OtherOpens(p) PROVE ShellInv'
    <3>1. CASE panel.mounted /\ panel.open
      BY <1>2, <2>4, <3>1, ClosedFree DEF OtherOpens
    <3>2. CASE ~(panel.mounted /\ panel.open)
      BY <1>2, <2>4, <3>2 DEF OtherOpens, ShellInv, Covered, BlockFollowsPanel
    <3> QED BY <3>1, <3>2
  <2>5. ASSUME NEW p \in OtherPanels, OtherCloses(p) PROVE ShellInv'
    BY <1>2, <2>5 DEF OtherCloses, ShellInv, Covered, BlockFollowsPanel
  <2>6. ASSUME NEW s \in Sessions \cup {Nowhere}, SessionSwitches(s) PROVE ShellInv'
    <3>1. CASE panel.mounted
      <4>1. /\ blocked' = IF panel.open THEN s ELSE Nowhere
            /\ blocks' = IF panel.open /\ s # Nowhere THEN {s} ELSE {}
        BY <1>2, <2>6, <3>1, SyncMoves, BlockIsRemembered DEF SessionSwitches, ShellInv
      <4> QED BY <1>2, <2>6, <3>1, <4>1
              DEF SessionSwitches, ShellInv, Covered, BlockFollowsPanel
    <3>2. CASE ~panel.mounted
      BY <1>2, <2>6, <3>2 DEF SessionSwitches, ShellInv, Covered, BlockFollowsPanel
    <3> QED BY <3>1, <3>2
  <2>7. ASSUME NEW room \in Pages, Navigate(room) PROVE ShellInv'
    <3>1. CASE panel.open
      BY <1>2, <2>7, <3>1 DEF Navigate, ShellInv, Covered, BlockFollowsPanel
    <3>2. CASE ~panel.open
      BY <1>2, <2>7, <3>2, OpenedAlone DEF Navigate
    <3> QED BY <3>1, <3>2
  <2>8. ASSUME NEW rooms \in SUBSET Pages, StoreLoads(rooms) PROVE ShellInv'
    BY <1>2, <2>8 DEF StoreLoads, ShellInv, Covered, BlockFollowsPanel
  <2>9. CASE UNCHANGED shellVars
    BY <1>2, <2>9 DEF shellVars, ShellInv, Covered, BlockFollowsPanel
  <2> QED BY <1>2, <2>1, <2>2, <2>3, <2>4, <2>5, <2>6, <2>7, <2>8, <2>9 DEF ShellNext
<1> QED BY <1>1, <1>2

\* Exactly the covered session's composer is inert, and an open panel has the
\* column to itself.
THEOREM BlockAlwaysFollows == ShellSpec => []BlockFollowsPanel
<1>1. ShellInv => BlockFollowsPanel
  BY DEF ShellInv
<1> QED BY <1>1, ShellInductive, PTL DEF ShellSpec

-----------------------------------------------------------------------------
(* The Activity inbox.                                                     *)

\* A Done call on its way names nothing its row did not show.
MarkAgreed(m) == m.conv # NoConv => m.seq <= agreedSeq[m.conv]

ActivityInv ==
  /\ latest \in [Convs -> Nat] /\ fence \in [Convs -> Nat]
  /\ shownRows \in [Convs -> Nat] /\ agreedSeq \in [Convs -> Nat]
  /\ \A c \in Convs : fence[c] <= latest[c] /\ fence[c] <= agreedSeq[c]
  /\ \A r \in refreshes : "page" \in DOMAIN r /\ r.page \in [Convs -> Nat]
  /\ marks \subseteq [conv : Convs \cup {NoConv}, seq : Nat, served : BOOLEAN]
  /\ \A m \in marks : MarkAgreed(m)

\* What a Done serves: the fence moves forward, no further than agreed.
LEMMA ServedAsAgreed ==
  ASSUME ActivityInv, NEW m \in marks, DoneServed(m)
  PROVE  /\ fence' \in [Convs -> Nat] /\ agreedSeq' \in [Convs -> Nat]
         /\ \A c \in Convs : /\ fence[c] <= fence'[c] /\ fence'[c] <= latest[c]
                             /\ fence'[c] <= agreedSeq'[c]
                             /\ agreedSeq[c] <= agreedSeq'[c]
<1>1. CASE m.conv = NoConv
  BY <1>1 DEF DoneServed, ActivityInv, Larger
<1>2. CASE m.conv # NoConv
  <2>1. m.conv \in Convs /\ m.seq \in Nat /\ m.seq <= agreedSeq[m.conv]
    BY <1>2 DEF ActivityInv, MarkAgreed
  <2>2. /\ fence' = [fence EXCEPT ![m.conv] = Larger(@, m.seq)]
        /\ m.seq <= latest[m.conv] /\ agreedSeq' = agreedSeq
    BY <1>2, <2>1 DEF DoneServed, Advances, ActivityInv
  <2> QED BY <2>1, <2>2 DEF ActivityInv, Larger
<1> QED BY <1>1, <1>2

\* A step that only shows, drops or reads refreshes keeps the invariant.
LEMMA ActivityInductive ==
  /\ ActivityInit => ActivityInv
  /\ ActivityInv /\ [ActivityNext]_activityVars => ActivityInv'
<1>1. ActivityInit => ActivityInv
  BY DEF ActivityInit, ActivityInv
<1>2. ASSUME ActivityInv, [ActivityNext]_activityVars PROVE ActivityInv'
  <2>1. ASSUME NEW c \in Convs, MessageArrives(c) PROVE ActivityInv'
    BY <1>2, <2>1 DEF MessageArrives, ActivityInv, MarkAgreed
  <2>2. ASSUME NEW c \in Convs, MarkDone(c) PROVE ActivityInv'
    <3>1. agreedSeq' = [agreedSeq EXCEPT ![c] = Larger(@, shownRows[c])]
      BY <2>2 DEF MarkDone
    <3>2. /\ agreedSeq' \in [Convs -> Nat] /\ shownRows[c] <= agreedSeq'[c]
          /\ \A d \in Convs : agreedSeq[d] <= agreedSeq'[d]
      BY <1>2, <3>1 DEF ActivityInv, Larger
    <3>3. \A m \in marks' : MarkAgreed(m)'
      <4> SUFFICES ASSUME NEW m \in marks' PROVE MarkAgreed(m)'
        OBVIOUS
      <4>1. CASE m \in marks
        BY <1>2, <3>2, <4>1 DEF ActivityInv, MarkAgreed
      <4>2. CASE m = [conv |-> c, seq |-> shownRows[c], served |-> FALSE]
        BY <1>2, <3>2, <4>2 DEF ActivityInv, MarkAgreed
      <4> QED BY <2>2, <4>1, <4>2 DEF MarkDone
    <3>4. marks' \subseteq [conv : Convs \cup {NoConv}, seq : Nat, served : BOOLEAN]
      <4>1. [conv |-> c, seq |-> shownRows[c], served |-> FALSE]
              \in [conv : Convs \cup {NoConv}, seq : Nat, served : BOOLEAN]
        BY <1>2 DEF ActivityInv
      <4> QED BY <1>2, <2>2, <4>1 DEF MarkDone, ActivityInv
    <3> QED BY <1>2, <2>2, <3>2, <3>3, <3>4 DEF MarkDone, core, ActivityInv
  <2>3. ASSUME NEW c \in Convs, OpenRow(c) PROVE ActivityInv'
    BY <1>2, <2>3 DEF OpenRow, core, ActivityInv, MarkAgreed
  <2>4. ASSUME NEW r \in refreshes, ListServed(r) PROVE ActivityInv'
    <3>1. \A s \in refreshes' : "page" \in DOMAIN s /\ s.page \in [Convs -> Nat]
      <4> DEFINE Page(L) == [c \in Convs |-> IF c \in L THEN latest[c] ELSE 0]
                 Answer(L) == [r EXCEPT !.served = TRUE, !.count = Cardinality(Unread),
                                        !.page = Page(L)]
      <4>1. PICK L : refreshes' = (refreshes \ {r}) \cup {Answer(L)}
        BY <2>4 DEF ListServed
      <4>2. Page(L) \in [Convs -> Nat]
        BY <1>2 DEF ActivityInv
      <4>3. "page" \in DOMAIN Answer(L) /\ Answer(L).page = Page(L)
        <5> HIDE DEF Page
        <5> QED BY <1>2 DEF ActivityInv
      <4> HIDE DEF Answer
      <4> QED BY <1>2, <4>1, <4>2, <4>3 DEF ActivityInv
    <3> QED BY <1>2, <2>4, <3>1 DEF ListServed, core, ActivityInv, MarkAgreed
  <2>5. ASSUME NEW r \in refreshes, RefreshAnswered(r) \/ RefreshFails(r) PROVE ActivityInv'
    BY <1>2, <2>5 DEF RefreshAnswered, RefreshFails, core, ActivityInv, MarkAgreed
  <2>6. ASSUME NEW m \in marks, DoneServed(m) PROVE ActivityInv'
    <3>1. \A n \in marks' : MarkAgreed(n)'
      <4> SUFFICES ASSUME NEW n \in marks' PROVE MarkAgreed(n)'
        OBVIOUS
      <4>1. PICK o \in marks : n.conv = o.conv /\ n.seq = o.seq
        <5>1. CASE n \in marks
          BY <5>1
        <5>2. CASE n = [m EXCEPT !.served = TRUE]
          BY <5>2
        <5> QED BY <2>6, <5>1, <5>2 DEF DoneServed
      <4> QED BY <1>2, <2>6, <4>1, ServedAsAgreed DEF ActivityInv, MarkAgreed
    <3> QED BY <1>2, <2>6, <3>1, ServedAsAgreed DEF DoneServed, ActivityInv
  <2>7. ASSUME NEW m \in marks, MarkAnswered(m) \/ MarkFails(m) PROVE ActivityInv'
    BY <1>2, <2>7 DEF MarkAnswered, MarkFails, Refresh, core, ActivityInv, MarkAgreed
  <2>8. CASE TimerFires \/ SetFilter
    BY <1>2, <2>8 DEF TimerFires, SetFilter, Refresh, core, ActivityInv, MarkAgreed
  <2>9. CASE NewLoad \/ CloseDock
    BY <1>2, <2>9 DEF NewLoad, CloseDock, core, ActivityInv, MarkAgreed
  <2>10. CASE MarkAllDone
    <3>1. marks' = marks \cup {[conv |-> NoConv, seq |-> 0, served |-> FALSE]}
      BY <2>10 DEF MarkAllDone
    <3>2. marks' \subseteq [conv : Convs \cup {NoConv}, seq : Nat, served : BOOLEAN]
      <4>1. [conv |-> NoConv, seq |-> 0, served |-> FALSE]
              \in [conv : Convs \cup {NoConv}, seq : Nat, served : BOOLEAN]
        OBVIOUS
      <4> QED BY <1>2, <3>1, <4>1 DEF ActivityInv
    <3>3. \A m \in marks' : MarkAgreed(m)'
      BY <1>2, <2>10, <3>1 DEF MarkAllDone, core, ActivityInv, MarkAgreed
    <3> QED BY <1>2, <2>10, <3>2, <3>3 DEF MarkAllDone, core, ActivityInv
  <2>11. CASE UNCHANGED activityVars
    BY <1>2, <2>11 DEF activityVars, core, ActivityInv, MarkAgreed
  <2> QED BY <1>2, <2>1, <2>2, <2>3, <2>4, <2>5, <2>6, <2>7, <2>8, <2>9, <2>10, <2>11
          DEF ActivityNext
<1> QED BY <1>1, <1>2

\* A step moves fences forward only, and not past what was agreed to.
LEMMA FenceSteps ==
  ASSUME ActivityInv, [ActivityNext]_activityVars
  PROVE  \A c \in Convs : fence[c] <= fence'[c] /\ fence'[c] <= agreedSeq'[c]
<1>1. ASSUME NEW m \in marks, DoneServed(m)
      PROVE  \A c \in Convs : fence[c] <= fence'[c] /\ fence'[c] <= agreedSeq'[c]
  BY <1>1, ServedAsAgreed
<1>2. CASE fence' = fence
  BY <1>2, ActivityInductive DEF ActivityInv
<1>3. fence' = fence \/ \E m \in marks : DoneServed(m)
  BY DEF ActivityNext, activityVars, core, MessageArrives, MarkDone, OpenRow, ListServed,
         RefreshAnswered, RefreshFails, MarkAnswered, MarkFails, TimerFires, SetFilter,
         NewLoad, MarkAllDone, CloseDock
<1> QED BY <1>1, <1>2, <1>3

\* Done hides nothing newer than the row that was marked.
THEOREM DoneNeverHidesNewer == ActivitySpec => DoneHidesNothingNewer
<1>1. ActivityInv /\ [ActivityNext]_activityVars =>
        [\A c \in Convs : fence[c] <= fence'[c] /\ fence'[c] <= agreedSeq'[c]]_activityVars
  BY FenceSteps
<1> QED BY <1>1, ActivityInductive, PTL DEF ActivitySpec, DoneHidesNothingNewer

-----------------------------------------------------------------------------
(* The Task board.                                                         *)

\* What was read of the row at some time: a version it had, with its status.
Snapshot(r) ==
  /\ r.status \in Lanes /\ r.ver \in Nat /\ r.ver <= row.ver
  /\ r.ver = row.ver => r.status = row.status

\* A version of the row, at which its status might change to lane if it is still its own.
Offers(ver, lane) ==
  /\ ver \in Nat /\ ver <= row.ver
  /\ ver = row.ver => <<row.status, lane>> \in CoreAllows

\* A call's version is one the row had, its answer a snapshot; an update was shown to be
\* possible at the version seen.
CallKnown(c) ==
  /\ c.ver \in Nat /\ c.ver <= row.ver
  /\ c.done \in BOOLEAN /\ c.done => Snapshot(c.got[1])
  /\ c.kind = "update" => Offers(c.seen, c.to)

\* The lane under the drag took the card at the version seen.
OverKnown == "over" \in DOMAIN desk /\ Offers(desk.over.seen, desk.over.lane)

DeskInv ==
  /\ row.ver # 0 /\ Snapshot(row) /\ Snapshot(card)
  /\ OverKnown
  /\ \A c \in taskCalls : CallKnown(c)

\* What the board offers is what the core's table has.
LEMMA OfferedIsAllowed ==
  \A from \in Lanes : \A to \in Offered(from) : to \in Lanes /\ <<from, to>> \in CoreAllows
BY DEF Lanes, Offered, CoreAllows

\* A move that the card shown offers.
LEMMA ShownIsOffered ==
  ASSUME DeskInv, NEW to \in Offered(card.status)
  PROVE  Offers(card.ver, to)
BY OfferedIsAllowed DEF DeskInv, Snapshot, Offers

\* A change of the row makes everything read before it stale.
LEMMA RevisedIsStale ==
  ASSUME DeskInv, NEW status \in Lanes, NEW holder, Revise(status, holder)
  PROVE  /\ row'.ver # 0 /\ Snapshot(row)'
         /\ \A r : Snapshot(r) => r.status \in Lanes /\ r.ver \in Nat /\ r.ver < row'.ver
         /\ \A ver, lane : Offers(ver, lane) => ver \in Nat /\ ver < row'.ver
         /\ \A c \in taskCalls : CallKnown(c)'
<1>1. row.ver \in Nat /\ row'.ver = row.ver + 1 /\ row'.status = status
  BY DEF Revise, DeskInv, Snapshot
<1>2. Snapshot(row)'
  BY <1>1 DEF Snapshot
<1>3. \A r : Snapshot(r) => r.status \in Lanes /\ r.ver \in Nat /\ r.ver < row'.ver
  BY <1>1 DEF Snapshot
<1>4. \A ver, lane : Offers(ver, lane) => ver \in Nat /\ ver < row'.ver
  BY <1>1 DEF Offers
<1>5. ASSUME NEW c \in taskCalls PROVE CallKnown(c)'
  <2>1. CallKnown(c)
    BY DEF DeskInv
  <2>2. c.ver \in Nat /\ c.ver <= row'.ver
    BY <1>1, <2>1 DEF CallKnown
  <2>3. ASSUME c.done PROVE Snapshot(c.got[1])'
    <3>1. Snapshot(c.got[1])
      BY <2>1, <2>3 DEF CallKnown
    <3> QED BY <1>1, <3>1 DEF Snapshot
  <2>4. c.kind = "update" => Offers(c.seen, c.to)'
    BY <1>1, <1>4, <2>1 DEF CallKnown, Offers
  <2> QED BY <2>1, <2>2, <2>3, <2>4 DEF CallKnown
<1> QED BY <1>1, <1>2, <1>3, <1>4, <1>5

\* A row that is revised, with what is shown and asked left alone.
LEMMA RevisedKeeps ==
  ASSUME DeskInv, NEW status \in Lanes, NEW holder, Revise(status, holder),
         UNCHANGED <<card, desk>>
  PROVE  row'.ver # 0 /\ Snapshot(row)' /\ Snapshot(card)' /\ OverKnown'
<1>1. Snapshot(row)' /\ Snapshot(card)'
  BY RevisedIsStale DEF DeskInv, Snapshot
<1>2. OverKnown'
  <2> DEFINE seen == desk.over.seen
  <2>1. Offers(seen, desk.over.lane) /\ "over" \in DOMAIN desk
    BY DEF DeskInv, OverKnown
  <2>2. seen \in Nat /\ seen < row'.ver /\ row'.ver \in Nat
    BY <2>1, RevisedIsStale DEF Snapshot
  <2> QED BY <2>1, <2>2 DEF OverKnown, Offers
<1> QED BY <1>1, <1>2, RevisedIsStale

\* The row and the card stay, and so does the lane under the drag, or none is.
LEMMA DeskKeeps ==
  ASSUME DeskInv, UNCHANGED <<row, card>>, OverKnown',
         \A c \in taskCalls' : c \in taskCalls \/ CallKnown(c)
  PROVE  DeskInv'
BY DEF DeskInv, Snapshot, CallKnown, Offers

\* Neither lane nor row is touched.
LEMMA OverStays ==
  ASSUME DeskInv, UNCHANGED row, "over" \in DOMAIN desk', desk'.over \in {desk.over, NoLane}
  PROVE  OverKnown'
BY DEF DeskInv, OverKnown, Offers, Snapshot, NoLane

\* A call that is asked for is known.
LEMMA AskedKeeps ==
  ASSUME DeskInv, NEW c, CallKnown(c), Calls(c), UNCHANGED <<row, card>>, OverKnown'
  PROVE  DeskInv'
BY DeskKeeps DEF Calls

\* Claims and releases ask for no move; an update asks for one that was offered.
LEMMA CallsAreKnown ==
  ASSUME DeskInv
  PROVE  /\ \A who : CallKnown(TaskCall("claim", "in_progress", who, 0, 0))
         /\ CallKnown(TaskCall("unclaim", "todo", Me, card.ver, card.ver))
         /\ \A to, seen : Offers(seen, to) =>
              CallKnown(TaskCall("update", to, Me, card.ver, seen))
BY DEF TaskCall, CallKnown, DeskInv, Snapshot

\* A move asks for what was offered at the version seen.
LEMMA MovesKeep ==
  ASSUME DeskInv, NEW to, NEW seen, Offers(seen, to), Move(to, seen), UNCHANGED <<row, card>>,
         OverKnown'
  PROVE  DeskInv'
BY CallsAreKnown, AskedKeeps, DeskKeeps DEF Move, Claim, Update

\* An answer that was just read is a snapshot.
LEMMA AnswerKnown ==
  ASSUME Snapshot(row)
  PROVE  CallKnown(TaskAnswer(row))
BY DEF TaskAnswer, TaskCall, CallKnown, Snapshot

\* The core serves a call: the row is revised, or is as it was.
LEMMA ServedKeeps ==
  ASSUME DeskInv, NEW c \in taskCalls, TaskCallServed(c) PROVE DeskInv'
<1>1. row' = row \/ \E status \in Lanes : \E holder : Revise(status, holder)
  BY DEF TaskCallServed, Granted, Idempotent, CoreAllows, Lanes, DeskInv, Snapshot
<1>2. row'.ver # 0 /\ Snapshot(row)' /\ Snapshot(card)' /\ OverKnown'
      /\ \A d \in taskCalls : CallKnown(d)'
  <2>1. CASE row' = row
    BY <2>1, OverStays DEF TaskCallServed, DeskInv, Snapshot, CallKnown, OverKnown, Offers
  <2>2. ASSUME NEW status \in Lanes, NEW holder, Revise(status, holder)
        PROVE  /\ row'.ver # 0 /\ Snapshot(row)' /\ Snapshot(card)' /\ OverKnown'
               /\ \A d \in taskCalls : CallKnown(d)'
    BY <2>2, RevisedIsStale, RevisedKeeps DEF TaskCallServed
  <2> QED BY <1>1, <2>1, <2>2
<1>3. CallKnown(TaskAnswer(row))'
  BY <1>2 DEF TaskAnswer, TaskCall, CallKnown, Snapshot
<1>4. \A d \in taskCalls' : CallKnown(d)'
  BY <1>2, <1>3 DEF TaskCallServed, TaskAnswer, TaskCall
<1> QED BY <1>2, <1>4 DEF DeskInv

\* The lanes take the drag, or lose it.
LEMMA DragsKeep ==
  ASSUME DeskInv, UNCHANGED <<row, card, taskCalls>>,
         \/ DragStarts \/ DragLeaves \/ DragEnds \/ BoardMounts
         \/ \E lane \in Lanes : DragOver(lane)
  PROVE  DeskInv'
<1>1. "over" \in DOMAIN desk
  BY DEF DeskInv, OverKnown
<1>2. ASSUME NEW lane \in Lanes, DragOver(lane) PROVE OverKnown'
  <2>1. CASE LaneAccepts(lane)
    <3>1. desk'.over.seen = card.ver /\ desk'.over.lane = lane /\ "over" \in DOMAIN desk'
      BY <1>1, <1>2, <2>1 DEF DragOver
    <3>2. Offers(card.ver, lane)
      BY <2>1, ShownIsOffered DEF LaneAccepts
    <3> QED BY <3>1, <3>2 DEF OverKnown, Offers
  <2>2. CASE ~LaneAccepts(lane)
    <3>1. desk'.over = NoLane /\ "over" \in DOMAIN desk'
      BY <1>1, <1>2, <2>2 DEF DragOver
    <3> QED BY <3>1, OverStays
  <2> QED BY <2>1, <2>2
<1>3. ASSUME DragStarts \/ DragLeaves \/ DragEnds \/ BoardMounts PROVE OverKnown'
  <2>1. desk'.over \in {desk.over, NoLane} /\ "over" \in DOMAIN desk'
    BY <1>1, <1>3 DEF DragStarts, DragLeaves, DragEnds, BoardMounts
  <2> QED BY <2>1, OverStays
<1> QED BY <1>2, <1>3, DeskKeeps

\* A drop asks for the move the lane's last dragover was shown, or for none.
LEMMA DropKeeps ==
  ASSUME DeskInv, NEW lane \in Lanes, DropOn(lane) PROVE DeskInv'
<1>1. Offers(desk.over.seen, lane)
  BY DEF DropOn, DeskInv, OverKnown
<1>2. desk'.over = NoLane /\ "over" \in DOMAIN desk' /\ UNCHANGED <<row, card>>
  BY DEF DropOn, DeskInv, OverKnown
<1>3. OverKnown'
  BY <1>2, OverStays
<1>4. UNCHANGED taskCalls \/ Move(lane, desk.over.seen)
  BY DEF DropOn
<1> QED BY <1>1, <1>2, <1>3, <1>4, MovesKeep, DeskKeeps

\* DeskInv holds at first, and every step keeps it.
LEMMA DeskInductive ==
  /\ DeskInit => DeskInv
  /\ DeskInv /\ [DeskNext]_deskVars => DeskInv'
<1>1. DeskInit => DeskInv
  BY DEF DeskInit, DeskInv, Snapshot, OverKnown, Offers, NoLane
<1>2. ASSUME DeskInv, [DeskNext]_deskVars PROVE DeskInv'
  <2>1. CASE OthersMove
    <3>1. \E status \in Lanes : \E holder : Revise(status, holder)
      BY <1>2, <2>1 DEF OthersMove, DeskInv, Snapshot, Lanes
    <3> QED BY <1>2, <2>1, <3>1, RevisedKeeps, RevisedIsStale DEF OthersMove, DeskInv
  <2>2. CASE TasksChanged
    <3>1. OverKnown'
      BY <1>2, <2>2, OverStays DEF TasksChanged, DeskInv, OverKnown
    <3>2. CallKnown(TaskAnswer(row))
      BY <1>2, AnswerKnown DEF DeskInv
    <3> QED BY <1>2, <2>2, <3>1, <3>2, AskedKeeps DEF TasksChanged
  <2>3. ASSUME UNCHANGED <<row, card>>, taskCalls' \subseteq taskCalls,
               "over" \in DOMAIN desk', desk'.over = desk.over
        PROVE  DeskInv'
    BY <1>2, <2>3, OverStays, DeskKeeps
  <2>4. ASSUME NEW lane \in Lanes, PickStatus(lane) PROVE DeskInv'
    <3>1. Offers(card.ver, lane) /\ OverKnown'
      BY <1>2, <2>4, ShownIsOffered, OverStays DEF PickStatus, DeskInv, OverKnown
    <3> QED BY <1>2, <2>4, <3>1, MovesKeep DEF PickStatus
  <2>5. ASSUME NEW lane \in Lanes, DropOn(lane) PROVE DeskInv'
    BY <1>2, <2>5, DropKeeps
  <2>6. ASSUME NEW who \in {Me, Agent, Nobody}, PickAssignee(who) PROVE DeskInv'
    <3>1. OverKnown'
      BY <1>2, <2>6, OverStays DEF PickAssignee, DeskInv, OverKnown
    <3> QED BY <1>2, <2>6, <3>1, CallsAreKnown, AskedKeeps DEF PickAssignee, Claim, Unclaim
  <2>7. ASSUME NEW c \in taskCalls, TaskCallServed(c) PROVE DeskInv'
    BY <1>2, <2>7, ServedKeeps
  <2>8. ASSUME NEW c \in taskCalls, TaskCallAnswered(c) PROVE DeskInv'
    <3>1. Snapshot(c.got[1]) /\ OverKnown'
      BY <1>2, <2>8, OverStays DEF TaskCallAnswered, DeskInv, CallKnown, OverKnown
    <3> QED BY <1>2, <2>8, <3>1 DEF TaskCallAnswered, DeskInv, Snapshot, CallKnown, Offers
  <2>9. CASE \/ DragStarts \/ DragLeaves \/ DragEnds \/ BoardMounts
             \/ \E lane \in Lanes : DragOver(lane)
    BY <1>2, <2>9, DragsKeep DEF DragStarts, DragLeaves, DragEnds, BoardMounts, DragOver
  <2>10. CASE \/ Archived \/ Restored \/ ReadOnlyFollows \/ OpenDetail \/ CloseDetail
              \/ \E f \in Filters : PickFilter(f)
    <3>1. desk'.over = desk.over /\ "over" \in DOMAIN desk'
      BY <1>2, <2>10 DEF Archived, Restored, ReadOnlyFollows, OpenDetail, CloseDetail,
         PickFilter, DeskInv, OverKnown
    <3>2. UNCHANGED <<row, card, taskCalls>>
      BY <2>10 DEF Archived, Restored, ReadOnlyFollows, OpenDetail, CloseDetail, PickFilter
    <3> QED BY <2>3, <3>1, <3>2
  <2>11. CASE UNCHANGED deskVars \/ \E c \in taskCalls : TaskCallFails(c)
    BY <1>2, <2>3, <2>11 DEF deskVars, TaskCallFails, DeskInv, OverKnown
  <2> QED BY <1>2, <2>1, <2>2, <2>4, <2>5, <2>6, <2>7, <2>8, <2>9, <2>10, <2>11
          DEF DeskNext
<1> QED BY <1>1, <1>2

\* A move that somebody entitled to it asks for is refused only because the row changed
\* after the board had offered it.
THEOREM OnlyStaleMovesEverFail == DeskSpec => []OnlyStaleMovesFail
<1>1. DeskInv => OnlyStaleMovesFail
  BY DEF DeskInv, CallKnown, Offers, OnlyStaleMovesFail, Granted
<1> QED BY <1>1, DeskInductive, PTL DEF DeskSpec

-----------------------------------------------------------------------------
(* The list of Channels and its dialogs.                                   *)

Fields == {"kind", "room", "ver", "shown", "done", "got"}

\* At most one lifecycle call is under way, and a delete is that of the open
\* dialog; an edit is saved against the version it showed.
CatalogInv ==
  /\ \A call \in pending :
       /\ DOMAIN call = Fields
       /\ call.kind = "delete" => asking.room = call.room /\ call.room # NoRoom
       /\ call.kind = "update" => call.shown = call.ver
  /\ \A call, other \in pending :
       call.kind \in LifecycleKinds /\ other.kind \in LifecycleKinds => call = other
  /\ asking = [room |-> asking.room, acked |-> asking.acked]
  /\ asking.acked \in BOOLEAN
  /\ DeletesOnlyAcknowledged

\* The calls alone are disturbed, by one that is no lifecycle call.
LEMMA OtherCallsKeep ==
  ASSUME CatalogInv, NEW call, DOMAIN call = Fields, call.kind \notin LifecycleKinds,
         call.kind = "update" => call.shown = call.ver,
         pending' \subseteq pending \cup {call}, UNCHANGED <<asking, agreed>>
  PROVE  CatalogInv'
BY DEF CatalogInv, DeletesOnlyAcknowledged, LifecycleKinds

\* A call's fields.
LEMMA CallFields ==
  ASSUME NEW kind, NEW c, NEW ver, NEW seen
  PROVE  /\ DOMAIN Call(kind, c, ver, seen) = Fields
         /\ Call(kind, c, ver, seen).kind = kind /\ Call(kind, c, ver, seen).room = c
         /\ Call(kind, c, ver, seen).ver = ver /\ Call(kind, c, ver, seen).shown = seen
         /\ DOMAIN Reading(kind, ver) = Fields /\ Reading(kind, ver).kind = kind
BY DEF Call, Reading, Fields

\* Only the calls of a reload or a save are added, or some are dropped.
LEMMA DroppedKeeps ==
  ASSUME CatalogInv, pending' \subseteq pending, UNCHANGED <<asking, agreed>>
  PROVE  CatalogInv'
BY DEF CatalogInv, DeletesOnlyAcknowledged

\* A lifecycle call is asked for only while none is under way.
LEMMA LifecycleKeeps ==
  ASSUME CatalogInv, NEW kind \in LifecycleKinds, NEW c, Lifecycle(kind, c),
         kind = "delete" => asking.room = c /\ agreed = c /\ c # NoRoom,
         UNCHANGED <<asking, agreed>>
  PROVE  CatalogInv'
<1>1. CASE UNCHANGED pending
  BY <1>1, DroppedKeeps
<1>2. CASE ~Waiting(LifecycleKinds) /\ pending' = pending \cup {Call(kind, c, list[c].ver, list[c].ver)}
  <2> DEFINE new == Call(kind, c, list[c].ver, list[c].ver)
  <2>1. DOMAIN new = Fields /\ new.kind = kind /\ new.room = c
    BY CallFields
  <2> HIDE DEF new
  <2>2. \A call \in pending : call.kind \notin LifecycleKinds
    BY <1>2 DEF Waiting
  <2>3. "update" \notin LifecycleKinds /\ "delete" \in LifecycleKinds
    BY DEF LifecycleKinds
  <2> QED BY <1>2, <2>1, <2>2, <2>3 DEF CatalogInv, DeletesOnlyAcknowledged, new
<1> QED BY <1>1, <1>2 DEF Lifecycle, Issue

\* The core answers one call; its kind, its Channel and its version stay.
LEMMA CallServedKeeps ==
  ASSUME CatalogInv, NEW call \in pending, CallServed(call) PROVE CatalogInv'
<1> DEFINE new == [call EXCEPT !.done = TRUE, !.got = rows'[call.room]]
<1>1. /\ DOMAIN new = Fields /\ new.kind = call.kind /\ new.room = call.room
      /\ new.shown = call.shown /\ new.ver = call.ver
  BY DEF CatalogInv, Fields
<1>2. pending' = (pending \ {call}) \cup {new} /\ UNCHANGED <<asking, agreed>>
  BY DEF CallServed, dialogs
<1> HIDE DEF new
<1> QED BY <1>1, <1>2 DEF CatalogInv, DeletesOnlyAcknowledged

\* The client handles an answer; a delete that came through closes its dialog.
LEMMA CallAnsweredKeeps ==
  ASSUME CatalogInv, NEW call \in pending, CallAnswered(call) PROVE CatalogInv'
<1>1. pending' = pending \ {call} /\ agreed' = agreed
  BY DEF CallAnswered, Drop
<1>2. CASE call.kind = "delete"
  <2>1. asking' = NoAsk
    BY <1>2 DEF CallAnswered
  <2>2. \A other \in pending' : other.kind # "delete"
    BY <1>1, <1>2 DEF CatalogInv, LifecycleKinds
  <2> QED BY <1>1, <2>1, <2>2 DEF CatalogInv, DeletesOnlyAcknowledged, NoAsk
<1>3. CASE call.kind # "delete"
  <2>1. asking' = asking
    BY <1>3 DEF CallAnswered
  <2> QED BY <1>1, <2>1, DroppedKeeps
<1> QED BY <1>2, <1>3

\* CatalogInv holds at first, and every step keeps it.
LEMMA CatalogInductive ==
  /\ CatalogInit => CatalogInv
  /\ CatalogInv /\ [CatalogNext]_catalogVars => CatalogInv'
<1>1. CatalogInit => CatalogInv
  BY DEF CatalogInit, CatalogInv, DeletesOnlyAcknowledged, NoAsk
<1>2. ASSUME CatalogInv, [CatalogNext]_catalogVars PROVE CatalogInv'
  <2>1. ASSUME UNCHANGED <<pending, asking, agreed>> PROVE CatalogInv'
    BY <1>2, <2>1, DroppedKeeps
  <2>2. ASSUME NEW c \in Rooms, OthersChange(c) \/ SelectRoom(c) \/ EditOpens(c)
        PROVE  CatalogInv'
    BY <2>1, <2>2 DEF OthersChange, SelectRoom, EditOpens, dialogs
  <2>3. ASSUME NEW c \in Rooms, RestoreRoom(c) PROVE CatalogInv'
    BY <1>2, <2>3, LifecycleKeeps DEF RestoreRoom, dialogs, LifecycleKinds
  <2>4. ASSUME NEW c \in Rooms, AskDelete(c) PROVE CatalogInv'
    <3>1. asking.room = NoRoom /\ asking' = [room |-> c, acked |-> FALSE] /\ c \in Rooms
          /\ pending' = pending /\ agreed' = NoRoom
      BY <2>4 DEF AskDelete, NoDialog
    <3>2. \A call \in pending : call.kind # "delete"
      BY <1>2, <3>1 DEF CatalogInv
    <3> QED BY <1>2, <3>1, <3>2 DEF CatalogInv, DeletesOnlyAcknowledged
  <2>5. ASSUME NEW c \in Rooms, CreateSubmits(c) PROVE CatalogInv'
    <3>1. Call("create", c, 0, 0).kind \notin LifecycleKinds
      BY CallFields DEF LifecycleKinds
    <3> QED BY <1>2, <2>5, <3>1, CallFields, OtherCallsKeep DEF CreateSubmits, Issue, dialogs
  <2>6. ASSUME NEW select \in BOOLEAN, FrameArrives(select) PROVE CatalogInv'
    <3>1. PICK ver : Issue(Reading("reload", ver)) /\ UNCHANGED dialogs
      BY <2>6 DEF FrameArrives, dialogs
    <3>2. Reading("reload", ver).kind \notin LifecycleKinds
          /\ Reading("reload", ver).kind # "update"
      BY CallFields DEF LifecycleKinds
    <3> QED BY <1>2, <3>1, <3>2, CallFields, OtherCallsKeep DEF Issue, dialogs
  <2>7. ASSUME NEW call \in pending, CallServed(call) PROVE CatalogInv'
    BY <1>2, <2>7, CallServedKeeps
  <2>8. ASSUME NEW call \in pending, CallAnswered(call) PROVE CatalogInv'
    BY <1>2, <2>8, CallAnsweredKeeps
  <2>9. ASSUME NEW call \in pending,
               CallFails(call) \/ ReloadAnswered(call) \/ ResyncAnswered(call)
        PROVE  CatalogInv'
    BY <1>2, <2>9, DroppedKeeps DEF CallFails, ReloadAnswered, ResyncAnswered, Drop, dialogs
  <2>10. CASE NoticeEnds
    BY <2>1, <2>10 DEF NoticeEnds, dialogs
  <2>11. CASE ResyncStarts
    <3>1. Reading("resync", 0).kind \notin LifecycleKinds
          /\ Reading("resync", 0).kind # "update"
      BY CallFields DEF LifecycleKinds
    <3> QED BY <1>2, <2>11, <3>1, CallFields, OtherCallsKeep DEF ResyncStarts, dialogs
  <2>12. CASE EditSaves
    <3>1. Call("update", editing.room, editing.ver, editing.ver).kind \notin LifecycleKinds
      BY CallFields DEF LifecycleKinds
    <3> QED BY <1>2, <2>12, <3>1, CallFields, OtherCallsKeep DEF EditSaves, Issue, dialogs
  <2>13. CASE EditCloses
    BY <2>1, <2>13 DEF EditCloses
  <2>14. CASE ArchiveRoom
    BY <1>2, <2>14, LifecycleKeeps DEF ArchiveRoom, LifecycleKinds
  <2>15. CASE TickDelete \/ CancelDelete
    <3>1. \A call \in pending : call.kind # "delete"
      BY <2>15 DEF TickDelete, CancelDelete, Waiting, LifecycleKinds
    <3> QED BY <1>2, <2>15, <3>1
            DEF TickDelete, CancelDelete, CatalogInv, DeletesOnlyAcknowledged
  <2>16. CASE ConfirmDelete
    <3>1. asking.room = agreed
      BY <1>2, <2>16 DEF ConfirmDelete, CatalogInv, DeletesOnlyAcknowledged
    <3> QED BY <1>2, <2>16, <3>1, LifecycleKeeps DEF ConfirmDelete, dialogs, LifecycleKinds
  <2>17. CASE UNCHANGED catalogVars
    BY <2>1, <2>17 DEF catalogVars
  <2> QED BY <1>2, <2>2, <2>3, <2>4, <2>5, <2>6, <2>7, <2>8, <2>9, <2>10, <2>11, <2>12,
             <2>13, <2>14, <2>15, <2>16, <2>17 DEF CatalogNext
<1> QED BY <1>1, <1>2

\* No Channel is asked to be deleted but the one whose confirmation was ticked.
THEOREM OnlyAcknowledgedDeletes == CatalogSpec => []DeletesOnlyAcknowledged
<1>1. CatalogInv => DeletesOnlyAcknowledged
  BY DEF CatalogInv
<1> QED BY <1>1, CatalogInductive, PTL DEF CatalogSpec

\* A saved edit was served against the version its author saw.
THEOREM EditsNeverOverwrite == CatalogSpec => EditsOverwriteNothing
<1> DEFINE Seen == \A call \in pending :
             call.kind = "update" /\ ~call.done /\ call \notin pending' /\ rows' # rows =>
               call.shown = rows[call.room].ver
<1>1. ASSUME CatalogInv, [CatalogNext]_catalogVars PROVE [Seen]_catalogVars
  <2> SUFFICES ASSUME NEW call \in pending, call.kind = "update", call \notin pending',
                      rows' # rows
               PROVE  call.shown = rows[call.room].ver
    OBVIOUS
  <2>1. PICK served \in pending : CallServed(served)
    BY <1>1 DEF CatalogNext, catalogVars, OthersChange, SelectRoom, EditOpens, RestoreRoom,
                AskDelete, CreateSubmits, FrameArrives, CallAnswered, CallFails,
                ReloadAnswered, ResyncAnswered, NoticeEnds, ResyncStarts, EditSaves,
                EditCloses, ArchiveRoom, TickDelete, CancelDelete, ConfirmDelete
  <2>2. served = call
    BY <2>1 DEF CallServed
  <2>3. rows[call.room].ver = call.ver
    BY <2>1, <2>2 DEF CallServed, Accepts
  <2> QED BY <1>1, <2>3 DEF CatalogInv
<1> QED BY <1>1, CatalogInductive, PTL DEF CatalogSpec, EditsOverwriteNothing

\* The notice with the record it stands in.
NoticeInv == NoticeEndsByItself /\ {"open", "notice", "timer"} \subseteq DOMAIN view

\* Whatever raises the notice sets its timer, and what stops the timer takes the
\* notice down.
THEOREM NoticeAlwaysEnds == CatalogSpec => []NoticeEndsByItself
<1>1. CatalogInit => NoticeInv
  BY DEF CatalogInit, NoticeInv, NoticeEndsByItself
<1>2. NoticeInv /\ [CatalogNext]_catalogVars => NoticeInv'
  <2> SUFFICES ASSUME NoticeInv, [CatalogNext]_catalogVars
               PROVE  NoticeInv'
    OBVIOUS
  <2> USE DEF NoticeInv, NoticeEndsByItself
  <2>1. CASE view' = view
    BY <2>1
  <2>2. ASSUME NEW c \in Rooms, SelectRoom(c) PROVE NoticeInv'
    BY <2>2 DEF SelectRoom, OpenRoom
  <2>3. ASSUME NEW call \in pending, ReloadAnswered(call) PROVE NoticeInv'
    <3>1. CASE view' = [view EXCEPT !.notice = TRUE,
                                    !.timer = IF call.ver = 1 THEN "select" ELSE "plain"]
      BY <3>1
    <3> QED BY <2>1, <2>3, <3>1 DEF ReloadAnswered
  <2>4. ASSUME NEW call \in pending, ResyncAnswered(call) PROVE NoticeInv'
    <3>1. PICK c : view' = [view EXCEPT !.open = c, !.notice = FALSE]
      BY <2>4 DEF ResyncAnswered
    <3> QED BY <3>1
  <2>5. ASSUME NEW call \in pending, CallAnswered(call) PROVE NoticeInv'
    <3>1. \/ view' = view \/ view' = OpenRoom(call.room)
          \/ \E c : view' = [view EXCEPT !.open = c, !.notice = FALSE]
      BY <2>5 DEF CallAnswered
    <3>2. CASE view' = OpenRoom(call.room)
      BY <3>2 DEF OpenRoom
    <3>3. ASSUME NEW c, view' = [view EXCEPT !.open = c, !.notice = FALSE] PROVE NoticeInv'
      BY <3>3
    <3> QED BY <2>1, <3>1, <3>2, <3>3
  <2>6. CASE NoticeEnds
    BY <2>6 DEF NoticeEnds
  <2>7. \/ view' = view \/ NoticeEnds \/ \E c \in Rooms : SelectRoom(c)
        \/ \E call \in pending : \/ ReloadAnswered(call) \/ ResyncAnswered(call)
                                 \/ CallAnswered(call)
    BY DEF CatalogNext, catalogVars, dialogs, OthersChange, EditOpens, RestoreRoom,
           AskDelete, CreateSubmits, FrameArrives, CallServed, CallFails, ResyncStarts,
           EditSaves, EditCloses, ArchiveRoom, TickDelete, CancelDelete, ConfirmDelete
  <2> QED BY <2>1, <2>2, <2>3, <2>4, <2>5, <2>6, <2>7
<1>3. NoticeInv => NoticeEndsByItself
  BY DEF NoticeInv
<1> QED BY <1>1, <1>2, <1>3, PTL DEF CatalogSpec

-----------------------------------------------------------------------------
(* All surfaces together.                                                  *)

besideVars == <<surface, shellVars, composerVars, catalogVars, activityVars,
                surfaceVars, deskVars, settingsVars, wireVars>>

\* One surface moves and the others rest.
LEMMA EachSurfaceSteps ==
  ASSUME [SurfacesNext]_besideVars
  PROVE  /\ [ShellNext]_shellVars /\ [ComposerNext]_composerVars
         /\ [CatalogNext]_catalogVars /\ [ActivityNext]_activityVars
         /\ [SurfaceNext]_surfaceVars /\ [DeskNext]_deskVars
         /\ [SettingsNext]_settingsVars /\ [WireNext]_wireVars
<1>1. [ShellNext]_shellVars
  BY DEF SurfacesNext, besideVars
<1>2. [ComposerNext]_composerVars
  BY DEF SurfacesNext, besideVars
<1>3. [CatalogNext]_catalogVars
  BY DEF SurfacesNext, besideVars
<1>4. [ActivityNext]_activityVars
  BY DEF SurfacesNext, besideVars
<1>5. [SurfaceNext]_surfaceVars
  BY DEF SurfacesNext, besideVars
<1>6. [DeskNext]_deskVars
  BY DEF SurfacesNext, besideVars
<1>7. [SettingsNext]_settingsVars
  BY DEF SurfacesNext, besideVars
<1>8. [WireNext]_wireVars
  BY DEF SurfacesNext, besideVars
<1> QED BY <1>1, <1>2, <1>3, <1>4, <1>5, <1>6, <1>7, <1>8

\* Side by side the surfaces behave as each alone (CollabPanel mounts them with no state
\* in common but the store's): what is proved of each holds where the run explores all.
THEOREM SurfacesStandAlone ==
  SurfacesSpec => /\ ShellSpec /\ ComposerSpec /\ CatalogSpec /\ ActivitySpec
                  /\ SurfaceSpec /\ DeskSpec /\ SettingsSpec /\ WireSpec
<1>1. SurfacesInit => /\ ShellInit /\ ComposerInit /\ CatalogInit /\ ActivityInit
                      /\ SurfaceInit /\ DeskInit /\ SettingsInit /\ WireInit
  BY DEF SurfacesInit
<1>2. SurfacesSpec => SurfacesInit /\ [][SurfacesNext]_besideVars
  BY DEF SurfacesSpec, besideVars
<1>3. [SurfacesNext]_besideVars =>
        /\ [ShellNext]_shellVars /\ [ComposerNext]_composerVars
        /\ [CatalogNext]_catalogVars /\ [ActivityNext]_activityVars
        /\ [SurfaceNext]_surfaceVars /\ [DeskNext]_deskVars
        /\ [SettingsNext]_settingsVars /\ [WireNext]_wireVars
  BY EachSurfaceSteps
<1> QED BY <1>1, <1>2, <1>3, PTL DEF ShellSpec, ComposerSpec, CatalogSpec,
        ActivitySpec, SurfaceSpec, DeskSpec, SettingsSpec, WireSpec
=============================================================================
