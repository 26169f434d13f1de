---------------------------- MODULE ClientStore -----------------------------
(***************************************************************************)
(* The browser store (src/client/data/store.ts): what one tab shows of its *)
(* Channels, kept up to date by the change feed and by history reads whose *)
(* answers come back late, in any order or not at all.                     *)
(*                                                                         *)
(* The tab is one event loop: code between two awaits is one step.  A call *)
(* to the host is issued, served and answered in three steps; the stream   *)
(* of frames is another connection, so it is not ordered with the answers. *)
(*                                                                         *)
(* Message n is the n-th Message committed.  A frame stands for one        *)
(* message_created change, and what the feed promises of the frames is     *)
(* ChangeReplay.  Threads, whose lists the same handlers keep but whose    *)
(* totals no reload reads, are left out; so are bodies, rosters, Tasks,    *)
(* thread summaries, the Activity list (each replaced whole by a reread),  *)
(* spinners and error texts, and the catalog of Channels, which is fixed.  *)
(***************************************************************************)
EXTENDS Integers, FiniteSets, Sequences

CONSTANTS
  Channels,    \* the viewer's
  NoChannel,   \* no active Channel
  Slots,       \* bound: calls in flight at once
  Tab,         \* this tab, as ChangeReplay names it
  TailPage,    \* INITIAL_TAIL
  HeadPage,    \* HEAD_CHUNK
  Old,         \* Messages one Channel holds when the tab is opened
  MaxPosts,    \* bound: Messages ever committed
  MaxFaults    \* bound: times the feed or the answer of a call is lost

ASSUME NoChannelAssumption == NoChannel \notin Channels
ASSUME PagesAssumption == TailPage \in Nat \ {0} /\ HeadPage \in Nat \ {0}
ASSUME BoundsAssumption == Old \in 0..MaxPosts /\ MaxPosts \in Nat /\ MaxFaults \in Nat

VARIABLES
  posts,         \* the host's Messages: the Channel of each, in order
  at,            \* the last frame handled, or the cursor connected from; Old before
  mode,          \* connection, and whether the tab was started
  step,          \* the await a bootstrap or a resync stands at
  cursor,        \* its snapshot.cursor
  waiting,       \* Channels whose total it has still to read
  seeded,        \* Channels whose total it has read
  totals,        \* those totals
  calls,         \* calls in flight
  active,        \* activeChannelId
  loaded,        \* keys of messagesByChannel
  shown,         \* messagesByChannel
  known,         \* keys of totalByChannel
  total,         \* totalByChannel
  headCursor,    \* headCursorByChannel
  headDone,      \* Channels with headDoneByChannel true
  olderLoading,
  marker,        \* the read markers in localStorage
  unread,        \* unreadByChannel
  owed,          \* not code: Channels with a Message that no read may have seen
  faults

host == posts
load == <<step, cursor, waiting, seeded, totals>>
view == <<loaded, shown, headCursor, headDone>>
counts == <<known, total, marker, unread>>
vars == <<host, at, mode, load, calls, active, view, counts, olderLoading,
          owed, faults>>

Posts == 1..MaxPosts

(* --- What the host answers ---------------------------------------------- *)

In(c) == {n \in 1..Len(posts) : posts[n] = c}
FirstOf(S, k) == {n \in S : Cardinality({m \in S : m <= n}) <= k}
LastOf(S, k) == {n \in S : Cardinality({m \in S : m >= n}) <= k}

PageAfter(c, seq) == FirstOf({n \in In(c) : n > seq}, HeadPage)
TailOf(c) == LastOf(In(c), TailPage)

(* --- Calls -------------------------------------------------------------- *)

\* "sync" is the tail read a resync awaits.  A send remembers its Message, and
\* whether the answer at hand is that of a retry.
Kinds == {"tail", "sync", "frame", "older", "send"}
Call == [kind : Kinds, ch : Channels, after : 0..MaxPosts,
         served : BOOLEAN, page : SUBSET Posts, count : 0..MaxPosts,
         replayed : BOOLEAN]
Idle == [kind |-> "none"]

NewCall(kind, c, seq) ==
  [kind |-> kind, ch |-> c, after |-> seq, served |-> FALSE, page |-> {}, count |-> 0,
   replayed |-> FALSE]

Free(s) == calls[s].kind = "none"
InFlight == {s \in Slots : ~Free(s)}

\* Mutant: a resync does not start a generation.
SameGeneration == UNCHANGED calls

\* loadGeneration += 1: the answers of earlier calls do nothing when they come (not
\* even clear olderLoading), so they are forgotten here.  Those of sends count: the
\* generation is read only after their await.
NextGeneration ==
  calls' = [s \in Slots |-> IF calls[s].kind = "send" THEN calls[s] ELSE Idle]

\* The list of c is being read for the first time.
Opening(c) == \E s \in InFlight :
  calls[s].kind \in {"tail", "frame"} /\ calls[s].ch = c

Fault == faults < MaxFaults /\ faults' = faults + 1

(* --- Projections -------------------------------------------------------- *)

MaxSeq(S) == IF S = {} THEN 0 ELSE CHOOSE n \in S : \A m \in S : m <= n
Appended(old, new) == Cardinality({n \in new : n > MaxSeq(old)})
Badge(count, mark) == IF count > mark THEN count - mark ELSE 0

\* markRead, with the total that stands after the step.
MarkRead(c) ==
  /\ marker' = [marker EXCEPT ![c] = total'[c]]
  /\ unread' = [unread EXCEPT ![c] = 0]
KeepMarks == UNCHANGED <<marker, unread>>

\* Mutant: an answer replaces the tail of the list.
MergeOverTail(c, page) ==
  /\ loaded' = loaded \cup {c}
  /\ shown' = [shown EXCEPT ![c] = {n \in @ : n <= MaxSeq(page)} \cup page]

\* mergeMessages into the list of c as it stands now.
Merge(c, page) ==
  /\ loaded' = loaded \cup {c}
  /\ shown' = [shown EXCEPT ![c] = @ \cup page]

SetHeadDone(c, done) == headDone' = IF done THEN headDone \cup {c} ELSE headDone \ {c}

\* New Messages at the end of the list count into the total; none leaves it alone.
CountAppended(c, appended) ==
  IF appended > 0
  THEN /\ known' = known \cup {c}
       /\ total' = [total EXCEPT ![c] = @ + appended]
       /\ SetHeadDone(c, Cardinality(shown'[c]) >= total'[c])
  ELSE UNCHANGED <<known, total, headDone>>

TypeOK ==
  /\ posts \in Seq(Channels) /\ Len(posts) <= MaxPosts
  /\ at \in 0..Len(posts) /\ cursor \in 0..Len(posts)
  /\ mode \in {"closed", "opening", "live", "resyncing", "down"}
  /\ step \in {"none", "snapshot", "seed", "tail"}
  /\ waiting \subseteq Channels /\ seeded \subseteq Channels
  /\ totals \in [Channels -> 0..MaxPosts]
  /\ calls \in [Slots -> Call \cup {Idle}]
  /\ active \in Channels \cup {NoChannel}
  /\ loaded \subseteq Channels /\ shown \in [Channels -> SUBSET Posts]
  /\ known \subseteq Channels /\ total \in [Channels -> Nat]
  /\ headCursor \in [Channels -> 0..MaxPosts] /\ headDone \subseteq Channels
  /\ olderLoading \in BOOLEAN
  /\ marker \in [Channels -> Nat] /\ unread \in [Channels -> Nat]
  /\ owed \subseteq Channels
  /\ faults \in 0..MaxFaults

Init ==
  /\ \E c \in Channels : posts = [n \in 1..Old |-> c]
  /\ at = Old
  /\ mode = "closed" /\ step = "none" /\ cursor = 0
  /\ waiting = {} /\ seeded = {} /\ totals = [c \in Channels |-> 0]
  /\ calls = [s \in Slots |-> Idle]
  /\ active = NoChannel
  /\ loaded = {} /\ shown = [c \in Channels |-> {}]
  /\ headCursor = [c \in Channels |-> 0] /\ headDone = {}
  /\ known = {} /\ total = [c \in Channels |-> 0]
  /\ marker = [c \in Channels |-> 0] /\ unread = [c \in Channels |-> 0]
  /\ olderLoading = FALSE
  /\ owed = {}
  /\ faults = 0

Issue(kind, c, seq) ==
  \E s \in Slots : Free(s) /\ calls' = [calls EXCEPT ![s] = NewCall(kind, c, seq)]

Return(s) == calls' = [calls EXCEPT ![s] = Idle]

(* --- The host ----------------------------------------------------------- *)

\* Somebody else's Message.
OthersPost(c) ==
  /\ Len(posts) < MaxPosts
  /\ posts' = Append(posts, c)
  /\ UNCHANGED <<at, mode, load, calls, active, view, counts, olderLoading,
                 owed, faults>>

\* A send commits at most once: a retry has the same request id.
ServeSend(s) ==
  /\ calls[s].kind = "send" /\ ~calls[s].served
  /\ IF calls[s].page = {}
     THEN /\ Len(posts) < MaxPosts
          /\ posts' = Append(posts, calls[s].ch)
          /\ calls' = [calls EXCEPT ![s].served = TRUE, ![s].page = {Len(posts) + 1}]
     ELSE /\ calls' = [calls EXCEPT ![s].served = TRUE, ![s].replayed = TRUE]
          /\ UNCHANGED posts
  /\ UNCHANGED <<at, mode, load, active, view, counts, olderLoading,
                 owed, faults>>

\* history or historyTail, one snapshot of the host's Messages each.
ServeRead(s) ==
  LET call == calls[s] c == call.ch IN
  /\ ~Free(s) /\ ~call.served
  /\ \/ /\ call.kind \in {"tail", "sync"}
        /\ calls' = [calls EXCEPT ![s].served = TRUE, ![s].page = TailOf(c),
                                 ![s].count = Cardinality(In(c))]
     \/ /\ call.kind \in {"frame", "older"}
        /\ calls' = [calls EXCEPT ![s].served = TRUE,
                                 ![s].page = PageAfter(c, call.after)]
  /\ UNCHANGED <<host, at, mode, load, active, view, counts, olderLoading,
                 owed, faults>>

(* --- Bootstrap and resync ----------------------------------------------- *)

NoTotals == waiting' = {} /\ seeded' = {} /\ totals' = [c \in Channels |-> 0]
EndOfLoad == step' = "none" /\ cursor' = 0 /\ NoTotals

\* start(), and again after a failed bootstrap.
Start ==
  /\ mode = "closed"
  /\ mode' = "opening" /\ step' = "snapshot"
  /\ NextGeneration
  /\ UNCHANGED <<host, at, cursor, waiting, seeded, totals, active, view, counts,
                 olderLoading, owed, faults>>

\* The cursor fell out of the retention window; the socket is closed.
ResyncRequired ==
  /\ mode = "live" /\ Fault
  /\ mode' = "resyncing" /\ step' = "snapshot"
  /\ NextGeneration
  /\ UNCHANGED <<host, at, cursor, waiting, seeded, totals, active, view, counts,
                 olderLoading, owed>>

ReadSnapshot ==
  /\ step = "snapshot"
  /\ step' = "seed"
  /\ cursor' = Len(posts)
  /\ waiting' = Channels
  /\ UNCHANGED <<host, at, mode, seeded, totals, calls, active, view, counts,
                 olderLoading, owed, faults>>

\* seedTotals: a read that fails leaves the total unknown.
SeedTotal(c) ==
  /\ step = "seed" /\ c \in waiting
  /\ waiting' = waiting \ {c}
  /\ \/ /\ seeded' = seeded \cup {c}
        /\ totals' = [totals EXCEPT ![c] = Cardinality(In(c))]
        /\ UNCHANGED faults
     \/ Fault /\ UNCHANGED <<seeded, totals>>
  /\ UNCHANGED <<host, at, mode, step, cursor, calls, active, view, counts,
                 olderLoading, owed>>

\* The end of bootstrap: connected from the snapshot's cursor, then the first
\* Channel is activated.
Bootstrapped ==
  /\ mode = "opening" /\ step = "seed" /\ waiting = {}
  /\ mode' = "live" /\ at' = cursor
  /\ known' = seeded /\ total' = totals
  /\ unread' = [c \in Channels |-> Badge(totals[c], marker[c])]
  /\ \E c \in Channels : active' = c /\ Issue("tail", c, 0)
  /\ EndOfLoad
  /\ UNCHANGED <<host, view, marker, olderLoading, owed, faults>>

\* resync: everything merged so far is dropped, and the active Channel is read
\* again before the feed is followed.
Replaced ==
  /\ mode = "resyncing" /\ step = "seed" /\ waiting = {}
  /\ step' = "tail"
  /\ loaded' = {} /\ shown' = [c \in Channels |-> {}]
  /\ headCursor' = [c \in Channels |-> 0] /\ headDone' = {}
  /\ known' = seeded /\ total' = totals
  /\ owed' = {c \in Channels : Opening(c)}
  /\ Issue("sync", active, 0)
  /\ NoTotals
  /\ UNCHANGED <<host, at, mode, cursor, active, marker, unread, olderLoading, faults>>

\* Mutant: the feed is followed from its end, not from the snapshot.
ResyncedAtEnd ==
  /\ step = "tail" /\ \A s \in Slots : calls[s].kind # "sync"
  /\ mode' = "live" /\ at' = Len(posts)
  /\ unread' = [c \in Channels |-> Badge(total[c], marker[c])]
  /\ EndOfLoad
  /\ UNCHANGED <<host, calls, active, view, known, total, marker, olderLoading, owed,
                 faults>>

\* The rest of resync, once the active Channel was read or could not be.
Resynced ==
  /\ step = "tail" /\ \A s \in Slots : calls[s].kind # "sync"
  /\ mode' = "live" /\ at' = cursor
  /\ unread' = [c \in Channels |-> Badge(total[c], marker[c])]
  /\ EndOfLoad
  /\ UNCHANGED <<host, calls, active, view, known, total, marker, olderLoading, owed,
                 faults>>

\* A failed bootstrap may be started again; a failed resync stays down.
LoadFails ==
  /\ step \in {"snapshot", "seed"} /\ Fault
  /\ mode' = IF mode = "opening" THEN "closed" ELSE "down"
  /\ EndOfLoad
  /\ UNCHANGED <<host, at, calls, active, view, counts, olderLoading, owed>>

(* --- Frames ------------------------------------------------------------- *)

\* Mutant: a resync leaves the socket open.
SocketStaysOpen == mode \in {"live", "resyncing"}

\* The EventSource is connected; resync_required disconnects it.
Connected == mode = "live"

\* A reread of c from where its list ends returns its newest Message.
Reaches(c) ==
  c \in loaded /\ Cardinality({n \in In(c) : n > MaxSeq(shown[c])}) <= HeadPage

\* handleMessageCreated for the next frame: reread an open list, count for another,
\* even while that one is being opened.
Frame ==
  /\ Connected /\ at < Len(posts)
  /\ at' = at + 1
  /\ LET c == posts[at + 1] IN
     \/ /\ c = active \/ c \in loaded
        /\ Issue("frame", c, MaxSeq(shown[c]))
        /\ owed' = IF Reaches(c) THEN owed \ {c} ELSE owed \cup {c}
        /\ UNCHANGED counts
     \/ /\ c # active /\ c \notin loaded
        /\ total' = IF c \in known THEN [total EXCEPT ![c] = @ + 1] ELSE total
        /\ unread' = [unread EXCEPT ![c] =
             IF c \in known THEN Badge(total'[c], marker[c]) ELSE 0]
        /\ owed' = IF Opening(c) THEN owed \cup {c} ELSE owed
        /\ UNCHANGED <<calls, known, marker>>
  /\ UNCHANGED <<host, mode, load, active, view, olderLoading, faults>>

(* --- The user ----------------------------------------------------------- *)

Usable == mode \in {"live", "resyncing", "down"}

\* setActiveChannel: a list already there is not read again.
SetActive(c) ==
  /\ Usable /\ active # c
  /\ active' = c
  /\ IF c \in loaded THEN UNCHANGED calls ELSE Issue("tail", c, 0)
  /\ UNCHANGED <<host, at, mode, load, view, counts, olderLoading, owed,
                 faults>>

\* hydrateTarget: the Activity page previews a Channel it does not activate.
Hydrate(c) ==
  /\ Usable /\ c \notin loaded
  /\ Issue("tail", c, 0)
  /\ UNCHANGED <<host, at, mode, load, active, view, counts, olderLoading,
                 owed, faults>>

\* loadOlder.  Any stream on the page that is shorter than its own total asks for it,
\* a Thread's or that of a Channel the Activity page shows as well, and what is paged
\* is the active Channel, read or not.  No stream is there during a resync.
LoadOlder ==
  /\ mode \in {"live", "down"} /\ active # NoChannel
  /\ ~olderLoading /\ active \notin headDone
  /\ olderLoading' = TRUE
  /\ Issue("older", active, headCursor[active])
  /\ UNCHANGED <<host, at, mode, load, active, view, counts, owed, faults>>

\* sendMessage, from the composer of an open list.
Send(c) ==
  /\ Usable /\ (c = active \/ c \in loaded)
  /\ Issue("send", c, 0)
  /\ UNCHANGED <<host, at, mode, load, active, view, counts, olderLoading,
                 owed, faults>>

(* --- Answers ------------------------------------------------------------ *)

Answered(s, kinds) ==
  /\ calls[s].kind \in kinds /\ calls[s].served
  /\ Return(s)

\* activateChannel: the total is the host's; the active Channel is read.
ApplyTail(s) ==
  LET call == calls[s] c == call.ch IN
  /\ Answered(s, {"tail", "sync"})
  /\ Merge(c, call.page)
  /\ known' = known \cup {c}
  /\ total' = [total EXCEPT ![c] = call.count]
  /\ SetHeadDone(c, Cardinality(shown'[c]) >= call.count)
  /\ IF active = c THEN MarkRead(c) ELSE KeepMarks
  /\ UNCHANGED <<host, at, mode, load, active, headCursor, olderLoading, owed,
                 faults>>

\* handleMessageCreated after its read.
ApplyFrame(s) ==
  LET call == calls[s] c == call.ch IN
  /\ Answered(s, {"frame"})
  /\ Merge(c, call.page)
  /\ CountAppended(c, Appended(shown[c], call.page))
  /\ MarkRead(c)
  /\ UNCHANGED <<host, at, mode, load, active, headCursor, olderLoading, owed, faults>>

\* A page may also make the list, which then begins at the head.
ApplyOlder(s) ==
  LET call == calls[s] c == call.ch IN
  /\ Answered(s, {"older"})
  /\ Merge(c, call.page)
  /\ headCursor' = [headCursor EXCEPT ![c] = IF call.page = {} THEN call.after
                                             ELSE MaxSeq(call.page)]
  /\ SetHeadDone(c, call.page = {} \/ Cardinality(shown'[c]) >= total[c])
  /\ olderLoading' = FALSE
  /\ owed' = IF c \in loaded THEN owed ELSE owed \cup {c}
  /\ UNCHANGED <<host, at, mode, load, active, counts, faults>>

\* The result of a send goes to the end of the list at once.
ApplySend(s) ==
  LET call == calls[s] c == call.ch IN
  /\ Answered(s, {"send"})
  /\ IF c \in loaded
     THEN Merge(c, call.page) /\ CountAppended(c, Appended(shown[c], call.page))
     ELSE /\ known' = IF call.replayed THEN known ELSE known \cup {c}
          /\ total' = IF call.replayed THEN total ELSE [total EXCEPT ![c] = @ + 1]
          /\ UNCHANGED <<loaded, shown, headDone>>
  /\ IF active = c THEN MarkRead(c) ELSE KeepMarks
  /\ UNCHANGED <<host, at, mode, load, active, headCursor, olderLoading, owed,
                 faults>>

\* A read that fails is forgotten; only loadOlder has a flag to clear.
ReadFails(s) ==
  LET call == calls[s] IN
  /\ call.kind \in {"tail", "sync", "frame", "older"}
  /\ Return(s) /\ Fault
  /\ olderLoading' = IF call.kind = "older" THEN FALSE ELSE olderLoading
  /\ owed' = IF call.kind = "frame" THEN owed \cup {call.ch}
                    ELSE owed
  /\ UNCHANGED <<host, at, mode, load, active, view, counts>>

\* The answer of a send is lost: the user gives up, or retries the attempt.
SendFails(s) ==
  /\ calls[s].kind = "send" /\ Fault
  /\ Return(s) \/ (calls[s].served /\ calls' = [calls EXCEPT ![s].served = FALSE])
  /\ UNCHANGED <<host, at, mode, load, active, view, counts, olderLoading, owed>>

Next ==
  \/ Start \/ ResyncRequired \/ ReadSnapshot \/ Bootstrapped \/ Replaced \/ Resynced
  \/ LoadFails \/ Frame \/ LoadOlder
  \/ \E c \in Channels :
       OthersPost(c) \/ SeedTotal(c) \/ SetActive(c) \/ Hydrate(c) \/ Send(c)
  \/ \E s \in Slots :
       \/ ServeSend(s) \/ ServeRead(s) \/ ApplyTail(s) \/ ApplyFrame(s)
       \/ ApplyOlder(s) \/ ApplySend(s) \/ ReadFails(s) \/ SendFails(s)

Spec == Init /\ [][Next]_vars

(* --- What must hold ----------------------------------------------------- *)

\* Nothing is under way: every frame is handled and every call is answered.
Quiet == mode = "live" /\ at = Len(posts) /\ InFlight = {}

\* Once nothing is under way, an open list ends with the newest Message of its
\* Channel, whatever order frames, tails, reloads and own sends came in
\* (handleMessageCreated, activateChannel, resync).  Set apart are the cases in
\* which only the next frame brings it: a frame whose reread failed or began
\* more than a page behind, one that came while its list was being opened, a
\* list that a resync found being opened, and one that a page from the head made.
NewestShown ==
  Quiet => \A c \in loaded \ owed : In(c) # {} => MaxSeq(In(c)) \in shown[c]

\* Below headCursor a list has no holes, so that paging from there on makes it
\* whole: answers of before a resync never move it (loadOlder).
HeadIsWhole ==
  \A c \in Channels : \A n \in In(c) : n <= headCursor[c] => n \in shown[c]

\* A Message once shown stays until a resync replaces everything: a late answer
\* never overwrites what came meanwhile (mergeMessages at its call sites).
NothingForgotten ==
  [][Replaced \/ \A c \in Channels : shown[c] \subseteq shown'[c]]_vars

\* The tab follows the feed the way the feed promises to be followed: frames
\* one by one, and a reload never goes back (connect in bootstrap and resync).
ToldOf == [t \in {Tab} |-> at - Old]
Following == IF mode = "live" THEN {Tab} ELSE {}
Feed == INSTANCE ChangeReplay WITH
  Tabs <- {Tab}, last <- Len(posts) - Old, mine <- 1..Len(posts) - Old,
  at <- ToldOf, following <- Following
FollowsFeed == Feed!Spec

(* --- What the comments say ---------------------------------------------- *)

\* store.ts:57 of headDoneByChannel: "True once the merged list covers the whole
\* channel history."  It is taken at its word when nothing is under way.
HeadDoneIsWhole == Quiet => \A c \in headDone : In(c) \subseteq shown[c]
=============================================================================
