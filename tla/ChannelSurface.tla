---------------------------- MODULE ChannelSurface ----------------------------
(***************************************************************************)
(* What ChannelView.tsx keeps for one open Channel: its tab, the Thread    *)
(* beside the stream, the one-shot jump to a row that MessageStream.tsx    *)
(* carries out by paging, and CollabPanel's pending Thread root.           *)
(*                                                                         *)
(* The view is the panel's main one, which shows the store's active        *)
(* Channel, or stands beside the Activity list, where any Channel is shown *)
(* while another, or none, is active.  A stream asks for more by its own   *)
(* list and total; the store pages the active Channel, by its headDone.    *)
(*                                                                         *)
(* A render follows every change of state, and its effects run before the  *)
(* next event is handled: due says which have not run yet.  The callbacks  *)
(* they depend on are new at every render, so each runs after every one.   *)
(***************************************************************************)
EXTENDS Integers, FiniteSets

CONSTANTS
  StreamRows, NoRow,   \* the Messages of the Channel
  Roots                \* those whose Threads are opened

ASSUME RootsAssumption == Roots \subseteq StreamRows /\ NoRow \notin StreamRows

VARIABLES
  place,       \* tab, threadRootId, jumpMessageId
  refs,        \* jumpHandledRef, threadOpeningRef
  due,         \* effects to run
  pendingRoot, \* CollabPanel's pendingThreadRoot
  mount,       \* beside Activity; the Channel is the active one; if not, whether the
               \* active one has nothing left to page
  stream,      \* the store: the Channel's list, whether its total is larger, its
               \* headDone; olderLoading, whether it resyncs
  threads,     \* the store: Threads listed, and those whose list is loaded
  paging       \* loadOlder and openThread calls in flight

surfaceVars == <<place, refs, due, pendingRoot, mount, stream, threads, paging>>

Effects == {"jump", "consume", "thread"}

\* The Channel has no list.
Unloaded(older, resyncing) ==
  [loaded |-> FALSE, held |-> {}, more |-> FALSE, done |-> FALSE,
   older |-> older, resyncing |-> resyncing]

InMain == [docked |-> FALSE, active |-> TRUE, restDone |-> FALSE]

\* Beside Activity.
Docked == {m \in [docked : {TRUE}, active : BOOLEAN, restDone : BOOLEAN] :
             m.active => ~m.restDone}

Mounted0(root) ==
  /\ place' = [tab |-> "messages", thread |-> root, jump |-> NoRow]
  /\ refs' = [handled |-> NoRow, opening |-> NoRow]

SurfaceInit ==
  /\ place = [tab |-> "messages", thread |-> NoRow, jump |-> NoRow]
  /\ refs = [handled |-> NoRow, opening |-> NoRow]
  /\ due = Effects /\ pendingRoot = NoRow
  /\ mount = InMain
  /\ stream = Unloaded(FALSE, FALSE)
  /\ threads \in [listed : SUBSET Roots, loaded : {{}}]
  /\ paging = [older |-> "none", roots |-> {}]

Rendered == due' = Effects

\* hasMoreToLoad: the list is shorter than the total of the Channel shown.
HasMore == stream.loaded /\ stream.more

\* headDone of the active Channel: there is nothing left to load, as far as the store
\* knows.
HeadDone == IF mount.active THEN stream.done ELSE mount.restDone

\* loadOlder goes on.
CanPage == ~stream.older /\ ~HeadDone

\* Nothing to run; on the board there is no stream to jump in.
Settled == due \subseteq IF place.tab = "tasks" THEN {"jump"} ELSE {}

(* --- The effects: a child's before its parent's, and those in their order --- *)

Turn(e) == due \subseteq (IF place.tab = "tasks" THEN {"jump"} ELSE {})
                       \cup (IF e = "consume" THEN {"consume", "thread"} ELSE {"thread"})

\* A pending root that the mount did not take as its initial Thread; none comes here
\* from Activity.
ConsumeEffect ==
  /\ "consume" \in due /\ Turn("consume")
  /\ IF mount.docked \/ pendingRoot = NoRow \/ place.thread = pendingRoot
     THEN due' = due \ {"consume"} /\ UNCHANGED <<place, pendingRoot>>
     ELSE /\ place' = [place EXCEPT !.thread = pendingRoot, !.jump = pendingRoot]
          /\ pendingRoot' = NoRow /\ Rendered
  /\ UNCHANGED <<refs, mount, stream, threads, paging>>

\* openThread, once for a root until it fails or another root is opened.
ThreadEffect ==
  /\ "thread" \in due /\ Turn("thread") /\ due' = due \ {"thread"}
  /\ IF \/ place.thread = NoRow \/ refs.opening = place.thread
        \/ place.thread \in threads.listed \cap threads.loaded
     THEN UNCHANGED <<refs, paging>>
     ELSE /\ refs' = [refs EXCEPT !.opening = place.thread]
          /\ paging' = [paging EXCEPT !.roots = @ \cup {place.thread}]
  /\ UNCHANGED <<place, pendingRoot, mount, stream, threads>>

\* loadOlder, of the active Channel; where it returns early nothing is set, and nothing
\* is rendered.
LoadsOlder ==
  IF CanPage
  THEN /\ stream' = [stream EXCEPT !.older = TRUE]
       /\ paging' = [paging EXCEPT !.older = IF mount.active THEN "mine" ELSE "other"]
       /\ Rendered
  ELSE due' = due \ {"jump"} /\ UNCHANGED <<stream, paging>>

Report ==
  /\ refs' = [refs EXCEPT !.handled = place.jump]
  /\ place' = [place EXCEPT !.jump = NoRow] /\ Rendered
  /\ UNCHANGED <<stream, paging>>

\* Defect: a row that no page can bring is not reported.
JumpWaits ==
  /\ "jump" \in due /\ place.tab = "messages"
  /\ IF place.jump = NoRow \/ stream.resyncing \/ refs.handled = place.jump
     THEN /\ refs' = IF place.jump = NoRow THEN [refs EXCEPT !.handled = NoRow] ELSE refs
          /\ due' = due \ {"jump"} /\ UNCHANGED <<place, stream, paging>>
     ELSE IF place.jump \in stream.held THEN Report
     ELSE due' = due \ {"jump"} /\ UNCHANGED <<place, refs, stream, paging>>
  /\ UNCHANGED <<pendingRoot, mount, threads>>

\* The row is scrolled to, or older pages are loaded until it is there or nothing is
\* left to load.  There is no stream to search while resyncing.
JumpEffect ==
  /\ "jump" \in due /\ place.tab = "messages"
  /\ IF place.jump = NoRow \/ stream.resyncing \/ refs.handled = place.jump
     THEN /\ refs' = IF place.jump = NoRow THEN [refs EXCEPT !.handled = NoRow] ELSE refs
          /\ due' = due \ {"jump"} /\ UNCHANGED <<place, stream, paging>>
     ELSE IF place.jump \in stream.held THEN Report
     ELSE IF stream.older
     THEN due' = due \ {"jump"} /\ UNCHANGED <<place, refs, stream, paging>>
     ELSE IF HasMore
     THEN LoadsOlder /\ UNCHANGED <<place, refs>>
     ELSE Report
  /\ UNCHANGED <<pendingRoot, mount, threads>>

(* --- The store --- *)

\* The tail is read when the Channel is entered, previewed or reloaded; frames and the
\* user's own Messages add to the list.  headDone follows the total.
RowsShown(rows) ==
  /\ \E more \in BOOLEAN :
       stream' = [stream EXCEPT !.loaded = TRUE, !.held = @ \cup rows, !.more = more,
                                !.done = ~more]
  /\ Rendered /\ UNCHANGED <<place, refs, pendingRoot, mount, threads, paging>>

\* A reload of the catalog writes back the totals it began with, or reads one that was
\* not known; headDone stays as it is.
Recounted ==
  /\ stream.loaded /\ stream' = [stream EXCEPT !.more = ~@]
  /\ Rendered /\ UNCHANGED <<place, refs, pendingRoot, mount, threads, paging>>

\* One page from the head, of the Channel that was active when it was asked for; after a
\* resync it does nothing.  An empty page sets headDone whatever the total.
PageReturns(rows) ==
  /\ paging.older # "none" /\ paging' = [paging EXCEPT !.older = "none"]
  /\ \/ /\ paging.older = "mine" /\ UNCHANGED mount
        /\ \E more \in IF stream.loaded THEN {FALSE, stream.more} ELSE BOOLEAN :
             \E done \in IF rows = {} THEN {TRUE, ~more} ELSE {~more} :
               stream' = [stream EXCEPT !.loaded = TRUE, !.held = @ \cup rows, !.older = FALSE,
                                        !.more = more, !.done = done]
     \/ /\ paging.older = "other" /\ rows = {}
        /\ stream' = [stream EXCEPT !.older = FALSE]
        /\ \E done \in BOOLEAN :
             mount' = IF mount.active THEN mount ELSE [mount EXCEPT !.restDone = done]
     \/ paging.older = "stale" /\ rows = {} /\ UNCHANGED <<stream, mount>>
  /\ Rendered /\ UNCHANGED <<place, refs, pendingRoot, threads>>

PageFails ==
  /\ paging.older \in {"mine", "other"} /\ paging' = [paging EXCEPT !.older = "none"]
  /\ stream' = [stream EXCEPT !.older = FALSE]
  /\ Rendered /\ UNCHANGED <<place, refs, pendingRoot, mount, threads>>

\* The Thread is listed, and its list loaded by the same call.
ThreadOpens(root) ==
  /\ root \in paging.roots /\ paging' = [paging EXCEPT !.roots = @ \ {root}]
  /\ threads' = [listed |-> threads.listed \cup {root}, loaded |-> threads.loaded \cup {root}]
  /\ Rendered /\ UNCHANGED <<place, refs, pendingRoot, mount, stream>>

ThreadFails(root) ==
  /\ root \in paging.roots /\ paging' = [paging EXCEPT !.roots = @ \ {root}]
  /\ refs' = [refs EXCEPT !.opening = NoRow]
  /\ UNCHANGED <<place, due, pendingRoot, mount, stream, threads>>

\* A resync forgets the page that is loading, and leaves olderLoading as it is.
ResyncBegins ==
  /\ ~stream.resyncing /\ stream' = [stream EXCEPT !.resyncing = TRUE]
  /\ paging' = [paging EXCEPT !.older = IF @ = "none" THEN "none" ELSE "stale"]
  /\ Rendered /\ UNCHANGED <<place, refs, pendingRoot, mount, threads>>

\* It empties every list and forgets every headDone, unless it fails before.
ListsReplaced ==
  /\ stream.resyncing
  /\ stream' = Unloaded(stream.older, TRUE)
  /\ threads' = [threads EXCEPT !.loaded = {}]
  /\ \E done \in {FALSE, mount.restDone} : mount' = [mount EXCEPT !.restDone = done]
  /\ Rendered /\ UNCHANGED <<place, refs, pendingRoot, paging>>

ResyncEnds ==
  /\ stream.resyncing /\ stream' = [stream EXCEPT !.resyncing = FALSE]
  /\ Rendered /\ UNCHANGED <<place, refs, pendingRoot, mount, threads, paging>>

(* --- The user --- *)

Moves(p) ==
  place' = p /\ Rendered /\ UNCHANGED <<refs, pendingRoot, mount, stream, threads, paging>>

\* The rows of the stream are there to be clicked.
StreamShown == place.tab = "messages" /\ ~stream.resyncing

\* The reply marker of a row toggles its Thread; the root card closes the Thread and
\* jumps to its row.
ToggleThread(root) ==
  /\ StreamShown /\ root \in stream.held
  /\ Moves([place EXCEPT !.thread = IF @ = root THEN NoRow ELSE root])

CloseThread == place.thread # NoRow /\ Moves([place EXCEPT !.thread = NoRow])
RootJump ==
  /\ place.tab = "messages" /\ place.thread \in threads.listed
  /\ Moves([place EXCEPT !.thread = NoRow, !.jump = place.thread])

\* The arrow of the Thread panel does the same, and drops the pending root.
ThreadInChannel ==
  /\ ~mount.docked /\ place.tab = "messages" /\ place.thread \in threads.listed
  /\ place' = [place EXCEPT !.thread = NoRow, !.jump = place.thread]
  /\ pendingRoot' = NoRow /\ Rendered
  /\ UNCHANGED <<refs, mount, stream, threads, paging>>

\* The button of this stream, or of the Thread's beside it.
ClickOlder ==
  /\ StreamShown /\ (HasMore \/ place.thread \in threads.listed) /\ CanPage
  /\ LoadsOlder /\ UNCHANGED <<place, refs, pendingRoot, mount, threads>>

\* A Task chip shows its card on the board; a card's anchor comes back to the row.
\* The stream, and its refs, are new each time the tab returns to it.
OpenTasks(row) ==
  /\ StreamShown /\ row \in stream.held
  /\ Moves([place EXCEPT !.tab = "tasks"])
OpenMessage(row) ==
  /\ place.tab = "tasks"
  /\ place' = [place EXCEPT !.tab = "messages", !.jump = row]
  /\ refs' = [refs EXCEPT !.handled = NoRow]
  /\ Rendered /\ UNCHANGED <<pendingRoot, mount, stream, threads, paging>>

\* Another Channel was active in between: a page of it may be loading still.
Elsewhere ==
  \/ UNCHANGED <<stream, paging>>
  \/ /\ ~stream.older /\ stream' = [stream EXCEPT !.older = TRUE]
     /\ paging' = [paging EXCEPT !.older = "other"]

\* The Channel is opened beside the Activity list.
Docks ==
  /\ mount' \in Docked /\ (mount'.active => UNCHANGED <<stream, paging>>) /\ Elsewhere
  /\ Mounted0(NoRow) /\ Rendered /\ UNCHANGED <<pendingRoot, threads>>

\* The active Channel, not seen from here, is another one, or read to its end.
ActiveChanges ==
  /\ mount.docked /\ mount' \in Docked
  /\ Rendered /\ UNCHANGED <<place, refs, pendingRoot, stream, threads, paging>>

\* The panel's tabs lead to Activity and back; a root is pending still.
ReturnByTab ==
  /\ mount' = InMain /\ Mounted0(pendingRoot) /\ Rendered
  /\ UNCHANGED <<pendingRoot, stream, threads, paging>>

\* A Thread is opened in its Channel from Activity.
OpenInChannel(root) ==
  /\ mount' = InMain /\ pendingRoot' = root /\ Mounted0(root) /\ Rendered
  /\ Elsewhere /\ UNCHANGED threads

\* The rail, or a navigation from Settings, leaves no root pending.
LeaveAndReturn ==
  /\ mount' = InMain /\ pendingRoot' = NoRow /\ Mounted0(NoRow) /\ Rendered
  /\ Elsewhere /\ UNCHANGED threads

SurfaceNext ==
  \/ ConsumeEffect \/ ThreadEffect \/ JumpEffect
  \/ Settled /\ \/ Recounted \/ PageFails \/ ResyncBegins \/ ListsReplaced \/ ResyncEnds
                \/ CloseThread \/ RootJump \/ ThreadInChannel \/ ClickOlder
                \/ Docks \/ ActiveChanges \/ ReturnByTab \/ LeaveAndReturn
                \/ \E rows \in SUBSET (StreamRows \ stream.held) : RowsShown(rows) \/ PageReturns(rows)
                \/ \E row \in StreamRows : OpenTasks(row) \/ OpenMessage(row)
                \/ \E root \in Roots : \/ ThreadOpens(root) \/ ThreadFails(root)
                                       \/ ToggleThread(root) \/ OpenInChannel(root)

SurfaceSpec == SurfaceInit /\ [][SurfaceNext]_surfaceVars

\* No jump hangs: once its effect has run, a jump that was not carried out waits for a
\* page that is on its way, whatever tab changes, Threads, failed pages, late answers
\* and resyncs came in between (the jump effect of MessageStream).  Set apart are the
\* cases in which it does hang: olderLoading was left set by a resync, or the stream's
\* total says there is more and the active Channel's headDone that there is none.
JumpKeepsMoving ==
  /\ place.jump \notin {NoRow, refs.handled} /\ StreamShown /\ "jump" \notin due
  => \/ paging.older \in {"mine", "other"}
     \/ stream.older /\ paging.older \in {"none", "stale"}
     \/ HasMore /\ HeadDone
=============================================================================
