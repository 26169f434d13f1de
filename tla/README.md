# Verification of dsh-chaos

TLA+ models of the durable collaboration core (`crates/collab-core`, Rust over
one SQLite-compatible connection), of the host plugin that drives it
(`src/*.ts`, one Node event loop) and of the Web client (`src/client`: its data
layer and its surfaces), with TLC configurations and TLAPS proofs. Paths below are
relative to the repository.

## 1. The system

People and Agents talk in Channels, Directs and Threads. Everything durable is
in the core's database; every core call is one transaction on one connection.
The host owns what the database cannot: live DSH Sessions, notices, receipts
not yet confirmed, event streams. Browser tabs own a snapshot and a cursor.

### Components

| Part | State | Operations | Correct when |
|---|---|---|---|
| Runtime bindings (`runtime.rs`) | one binding per Agent: Session, generation | bind, fence, look up, preset | an old generation never passes the fence again |
| Targets, memberships (`target.rs`, `membership.rs`) | lifecycle, roles, `v_target_access` | create, update, archive, restore, delete, join | a lifecycle call never makes an inbox unreadable |
| Messages (`message/`) | append-only log, global seq, request ids | send, read, tail, `@mention` | every recipient gets a delivery and a watermark in the same transaction |
| Wake and inbox delivery (`delivery/`) | deliveries, batches, `agent_wake_state` | pending_wakes, mark_notified, rearm, check_inbox, mark_model_seen | no unseen delivery without a watermark; receipts only for what a batch returned, oldest first |
| Tasks (`task/`) | row, version, audit trail, per-Channel counter | create, claim, unclaim, update status | one winner per claim; the trail explains the row; numbers dense |
| Profiles (`profile/`) | Charter, avatar, lifecycle, versions | create, edit, delete | a deleted Agent leaves no operational state |
| Threads (`thread/`) | follow state with source | create, follow, unfollow | an explicit choice is not undone by an implicit one |
| Activity (`activity/`) | done fences per actor and target | inbox_list, inbox_done, inbox_done_all | a fence never hides newer activity |
| Change ledger (`changefeed.rs`) | `change_events`, recipients, retention floor | append, list, prune, snapshot | a cursor in range has no hole behind it |
| Migrations (`db/`) | schema version | 001..010 | an upgrade keeps every cursor meaningful |
| Runtime manager (`runtime.ts`) | live handles, per-Agent lock, pending receipts | create, reset, resume, restore, stop, close, record, confirm, rearm | a live handle is the durable binding |
| Delivery bridge (`delivery.ts`) | scan coalescing flags | start, kick, scan, stop | every due wake is delivered or found again |
| Tools, request hook (`tools.ts`, `index.ts`) | none durable | message_check, task_create, ..., confirm before each model request | a receipt precedes the request that shows the model the batch |
| Collab service (`index.ts`) | the core, the timers, the manager and the bridge it owns | init, cleanup, one method per call, publishChange | everything it started has ended when the core closes; a commit is announced |
| Remote (`remote.ts`) | one loop per event stream | RPC methods, `serveCollabEvents` | no change waits for a heartbeat; an unservable cursor is said so; client and host agree on every payload |
| Client store (`client/data`) | projections, EventSource, cursor | bootstrap, resync, frame handlers, send | the projections follow the ledger |
| Panel shell (`client/entry`) | open flag, composer block, pending navigation | mount, toggle, navigate, unmount | a session's composer is blocked exactly while the panel covers it |
| Surfaces (`client/features`) | per component: draft and attempt, dialogs, tab, jump, forms | clicks, and the calls they make | what is typed, agreed to or shown is what is sent, whenever the answers come |

How they interact: a Message is written with its deliveries, watermarks and
change in one transaction. The host then `kick()`s the delivery bridge and runs
`publishChange()`. The bridge reads the due wakes, hands a notice to the live
handle of each and marks the watermark notified. The Agent's model answers with
`message_check`, which writes a batch; before the next model request of that
Session the host confirms the batch (`mark_model_seen`); if no request follows,
the idle hook re-arms the wake. `publishChange()` wakes the event streams, which
read the ledger from their cursor and write frames; tabs re-read by RPC.

What is hard: core calls of one Agent issued by five independent host actors
(bridge, manager, tool, request hook, idle hook) with awaits between reading
and using a binding; a cleanup that may begin at any of those awaits; forms and
dialogs answered after what they showed has changed; disposal that may reject; a crash between any two calls;
retention, dropped connections and reloads against a moving ledger; claims and
two-call tools by concurrent actors. `PROJECT.json` lists each such point at
its line, with the properties that watch it.

## 2. Modules

| Module | Models | Composes |
|---|---|---|
| `AgentInbox` | abstract: an Agent's queue, read oldest first, lost by nothing but its deletion | |
| `WakeLedger` | bindings, Channel access and lifecycle, send_message, the whole delivery API | implements `AgentInbox` |
| `WakeLedgerProofs` | | extends `WakeLedger` |
| `WakeDelivery` | RuntimeManager, DeliveryBridge, message_check, request hook, idle hook, the DSH Agent behind a handle | extends `WakeLedger` |
| `WakeDeliveryProofs` | | extends `WakeDelivery`, `WakeLedgerProofs` |
| `HostLifecycle` | start and cleanup of the service, the operations under an Agent's lock and `close()`, the kick loop of the bridge, the identity in the prompt | |
| `HostLifecycleProofs` | | extends `HostLifecycle` |
| `TaskBoard` | the Task API, its audit trail, the two-call `task_create` tool | |
| `TaskBoardProofs` | | extends `TaskBoard` |
| `ChangeReplay` | abstract: a tab is told each change once and in order, or re-reads everything | |
| `ChangeFeed` | change ledger, retention, `serveCollabEvents`, EventSource, bootstrap and resync | implements `ChangeReplay` |
| `ChangeFeedProofs` | | extends `ChangeFeed` |
| `ClientStore` | the store of a tab: load, frames, opening, paging, sending, late answers | uses `ChangeReplay` as its feed |
| `MCClientStore` | the symmetry and the view of the `ClientStore` runs | extends `ClientStore` |
| `ClientStoreProofs` | | extends `ClientStore` |
| `PanelShell` | the plugin's entry: panel, composer block, other panels, navigation from Settings | |
| `Composer` | draft, logical attempt with its request id, As-Task, retries; the core's replay | |
| `ChannelCatalog` | the Channel list: reloads, removed notice, lifecycle, edit, create and delete dialogs; the core's version fences | |
| `ActivityView` | the Activity inbox: done fences of the core, refreshes and marks of the store, rows and dock | |
| `ChannelSurface` | one open Channel: tab, Thread beside the stream, the jump that pages | |
| `TaskDesk` | the Task board's moves against a moving row | |
| `AgentSettings` | Agent list, identity, avatar and runtime forms, Memberships, create and delete | |
| `RemoteCalls` | every endpoint: what the client sends, what `remote.ts` demands, what `index.ts` announces | |
| `Surfaces` | one of the eight above at a time | extends them |
| `SurfacesProofs` | | extends `Surfaces` |
| `SurfaceCallsProofs` | | extends `Composer`, `ChannelSurface`, `AgentSettings`, `RemoteCalls` |

### Correspondence

**WakeLedger.** Tables become functions: `deliveries` is `delivered`
(Agent to Messages) with `seenGen` (0 or the `model_seen_generation`) and
`notifiedGen`; `agent_wake_state` is `pendingSeq` and `notifiedSeq`;
`inbox_batches` is the set `batches`. One action per call, `BindRuntime`,
`MarkNotified`, `Rearm`, `CheckInbox`, `MarkModelSeen`, `SendMessage` and the
Channel and Agent lifecycle; a refused call is a disabled action. Ids, text,
time stamps, requests' replay and mentions are left out.

**WakeDelivery.** A method with awaits is a chain of actions under the Agent's
lock (`op[a].stage`): `BeginResume` (take the lock, take the lease away,
issue `dispose`), `DisposeDone`/`DisposeFails`, `IssueRearm`, `ResumeRearm` (the
core commits), `PublishResume` (`active.set`). Every core call that something
else can overtake is issued (`calls[a]`), committed and answered in separate
steps. `HostFairness` and `Crash` are described below. Calls about one Agent
are committed in the order they were issued: the core takes one fair mutex, and
a call reaches it after a bounded hop that all calls share.

**TaskBoard.** A row is `status`, `assignee`, `version`, `number`; `trail` is
`task_events`, each event with what the SQL stores (`to` is NoStatus when
`to_status` is NULL). `ToolCreate` and `ToolClaim` are the two core calls of
`task_create`, with `claimsDue` between them.

**ChangeFeed.** The ledger is `lastSeq`, `mine` (changes addressed to the
viewer) and `floor`. The loop of `serveCollabEvents` is the program counter
`stream`; `waiter` is the prepared wait; `wire` the frames on the connection.
A tab is `phase`, `snapshot`, `source` (ready state), `url` and `lastEventId`.
`Disconnected` loses the frames in flight; `Restart` also loses publications
not yet run. A publication of a call that changed nothing only causes a round
that finds nothing, like `Heartbeat`, and is left out.

**HostLifecycle.** `phase` follows `init`, `down` the cleanup; `core` is the
native handle. `queue[a]` is the chain of `withAgentLock`, its head the holder,
and `stage[a]` the await it is at, so an operation is `JobStarts`, `JobFenced`,
`JobReads`, `JobPrepared`, `JobDisposes`, `JobOpens`, `JobPublishes`, with
`Fail` and the recovery of `reset` where the code catches. `lease`, `live`,
`broken` and `opened` tell the handle `active` holds, those the registry has
opened, those whose `dispose()` threw, and the one not yet published. The bridge is
`drain` and `requested`; `unlisted` says that a Message is committed which no scan
has read. `WakeDelivery` has what the scans deliver, so a scan is only its read
here, and the two modules share no state.

**ClientStore.** `posts` is the host's log, `shown`, `total`, `headCursor`,
`headDone`, `marker` and `unread` the store's projections, `calls` the RPC calls
in flight: each is issued, served and answered (`Apply...`, or `ReadFails`,
`SendFails`) in separate steps, in any order. `loadGeneration` is modelled by
what it does: a new generation forgets the reads in flight. Of the feed only what
`ChangeReplay` promises is used, and `FollowsFeed` checks that the tab keeps its
side of it: with `ImplementsReplay` of `ChangeFeed` the two halves meet at that
module. `owed` is history, not code: the lists that only a further frame can
bring up to date. `LoadOlder` asks what `loadOlder` asks, an active Channel without its
`headDone` and no page under way: the stream that calls it tests its own list, which may
be a Thread's or that of a Channel shown beside Activity, so the Channel that is paged
need not have been read.

**The surfaces.** Each module keeps what its components keep between two events
(`useState`, refs, module-level maps), the part of the store they read, and the
part of the core that answers them, as rows with versions. A call is issued by a
click, served by the core (`...Served`, `CallCommits`) and answered
(`...Answered`, `...Fails`) in separate steps and in any order; it carries what
its closure captured. Others change the rows at any time. In `ChannelSurface`
`due` holds the effects a render has scheduled, which run before the next event;
`mount` tells the panel's main view, of the active Channel, from the view beside
Activity, of any: a stream asks for more by its own list and total (`HasMore`), the
store pages the active Channel by its `headDone` (`HeadDone`, `LoadsOlder`), and the two
are set apart by what the code does to each (`RowsShown`, `Recounted`, `PageReturns`,
`ListsReplaced`). In `TaskDesk` `over` is the lane that took the last dragover, with the
version of the card the user saw then: `DropOn` asks no more than `onDrop` does, and
`Granted` has the version, owner and transition checks of the core in their order. What
a Task chip focuses only matters to the filter, which a board mounted by it does not have
(`BoardMounts`). In `RemoteCalls` a payload is the kinds and sizes of its fields.
`agreed`, `agreedSeq` and `given` are history, not code: what the user confirmed,
saw, or knew to have landed.

## 3. Runs

| Run | Instance | Question |
|---|---|---|
| `wake_ledger` | 1 Agent, 2 Channels, 2 Sessions, 2 Messages, 2 generations | every order of core calls keeps watermarks, access, fences, order; implements the inbox |
| `host_safety` | 1 Agent, 1 Message, 2 generations, rejected disposals, aborted turns, a crash | no stale handle, no stale receipt |
| `wake_handover` | 1 Agent, 2 Messages, 2 generations, a crash | unseen work is always in somebody's hands |
| `wake_eventually` | 1 Agent, 2 Messages, 1 generation, a crash | a delivered Message reaches the model |
| `host_lifecycle` | 1 Agent with a binding, restore, recovery and 1 operation asked for, 1 send, 1 Profile edit, every await may reject | cleanup at any moment, one Session, no lost kick, current prompt, cleanup ends |
| `tasks` | Owner and Agent, 2 Messages, 5 events | claims, lifecycle, trail, numbers |
| `change_feed` | 1 tab, 3 changes, pages of 2, 2 faults | exact delivery, no lost wake, reload only after retention, eventual delivery |
| `client_store` | 2 Channels, 1 old and 2 new Messages, pages of 1, 2 calls at once, 1 fault | newest Message shown, no holes below the head cursor, nothing forgotten, feed followed |
| `surfaces` | two of each thing a surface chooses between, 1 or 2 calls in flight, 2 changes by others; one surface moves per behaviour | what is typed, agreed to or shown survives late, lost and rejected answers; client and host agree |
| `task_create_gap` | Owner and Agent | finding 1 |
| `dispose_receipts` | rejected disposals | finding 2 |
| `client_head_done` | 2 Channels, 2 Messages, 2 calls, no fault | finding 3 |

Why the bounds are enough to be interesting: two generations give one superseded
and one current binding, over one shared or two different Session ids; two
Messages give an older and a newer one, so that a batch can miss one, a mark can
race the other and a receipt can arrive out of order; two Channels separate an
archived target from a live one; one crash suffices because a restart returns the
host to its initial state; three changes with pages of two give a full page,
a partial one and a change beyond both; five task events reach a second claim
after a release; three Messages with pages of one give a list a tail, a head and a
hole between them, and two calls a late answer that overtakes another; the
operation asked for, with `restore` and the recovery of a `reset`, gives a
holder, a waiter and a close that finds both, and a handle more than a lease. The
surfaces are explored side by side rather than together: they meet only in the
store, and their product would multiply states without adding an order of
events that one of them could tell. Two rooms, texts, targets or Agents are
what it takes to answer for the wrong one, and two calls to answer late. The VIEW of
`surfaces` keeps only the surface that moves, because the others never change. The run
of `client_store` reduces by the symmetry of Channels and of call slots, and its
VIEW leaves out the read markers and badges, on which no other variable depends
and of which the run's properties do not speak. Each passing property has a mutant of the code's behaviour
that violates it under the same instance. All the safety properties are proved for
every instance, two of them under the assumptions of their run (section 5). The type invariants, `SeenHasReceipt` and
`NumbersDense` are proved and not listed in a run.

Deadlock is not checked: Messages, generations, changes and events are bounded,
so each model stops when they are used up.

### What the properties say

* `WatermarkCoversUnseen`: an unseen delivery is never above its Agent's wake
  watermark, so scanning finds it and marking is not refused.
* `InboxNeverPoisoned`: archiving, deleting or re-joining never leaves an unseen
  delivery that `check_inbox` would refuse (one refusal fails the whole check).
* `SeenHasReceipt`, `StaleBatchesStayFenced`, `SeenInOrder`: receipts are real,
  fenced by generation and Session, and never skip an older delivery, in any
  order of confirmation.
* `LeaseIsCurrent`: a live handle is the binding of the database, except while
  its Agent is being deleted.
* `ReceiptsAreCurrent`: a pending receipt belongs to the live handle's batch.
* `NoLostWake`: unseen work of a leased Agent is due, or noticed, or being
  answered, or awaiting a receipt. `EventuallySeen` is its liveness.
* `LoopsEndBeforeCore`, `NoHandleOutlives`: when the core is closed no scan, prune
  or operation still runs, and every Session the manager opened has ended, except
  one whose own `dispose()` threw.
* `OneSession`: whatever rejects and whoever waits for the lock, an Agent never has
  two Sessions that run.
* `NoKickLost`: a kick during a drain makes it read once more; only a read that
  failed leaves a Message to the poll.
* `PromptIsCurrent`: resumes read the identity while edits commit and are answered in
  any order; the live prompt ends with the newest version.
* `CleanupEnds`: a cleanup that began ends with the core closed.
* `AuditRebuildsRow`, `AuditFollowsLifecycle`, `OneWinner`, `NumbersDense`: the
  trail rebuilds the row; recorded statuses follow the lifecycle although claims
  bypass its check; between two claims the first winner released; numbers dense.
* `NoLostWakeup`: a waiting stream has nothing to write or a publication coming.
* `PipeIsExact`: the frames in flight are exactly the viewer's changes between
  tab and stream.
* `ResyncOnlyWhenPruned`: a stream refuses a cursor only when retention passed it.
* `NewestShown`: when nothing is under way, an open list ends with the newest
  Message of its Channel, but for the lists in `owed`: a reread failed or began more than
  a page behind, a frame or a resync came while the list was being opened, or a page of
  older Messages made it a list before its own read did.
* `HeadIsWhole`: paging from `headCursor` on makes a list whole; no late answer
  moves the cursor past a Message the list lacks.
* `NothingForgotten`: an answer never overwrites what came meanwhile.
* `FollowsFeed`: the tab handles frames one by one and only while connected, and
  connects from a snapshot not older than what it has handled.
* `EventuallyTold`: every change reaches every tab, or a reload covers it.
* `BlockFollowsPanel`: exactly the covered session's composer is inert, and an open
  panel has the column to itself.
* `RetrySendsOnce`, `DraftsAreKept`: a retried body is posted once, although its first
  answer was lost; a draft goes only by its user's hand or by being posted.
* `DeletesOnlyAcknowledged`, `EditsOverwriteNothing`: a delete is for the Channel whose
  own box was ticked; an edit commits only over the version its author saw.
* `NoticeEndsByItself`: the notice of a vanished Channel always has its timer.
* `DoneHidesNothingNewer`: Done never hides activity its user was not shown.
* `JumpKeepsMoving`: a jump that was not carried out is waiting for a page, but where
  `olderLoading` was left set or total and `headDone` disagree (divergences below).
* `OnlyStaleMovesFail`: the board offers no move the core does not know: somebody
  entitled to it is refused, in an active Channel, only because the row changed after the
  user was shown the move.
* `AnswersKeepTyping`, `MembershipsOfShownAgent`: no answer takes away unsaved text, or
  shows another Agent's Memberships.
* `CallsAreUnderstood`: no call of the client is turned away by the host's argument
  checks, its limits among them.
* `CommitsAreAnnounced`: a commit no stream was told of has its call under way, or its
  second read failed.

### Findings

1. `task_create_gap`: `task_create` promises that "the creator claims their fresh
   Task in the same call" (`src/tools.ts:427`); it makes two core calls, and
   another member can claim in between.
2. `dispose_receipts`: when `dispose()` rejects, the lease is put back without its
   receipts (`src/runtime.ts:353`), so the idle hook, which is to "re-arm an idle
   Agent whose checked batch never reached another model request"
   (`src/runtime.ts:317`), does nothing.
3. `client_head_done`: a Message that arrives while the list of its Channel, not
   the active one, is being read for the first time is counted but never fetched;
   the list is then taken to be "the whole channel history"
   (`src/client/data/store.ts:57`) without it, until another frame comes.

### Known divergences without a run

Met while modelling. The models follow the code in each; the properties are
stated so that they hold of it.

* A `message_check` with a `limit` below the pending count leaves deliveries already
  marked notified; no scan lists them again before another Message, a rebind or a
  resume (`src/tools.ts:297`), although the bridge calls itself level-triggered
  (`src/delivery.ts:7`).
* The read marker is written for every Channel whose list is loaded, not only for
  the active one (`src/client/data/store.ts:662`; line 9 says "appended to while
  active").
* The timer of the removed-Channel notice survives a resync and then closes the
  Channel the resync opened (`store.ts:797`).
* `loadOlder` that a resync overtakes leaves `olderLoading` set, and no older Message
  can be loaded until a reload (`store.ts:387`); a jump then waits for ever.
* `loadOlder` pages the active Channel for every stream on the page. While the active
  Channel's first read is under way or has failed, "load older" in a Thread, or in a
  Channel shown beside Activity, makes its oldest page its list; the newest Messages are
  missing until the next frame or a reload (`retryActiveHistory` has no caller).
* A jump hangs where the total of the Channel shown says there is more and the active
  Channel's `headDone` that there is none (`MessageStream.tsx:218`, `store.ts:381`): in a
  Channel beside Activity while another, fully read, is active, and in the active one
  after an empty page or after a reload of the catalog wrote back or first read a
  total (`store.ts:777`), as `headDone` is not computed anew there.
* A list of Tasks answered between the last dragover and the drop lets the board send a
  move it does not offer, with the version just read (`ChannelTasksBoard.tsx:180`): the
  core refuses it, or moves a Task, a done one among them, nobody meant to move.
* Members are offered moves of others' Tasks that only the Channel's owner may make
  (`task/model.rs:256`); moves in a Channel that was archived while the board does not
  know yet; and claims of Tasks that are done or held (`AssigneePopover.tsx:132`). The
  core refuses them.
* After a resync an open Thread stays blank, because `threadOpeningRef` still names
  it; a pending Thread root that was not consumed reopens it later.
* A Thread's composer is not mounted anew when another Thread opens (a Channel's is, by
  its key), so the answer to a send from the first Thread empties the draft of the
  second (`ChannelComposer.tsx:164`). With `InThread` TRUE `DraftsAreKept` fails in
  eight steps; `Surfaces.cfg` has the Channel's composer.
* A refresh of one Activity filter that is answered after the other was chosen shows
  its rows under it.
* `saveRuntime` spreads the profile it was called with over a newer one
  (`AgentDetail.tsx:125`); the list shows the old name until the next load.
* A retry of a send after its target was archived is refused although its Message
  exists (`message/mod.rs:41`).
* `message_send` given both a target and a Message to reply to ignores the target.

## 4. Fairness

* `HostFairness` (WakeDelivery): the poll timer keeps scanning, the core answers
  every call, a disposal settles, the DSH loop works off its queue and sends the
  requests of a turn. Nobody has to request an operation, send a Message or
  call `create`. `EventuallySeen` is claimed for an Agent that stays bound and
  live.
* `Fairness` (HostLifecycle): every await settles: a retention run, a scan's read, the
  step an operation is at and the step the cleanup is at. Nobody has to ask for
  an operation, send, edit or start a cleanup. `CleanupEnds` is claimed of a
  cleanup that has begun.
* `Fairness` (ChangeFeed): the host's loop, the core and the browser keep going.
  The heartbeat is not assumed: a wait only it would end is a lost wake. Faults
  are bounded in number, so connections hold eventually.

The surfaces claim no liveness: `JumpKeepsMoving` and `NoticeEndsByItself` say as
state predicates that something is under way, and a call may stay unanswered.

Assumed of code outside the repository: the framework runs a service's cleanup
once, after its init returned or threw; the plugin's panel is told of other
panels by their activation events; a DSH Agent handles one turn at a time,
waits for its tools, and `dispose()` ends its turn; a model shown a notice calls
`message_check`, unless the run's `Faults` contain `"turn"`; a connection
delivers its frames in order until it breaks; one browser tab has one stream.

## 5. Proofs

All theorems hold for every value of the constants under the assumptions the
modules name (bounds are naturals, special values lie outside the sets they
are told apart from). 

* **WakeLedgerProofs**: the inductive invariant `IInv` adds to the checked
  properties that rows refer to committed Messages, that bound Agents are live,
  that every delivery is readable (not only the unseen ones), that a batch
  belongs to its Agent, and that a batch is a prefix of what was unseen when it
  was taken (`BatchIsPrefix`: what it leaves out below its largest item has been
  seen). The last one is why `SeenInOrder` holds: confirming any batch at any
  later time can only fill the oldest end. `LedgerImplementsInbox` maps sends to
  posts, receipts to reads, deletion to closing and the rest to stuttering.
* **WakeDeliveryProofs**: `HInv` follows a binding through the operation that
  holds the Agent's lock: what is held for a failed disposal and what is about
  to be published is current, and a deletion under way admits neither. Every
  host step is a ledger step or leaves the ledger alone (`HostImplementsLedger`),
  so the ledger's theorems hold of the composition (`HostImplementsInbox`);
  `LeaseAlwaysCurrent` and `HostTypeCorrect` hold under every fault, and so does
  `ReceiptsAlwaysCurrent`: `ReceiptOK` says that the answer a check may still bring is
  fenced by the binding it was asked for, and that the receipts recorded are the
  lease's, so none outlives it.
  `NoWakeEverLost` follows unseen work from hand to hand (`CustodyOK`): it is due in
  the ledger (`Fresh`), or a notice, a model about to check, a queued re-arm, the answer
  of a check or a receipt has it. A mark still to commit takes none of it away, because
  the notice it follows is not answered yet (`MarkIsAsked`), and a check misses only
  what left a notice behind it (`CheckIsLast`). For a binding about to be published
  `QueueOK` says that nothing under way can mark it, and that its re-arm is the last
  call of its Agent; `MarksAreOld` that no watermark is ahead of the ledger.
  It assumes what its run assumes: no turn is aborted and no disposal fails
  (`Faults = {}`; the second is finding 2), and a check may ask for as much as was
  announced (`MaxSeq <= l` for every limit; the first of the known divergences is what
  happens otherwise). Crashes, resets and new bindings are in, any number of them.
* **HostLifecycleProofs**: `LifeInv` adds to the properties, per Agent, what the lock
  guarantees at each await (`LockInv`: whether there is a lease, an opened handle
  and at most which handle lives), which operations a close still awaits
  (`AwaitInv`), and, for the prompt, that the version a resume read is overtaken
  only by edits whose answer is still to come (`PromptInv`); `CloseInv` orders the
  cleanup's stages. Every step of one Agent is shown by lemmas on the shape of the
  move to leave the others' conjuncts alone. `OneSessionAlways`, `NoKickEverLost`,
  `LoopsEndFirst`, `HandlesEndFirst` and `PromptAlwaysCurrent` follow.
* **TaskBoardProofs**: trail, row and counter are tied event by event; a claim
  needs an unassigned Task, and only its holder's release makes it so again.
* **ChangeFeedProofs**: `IInv` is per tab and chains ledger, page, stream, wire and
  tab: a page is the next changes without a gap (the lowest `PageLimit` ones,
  by comparing cardinalities), a frame is sound, in order and none is missing, a
  snapshot is not older than its tab, a closed source has no stream, a
  `resync_required` frame is the last. From it follow `NoWakeupLost`,
  `PipeAlwaysExact`, `OnlyPrunedResyncs` and the refinement
  `FeedImplementsReplay`.
* **ClientStoreProofs**: `IInv` says that every read of older Messages in flight
  starts where its list is still whole, that its page has no hole either, and that
  none is in flight during a resync; so when it is answered the list is whole up to
  the page's end (`HeadAlwaysWhole`), however the list grew meanwhile. That a page is
  the next Messages without a hole is proved by comparing cardinalities.
  `NothingEverForgotten` and the refinement `FeedFollowed` follow step by step.
  `NewestAlwaysShown` needs, while the tab follows the feed, that every list owing
  nothing shows the newest Message it was told of, or a reread under way brings it
  (`ListOK`): one that was served has it, one still to be served starts within a page
  of it (`WithinPage`), and what is posted later does not push it off that page. For a
  list still to be opened, the answer at hand covers it (`OpeningOK`), which is why
  a frame that comes while the read is under way, or a page of older Messages that makes
  the list, makes it owe. Neither is
  inductive without `CallsOK`: frames are read only by a live tab, for a list it has or
  owes, and a resync ends only when its own read has.

* **SurfacesProofs**: each theorem is about the specification of its surface alone. A
  call in flight keeps what was agreed to (`CatalogInv`), what its row showed
  (`ActivityInv`), or, of a version seen and the status it was offered for, that the core
  had them so (`DeskInv`: card, lane and call show versions of the row that were there, and
  at the row's present version its present status);
  `ShellInv` ties the block to the session and to the other panels, which needs that
  the plugin knows of several (`PanelsAssumption`). `SurfacesStandAlone` shows that the
  specification the run explores, where one surface moves and the others rest,
  implies each surface's own: what is proved of each holds of the run's.
* **SurfaceCallsProofs**: the same for the surfaces whose answers come late.
  `RetriesAlwaysSendOnce` rests on a mounted composer having one call (`OneCallAMount`),
  on ids being drawn once (`IdsAreDrawn`), and on every other id than the open attempt's
  being settled or given up (`OneOpenAttempt`); it holds in a Channel and in a
  Thread. `DraftsAlwaysKept` adds that a call's draft still holds its body, that
  an id stands for one body in one target, and that a committed body was posted; it is
  about a Channel's composer (`InThread = FALSE`), as its run is: a Thread's is
  the divergence noted above. `JumpsAlwaysMove` needs no more than the types:
  everything that changes what the jump effect reads renders, so that the effect is due
  again (`RenderedMoves`), and where it runs it reports the row, finds a page on its way, or
  calls `loadOlder`, which asks for one unless `headDone` stops it (`JumpEffectMoves`).
  `MembershipsAlwaysOfShown` and `TypingAlwaysKept` need that the page is that of the
  Agent shown and that reads under way for it were asked of it (`AskedOfShown`).
  `CallsAlwaysUnderstood` goes through every endpoint: each kind and size of field a
  call leaves with passes the checks its reader applies. `CommitsAlwaysAnnounced`
  follows a commit through its call to the publication.

Model-checked only: `EventuallySeen`, `EventuallyTold` and `CleanupEnds` (liveness is
out of the prover's reach) and the three findings.

## 6. Not modelled, and why

* Migrations (`db/`): a fixed list of scripts, each applied once in a transaction
  before the host starts. Nothing interleaves with it; what a script does is SQL.
* Threads in the core: `create_thread` is idempotent and `follow` is one row. How a
  Thread is opened is in `ChannelSurface`; who follows decides whose Activity it is in,
  which `ActivityView` takes as given. Mentions only choose recipients, which
  `WakeLedger` leaves open.
* Names, descriptions, Charters and their validation; Directs, which are Channels
  without lifecycle calls; `update_runtime_preset`.
* In the client: the members dialog, mention completion, the thread summaries' counts,
  and what is reread whole (actors, bindings, members); the model and preset catalogs,
  read once; the composer's `disabled` prop; Markdown, avatars, layout and the locale
  tables.
* Agent tools but `message_check`, `message_send`'s retry and `task_create`: argument
  checks around one core call each.
* Workspace files, prompts, preset policy, N-API conversion (`native.ts`, `napi/`),
  actors (one INSERT): input, output and argument checks without protocol state.
* Scripts, packaging and end-to-end tests: build tooling.

## 7. Plan

Done: `WakeLedger` with `AgentInbox`; `WakeDelivery`; `TaskBoard`; `ChangeFeed` with
`ChangeReplay`; `ClientStore`; `HostLifecycle`; the surfaces and `RemoteCalls`; and
their proofs.

Left, most important first:

1. Threads in `ClientStore`: their lists against reloads, and follows with their source;
   then `HeadAlwaysWhole` and `NewestAlwaysShown` for them.
2. `NoWakeEverLost` with aborted turns: what is left of it once a notice may go
   unanswered until the idle hook re-arms.
3. A refinement between `HostLifecycle` and `WakeDelivery`, which model the lock of an
   Agent twice, each for its own questions.
