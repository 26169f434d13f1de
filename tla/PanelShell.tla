------------------------------ MODULE PanelShell ------------------------------
(***************************************************************************)
(* The web entry of the plugin (mount.tsx, panel-controller.ts,            *)
(* sidebar-entry.ts, dsh-compat.ts): one open flag, the block it raises on *)
(* the composer of the host's current session, the center column it shares *)
(* with the panels of other plugins, and the navigation from Settings that *)
(* waits for the store's first load.                                       *)
(*                                                                         *)
(* External, from how mount.tsx uses them: the host's session list, the    *)
(* conversation service's blocks, and the other panels, which close on one *)
(* another's activation but not on ours.                                   *)
(***************************************************************************)
EXTENDS Integers

CONSTANTS
  Sessions, OtherPanels,
  Pages,                          \* Channels Settings can name
  Nowhere                         \* no session, no Channel

\* The plugin knows the activation events of several other panels, so each of them hears
\* another one's name when this one opens.
ASSUME PanelsAssumption == \A p \in OtherPanels : \E q \in OtherPanels : q # p

VARIABLES
  panel,       \* mounted, open
  others,      \* panels of other plugins that are open
  session,     \* the host's current session
  blocks,      \* sessions whose composer is inert by our block
  blocked,     \* blockedSession
  loading,     \* the store: started, bootstrapped, the Channels it lists
  pendingRoom, \* pendingChannelId
  shownRoom    \* the store's activeChannelId

shellVars == <<panel, others, session, blocks, blocked, loading, pendingRoom, shownRoom>>

ShellInit ==
  /\ panel = [mounted |-> TRUE, open |-> FALSE]
  /\ others = {} /\ session = Nowhere
  /\ blocks = {} /\ blocked = Nowhere
  /\ loading = [started |-> FALSE, done |-> FALSE, rooms |-> {}]
  /\ pendingRoom = Nowhere /\ shownRoom = Nowhere

\* Defect: only closing clears the block raised before.
SyncOnClose(open, current) ==
  /\ blocks' = (IF open THEN blocks ELSE blocks \ {blocked})
               \cup (IF open /\ current # Nowhere THEN {current} ELSE {})
  /\ blocked' = IF open THEN current ELSE Nowhere

\* syncComposerBlock: the block we raised before is cleared when its session is
\* no longer the current one or the panel closed; then the current one's is set.
Sync(open, current) ==
  LET stale == blocked # Nowhere /\ (blocked # current \/ ~open)
      kept == IF stale THEN blocks \ {blocked} ELSE blocks
      raise == open /\ current # Nowhere
  IN /\ blocks' = IF raise THEN kept \cup {current} ELSE kept
     /\ blocked' = IF raise THEN current ELSE IF stale THEN Nowhere ELSE blocked

\* applyActive: opening dispatches the activations of the others first, with our
\* own reaction suppressed; a panel closes on any name but its own.
Opened ==
  /\ panel' = [panel EXCEPT !.open = TRUE]
  /\ others' = {p \in others : \A q \in OtherPanels : q = p}
  /\ Sync(TRUE, session)

Closed ==
  /\ panel' = [panel EXCEPT !.open = FALSE]
  /\ Sync(FALSE, session)

StoreStarted == loading' = [loading EXCEPT !.started = TRUE]

\* The sidebar row toggles; the first opening starts the store.
ToggleEntry ==
  /\ panel.mounted
  /\ IF panel.open THEN Closed /\ UNCHANGED <<others, loading>>
     ELSE Opened /\ StoreStarted
  /\ UNCHANGED <<session, pendingRoom, shownRoom>>

\* The panel's close button, and a click on a session or project of the sidebar.
CloseShell ==
  /\ panel.mounted /\ panel.open /\ Closed
  /\ UNCHANGED <<others, session, loading, pendingRoom, shownRoom>>

\* Another panel opens and announces itself.
OtherOpens(p) ==
  /\ others' = {p}
  /\ IF panel.mounted /\ panel.open THEN Closed ELSE UNCHANGED <<panel, blocks, blocked>>
  /\ UNCHANGED <<session, loading, pendingRoom, shownRoom>>

OtherCloses(p) ==
  /\ p \in others /\ others' = others \ {p}
  /\ UNCHANGED <<panel, session, blocks, blocked, loading, pendingRoom, shownRoom>>

SessionSwitches(s) ==
  /\ session' = s /\ s # session
  /\ IF panel.mounted THEN Sync(panel.open, s) ELSE UNCHANGED <<blocks, blocked>>
  /\ UNCHANGED <<panel, others, loading, pendingRoom, shownRoom>>

\* applyPendingNavigation: consumed once the store loaded, whether or not the
\* Channel is listed.
Landed(room, load) ==
  IF room = Nowhere \/ ~load.done THEN pendingRoom' = room /\ UNCHANGED shownRoom
  ELSE /\ pendingRoom' = Nowhere
       /\ shownRoom' = IF room \in load.rooms THEN room ELSE shownRoom

\* Settings asks for a Channel: the panel opens and the store starts.
Navigate(room) ==
  /\ panel.mounted
  /\ IF panel.open THEN UNCHANGED <<panel, others, blocks, blocked>> ELSE Opened
  /\ StoreStarted
  /\ Landed(room, loading)
  /\ UNCHANGED session

\* bootstrap answered, and every later change of the listed Channels.
StoreLoads(rooms) ==
  /\ panel.mounted /\ loading.started
  /\ loading' = [loading EXCEPT !.done = TRUE, !.rooms = rooms]
  /\ Landed(pendingRoom, loading')
  /\ UNCHANGED <<panel, others, session, blocks, blocked>>

Unmount ==
  /\ panel.mounted
  /\ panel' = [mounted |-> FALSE, open |-> panel.open]
  /\ blocks' = blocks \ {blocked} /\ blocked' = Nowhere
  /\ UNCHANGED <<others, session, loading, pendingRoom, shownRoom>>

ShellNext ==
  \/ ToggleEntry \/ CloseShell \/ Unmount
  \/ \E p \in OtherPanels : OtherOpens(p) \/ OtherCloses(p)
  \/ \E s \in Sessions \cup {Nowhere} : SessionSwitches(s)
  \/ \E room \in Pages : Navigate(room)
  \/ \E rooms \in SUBSET Pages : StoreLoads(rooms)

ShellSpec == ShellInit /\ [][ShellNext]_shellVars

\* The native composer is inert exactly for the current session while the panel
\* covers it: no switch of session, other panel, or unmount leaves a composer
\* blocked that the user returns to, or lets two panels share the column.
BlockFollowsPanel ==
  /\ blocks = IF panel.mounted /\ panel.open /\ session # Nowhere THEN {session} ELSE {}
  /\ panel.mounted /\ panel.open => others = {}
=============================================================================
