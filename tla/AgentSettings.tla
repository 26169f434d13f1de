---------------------------- MODULE AgentSettings ----------------------------
(***************************************************************************)
(* The Agent pages of Settings: the list AgentSettingsCard.tsx keeps, the  *)
(* forms and Membership reads of AgentDetail.tsx, AgentAvatarEditor.tsx,   *)
(* the create form, and the deletion dialog.                               *)
(*                                                                         *)
(* Identity and runtime are saved apart, each fenced by its own counter,   *)
(* and answered in any order.  A component that goes away leaves its calls *)
(* running; what they then set is lost.  The model and preset catalogs,    *)
(* read once, are left out.                                                *)
(***************************************************************************)
EXTENDS Integers, FiniteSetsExt

CONSTANTS
  Agents, NoAgent,
  Texts,          \* values of the identity form and of the runtime form
  MaxEdits,       \* bound: changes of all profiles together
  MaxAgentCalls   \* bound: calls in flight

VARIABLES
  kept,      \* the core's profiles and bindings; name stands for displayName and
             \* charter, route for provider, model and preset
  listed,    \* profiles, as the card lists them
  settings,  \* phase, selectedId, whether a search hides it, createOpen, deleteProfile
  detail,    \* the mounted AgentDetail: its profile's id, forms, memberships
  agentCalls \* calls; mine: the component that sent it is there,
             \* asked: its number is the newest one

settingsVars == <<kept, listed, settings, detail, agentCalls>>

NoProfile == [there |-> FALSE, name |-> "", route |-> "", ver |-> 1, gen |-> 1]
NoDetail == [agent |-> NoAgent, name |-> "", route |-> "", members |-> NoAgent, loading |-> FALSE]

SettingsInit ==
  /\ LET x == CHOOSE x \in Texts : TRUE
         saved == [NoProfile EXCEPT !.there = TRUE, !.name = x, !.route = x]
     IN kept \in [Agents -> {saved, [saved EXCEPT !.there = FALSE]}]
  /\ listed = [a \in Agents |-> NoProfile]
  /\ settings = [phase |-> "loading", chosen |-> NoAgent, hidden |-> FALSE,
                 creating |-> FALSE, doomed |-> NoAgent]
  /\ detail = NoDetail
  /\ agentCalls = {}

Busy(kind) == \E c \in agentCalls : c.kind = kind /\ c.mine
Plain(kind, a) ==
  [kind |-> kind, agent |-> a, name |-> "", route |-> "", profile |-> NoProfile,
   mine |-> TRUE, asked |-> TRUE, done |-> FALSE]
\* A save leaves with the profile as it is listed.
Save(kind, name, route) ==
  [Plain(kind, detail.agent) EXCEPT !.name = name, !.route = route, !.profile = listed[detail.agent]]
Launch(c) == Cardinality(agentCalls) < MaxAgentCalls /\ agentCalls' = agentCalls \cup {c}

(* --- What the card shows --- *)

\* The forms start from the profile.
Filled(a) == [NoDetail EXCEPT !.agent = a, !.name = listed[a].name, !.route = listed[a].route]

\* Unmounting orphans the calls of the detail.
Orphaned == {IF c.kind \in {"identity", "avatar", "runtime", "members"}
             THEN [c EXCEPT !.mine = FALSE, !.asked = FALSE] ELSE c : c \in agentCalls}

\* Defect: the number of the Membership read is not advanced.
NoneOutdated == agentCalls

\* changedAgent: membershipsRequest advances, and the Memberships are forgotten.
Outdated == {IF c.kind = "members" THEN [c EXCEPT !.asked = FALSE] ELSE c : c \in agentCalls}

\* The detail is there for a chosen Agent that no search or create form hides; one
\* that stays mounted is handed another profile.
Shows(s) ==
  /\ settings' = s
  /\ LET a == IF s.hidden \/ s.creating THEN NoAgent ELSE s.chosen IN
     IF a = detail.agent THEN UNCHANGED <<detail, agentCalls>>
     ELSE IF a = NoAgent THEN detail' = NoDetail /\ agentCalls' = Orphaned
     ELSE /\ detail' = Filled(a)
          /\ agentCalls' = IF detail.agent = NoAgent THEN agentCalls ELSE Outdated

Free == settings.phase = "ready" /\ settings.doomed = NoAgent
Editing == Free /\ detail.agent # NoAgent

SelectAgent(a) ==
  /\ Free /\ ~settings.creating /\ listed[a].there
  /\ Shows([settings EXCEPT !.chosen = a, !.hidden = FALSE])
  /\ UNCHANGED <<kept, listed>>
CloseAgent ==
  /\ Editing /\ Shows([settings EXCEPT !.chosen = NoAgent]) /\ UNCHANGED <<kept, listed>>
Search ==
  /\ Free /\ settings.chosen # NoAgent /\ ~settings.creating
  /\ Shows([settings EXCEPT !.hidden = ~@]) /\ UNCHANGED <<kept, listed>>
ToggleCreate ==
  /\ Free /\ Shows([settings EXCEPT !.creating = ~@]) /\ UNCHANGED <<kept, listed>>

(* --- The forms --- *)

TypeName(x) ==
  /\ Editing /\ ~Busy("identity")
  /\ detail' = [detail EXCEPT !.name = x] /\ UNCHANGED <<kept, listed, settings, agentCalls>>
PickRoute(x) ==
  /\ Editing /\ ~Busy("runtime")
  /\ detail' = [detail EXCEPT !.route = x] /\ UNCHANGED <<kept, listed, settings, agentCalls>>

SaveIdentity ==
  /\ Editing /\ ~Busy("identity") /\ detail.name # listed[detail.agent].name
  /\ Launch(Save("identity", detail.name, ""))
  /\ UNCHANGED <<kept, listed, settings, detail>>
SaveRuntime ==
  /\ Editing /\ ~Busy("runtime") /\ detail.route # listed[detail.agent].route
  /\ Launch(Save("runtime", "", detail.route))
  /\ UNCHANGED <<kept, listed, settings, detail>>

\* The call leaves with the version the list had when the picture was chosen.
ChooseAvatar ==
  /\ Editing /\ ~Busy("avatar")
  /\ Launch(Save("avatar", "", ""))
  /\ UNCHANGED <<kept, listed, settings, detail>>

\* The collaboration tab reads the Memberships once, and again for another Agent.
ReadMembers ==
  /\ Editing /\ detail.members = NoAgent /\ ~detail.loading
  /\ Launch(Plain("members", detail.agent))
  /\ detail' = [detail EXCEPT !.loading = TRUE]
  /\ UNCHANGED <<kept, listed, settings>>

(* --- The dialogs --- *)

AskDeletion ==
  /\ Editing /\ ~Busy("identity") /\ ~Busy("runtime")
  /\ settings' = [settings EXCEPT !.doomed = detail.agent]
  /\ UNCHANGED <<kept, listed, detail, agentCalls>>
CancelDeletion ==
  /\ settings.doomed # NoAgent /\ ~Busy("delete")
  /\ settings' = [settings EXCEPT !.doomed = NoAgent]
  /\ UNCHANGED <<kept, listed, detail, agentCalls>>

\* Ticked, and confirmed.
ConfirmDeletion ==
  /\ settings.doomed # NoAgent /\ ~Busy("delete")
  /\ Launch(Plain("delete", settings.doomed))
  /\ UNCHANGED <<kept, listed, settings, detail>>

\* A form that was closed and opened again is another one.
SubmitCreate(a) ==
  /\ Free /\ settings.creating /\ ~kept[a].there /\ ~listed[a].there /\ ~Busy("create")
  /\ Launch(Plain("create", a))
  /\ UNCHANGED <<kept, listed, settings, detail>>

Load ==
  /\ settings.phase \in {"loading", "error"} /\ ~Busy("load")
  /\ Launch(Plain("load", NoAgent))
  /\ settings' = [settings EXCEPT !.phase = "loading"]
  /\ UNCHANGED <<kept, listed, detail>>

(* --- The host --- *)

MayEdit == MapThenSumSet(LAMBDA a : kept[a].ver + kept[a].gen - 2, Agents) < MaxEdits

Accepted(c) ==
  CASE c.kind \in {"identity", "avatar"} ->
         MayEdit /\ kept[c.agent].there /\ kept[c.agent].ver = c.profile.ver
    [] c.kind = "runtime" -> MayEdit /\ kept[c.agent].there /\ kept[c.agent].gen = c.profile.gen
    [] c.kind = "create" -> ~kept[c.agent].there
    [] OTHER -> TRUE

AgentCallServed(c) ==
  /\ c \in agentCalls /\ ~c.done /\ Accepted(c)
  /\ kept' = CASE c.kind = "identity" -> [kept EXCEPT ![c.agent].name = c.name, ![c.agent].ver = @ + 1]
               [] c.kind = "avatar" -> [kept EXCEPT ![c.agent].ver = @ + 1]
               [] c.kind = "runtime" -> [kept EXCEPT ![c.agent].route = c.route, ![c.agent].gen = @ + 1]
               [] c.kind = "delete" -> [kept EXCEPT ![c.agent].there = FALSE]
               [] c.kind = "create" -> [kept EXCEPT ![c.agent].there = TRUE]
               [] OTHER -> kept
  /\ agentCalls' = (agentCalls \ {c}) \cup
       {[c EXCEPT !.done = TRUE,
                  !.profile = CASE c.kind = "runtime" ->
                                     [@ EXCEPT !.route = c.route, !.gen = kept'[c.agent].gen]
                                [] c.kind \in {"identity", "avatar", "create"} -> kept'[c.agent]
                                [] OTHER -> @]}
  /\ UNCHANGED <<listed, settings, detail>>

(* --- Answers --- *)

\* Defect: a new profile always refills the forms.
Refilled(d, p, q) == [d EXCEPT !.name = q.name, !.route = q.route]

\* The form effect: a field follows the profile unless the user changed it.
Synced(d, p, q) == [d EXCEPT !.name = IF @ = p.name THEN q.name ELSE @,
                             !.route = IF @ = p.route THEN q.route ELSE @]

\* updateProfile, through the list.
Updated(a, row) ==
  /\ listed' = IF listed[a].there THEN [listed EXCEPT ![a] = row] ELSE listed
  /\ detail' = IF detail.agent = a THEN Synced(detail, listed[a], listed'[a]) ELSE detail

Finished(c) == agentCalls' = agentCalls \ {c}

\* A runtime answer carries the binding alone: the rest is the profile as it was
\* when the user saved.
SaveAnswered(c) ==
  /\ c \in agentCalls /\ c.done /\ c.kind \in {"identity", "avatar", "runtime"}
  /\ Updated(c.agent, c.profile) /\ Finished(c) /\ UNCHANGED <<kept, settings>>

MembersAnswered(c) ==
  /\ c \in agentCalls /\ c.done /\ c.kind = "members"
  /\ detail' = IF c.asked THEN [detail EXCEPT !.members = c.agent, !.loading = FALSE] ELSE detail
  /\ Finished(c) /\ UNCHANGED <<kept, listed, settings>>

DeleteAnswered(c) ==
  /\ c \in agentCalls /\ c.done /\ c.kind = "delete"
  /\ listed' = [listed EXCEPT ![c.agent].there = FALSE]
  /\ settings' = [settings EXCEPT !.chosen = NoAgent, !.doomed = NoAgent]
  /\ detail' = NoDetail /\ agentCalls' = Orphaned \ {c}
  /\ UNCHANGED kept

\* The create form closes, also one that was opened again meanwhile.
CreateAnswered(c) ==
  /\ c \in agentCalls /\ c.done /\ c.kind = "create"
  /\ listed' = [listed EXCEPT ![c.agent] = c.profile]
  /\ settings' = [settings EXCEPT !.creating = FALSE]
  /\ detail' = IF settings.creating /\ settings.chosen # NoAgent /\ ~settings.hidden
               THEN Filled(settings.chosen) ELSE detail
  /\ Finished(c) /\ UNCHANGED kept

LoadAnswered(c) ==
  /\ c \in agentCalls /\ c.done /\ c.kind = "load"
  /\ listed' = kept /\ settings' = [settings EXCEPT !.phase = "ready"]
  /\ Finished(c) /\ UNCHANGED <<kept, detail>>

\* Lost, or refused, as when others changed the profile: the list is not read
\* again, so theirs show as refusals alone.  A Membership read that failed is not
\* repeated for this Agent, and is left out.
AgentCallFails(c) ==
  /\ c \in agentCalls /\ c.kind # "members" /\ Finished(c)
  /\ settings' = IF c.kind = "load" THEN [settings EXCEPT !.phase = "error"] ELSE settings
  /\ UNCHANGED <<kept, listed, detail>>

SettingsNext ==
  \/ \E a \in Agents : SelectAgent(a) \/ SubmitCreate(a)
  \/ CloseAgent \/ Search \/ ToggleCreate
  \/ SaveIdentity \/ SaveRuntime \/ ChooseAvatar \/ ReadMembers
  \/ \E x \in Texts : TypeName(x) \/ PickRoute(x)
  \/ AskDeletion \/ CancelDeletion \/ ConfirmDeletion \/ Load
  \/ \E c \in agentCalls : \/ AgentCallServed(c) \/ SaveAnswered(c) \/ MembersAnswered(c)
                           \/ DeleteAnswered(c) \/ CreateAnswered(c) \/ LoadAnswered(c)
                           \/ AgentCallFails(c)

SettingsSpec == SettingsInit /\ [][SettingsNext]_settingsVars

\* The Memberships under an Agent's name are that Agent's, whichever reads of others
\* were on their way when the user moved on, and no read is waited for in vain.
MembershipsOfShownAgent ==
  /\ detail.members \in {NoAgent, detail.agent}
  /\ detail.loading => \E c \in agentCalls : c.kind = "members" /\ c.asked /\ c.agent = detail.agent

\* An answer never takes away what the user typed and has not saved: identity,
\* picture and runtime of one Agent are saved at once, and answered in any order.
AnswersKeepTyping ==
  [][\A c \in agentCalls \ agentCalls' :
       /\ c.done /\ detail'.agent = detail.agent /\ detail.agent # NoAgent
       => /\ detail.name # listed[detail.agent].name => detail'.name = detail.name
          /\ detail.route # listed[detail.agent].route => detail'.route = detail.route]_settingsVars
=============================================================================
