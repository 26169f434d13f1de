------------------------------- MODULE Surfaces -------------------------------
(***************************************************************************)
(* The surfaces of the web client, and the RPC channel under them, side by *)
(* side.  Each has its own state and is explored alone, against every      *)
(* order of its own calls, answers and frames; what they share is the      *)
(* store, which ClientStore models.                                        *)
(***************************************************************************)
EXTENDS PanelShell, Composer, ChannelCatalog, ActivityView, ChannelSurface,
        TaskDesk, AgentSettings, RemoteCalls

VARIABLE surface   \* the one that moves

\* The others rest in one of their initial states.
SurfacesInit ==
  /\ surface \in {"shell", "composer", "catalog", "activity", "channel", "desk",
                  "settings", "wire"}
  /\ ShellInit
  /\ WireInit
  /\ ComposerInit /\ (surface = "composer" \/ seat.target = CHOOSE t \in Targets : TRUE)
  /\ CatalogInit /\ (surface = "catalog" \/ \A c \in Rooms : rows[c] = Absent)
  /\ ActivityInit /\ (surface = "activity" \/ \A c \in Convs : latest[c] = 0)
  /\ SurfaceInit /\ (surface = "channel" \/ threads.listed = {})
  /\ DeskInit /\ (surface = "desk" \/ row.status = "todo")
  /\ SettingsInit /\ (surface = "settings" \/ \A a \in Agents : ~kept[a].there)

SurfacesNext ==
  /\ \/ /\ surface = "shell" /\ ShellNext
        /\ UNCHANGED <<composerVars, catalogVars, activityVars, surfaceVars, deskVars,
                       settingsVars, wireVars>>
     \/ /\ surface = "composer" /\ ComposerNext
        /\ UNCHANGED <<shellVars, catalogVars, activityVars, surfaceVars, deskVars,
                       settingsVars, wireVars>>
     \/ /\ surface = "catalog" /\ CatalogNext
        /\ UNCHANGED <<shellVars, composerVars, activityVars, surfaceVars, deskVars,
                       settingsVars, wireVars>>
     \/ /\ surface = "activity" /\ ActivityNext
        /\ UNCHANGED <<shellVars, composerVars, catalogVars, surfaceVars, deskVars,
                       settingsVars, wireVars>>
     \/ /\ surface = "channel" /\ SurfaceNext
        /\ UNCHANGED <<shellVars, composerVars, catalogVars, activityVars, deskVars,
                       settingsVars, wireVars>>
     \/ /\ surface = "desk" /\ DeskNext
        /\ UNCHANGED <<shellVars, composerVars, catalogVars, activityVars, surfaceVars,
                       settingsVars, wireVars>>
     \/ /\ surface = "settings" /\ SettingsNext
        /\ UNCHANGED <<shellVars, composerVars, catalogVars, activityVars, surfaceVars,
                       deskVars, wireVars>>
     \/ /\ surface = "wire" /\ WireNext
        /\ UNCHANGED <<shellVars, composerVars, catalogVars, activityVars, surfaceVars,
                       deskVars, settingsVars>>
  /\ UNCHANGED surface

SurfacesSpec ==
  SurfacesInit /\ [][SurfacesNext]_<<surface, shellVars, composerVars, catalogVars, activityVars,
                                    surfaceVars, deskVars, settingsVars, wireVars>>

\* The resting surfaces never change.
Moving ==
  CASE surface = "shell" -> <<"shell", shellVars>>
    [] surface = "composer" -> <<"composer", composerVars>>
    [] surface = "catalog" -> <<"catalog", catalogVars>>
    [] surface = "activity" -> <<"activity", activityVars>>
    [] surface = "channel" -> <<"channel", surfaceVars>>
    [] surface = "desk" -> <<"desk", deskVars>>
    [] surface = "settings" -> <<"settings", settingsVars>>
    [] surface = "wire" -> <<"wire", wireVars>>
=============================================================================
