------------------------------- MODULE FrontEnds -------------------------------
(* What stands between the services and their users: the settings, the API with
   its lookups and its cleanup, the updater, the feed that peers share, and what
   the window shows of a search, of a torrent and of the news. They hold no state
   in common, so a run follows one of them: part says which, and the others stay
   as they start. *)
EXTENDS Settings, Feed, Updates, RestApi, Cleanup, SearchView, DetailsPanel, Activity
VARIABLE part

Parts == {"settings", "feed", "updates", "rest", "cleanup", "search", "panel", "activity"}
serviceVars == <<settingsVars, feedVars, updateVars, restVars, cleanupVars>>
windowVars == <<searchVars, panelVars, activityVars>>
frontEndVars == <<part, settingsVars, feedVars, updateVars, restVars, cleanupVars, windowVars>>

FrontEndsTypeOK ==
    /\ part \in Parts
    /\ SettingsTypeOK /\ FeedTypeOK /\ UpdatesTypeOK /\ RestTypeOK /\ CleanupTypeOK
    /\ SearchTypeOK /\ PanelTypeOK /\ ActivityTypeOK

Init ==
    /\ part \in Parts
    /\ SettingsInit /\ (part # "settings" => file = NoConfig)
    /\ FeedInit /\ UpdatesInit /\ RestInit
    /\ CleanupInit /\ (part # "cleanup" => index = {})
    /\ SearchInit /\ (part # "search" => ours = {})
    /\ PanelInit /\ ActivityInit

Next ==
    /\ UNCHANGED part
    /\ \/ part = "settings" /\ SettingsNext /\ UNCHANGED <<feedVars, updateVars, restVars, cleanupVars, windowVars>>
       \/ part = "feed" /\ FeedNext /\ UNCHANGED <<settingsVars, updateVars, restVars, cleanupVars, windowVars>>
       \/ part = "updates" /\ UpdatesNext /\ UNCHANGED <<settingsVars, feedVars, restVars, cleanupVars, windowVars>>
       \/ part = "rest" /\ RestNext /\ UNCHANGED <<settingsVars, feedVars, updateVars, cleanupVars, windowVars>>
       \/ part = "cleanup" /\ CleanupNext /\ UNCHANGED <<settingsVars, feedVars, updateVars, restVars, windowVars>>
       \/ part = "search" /\ SearchNext /\ UNCHANGED <<serviceVars, panelVars, activityVars>>
       \/ part = "panel" /\ PanelNext /\ UNCHANGED <<serviceVars, searchVars, activityVars>>
       \/ part = "activity" /\ ActivityNext /\ UNCHANGED <<serviceVars, searchVars, panelVars>>

Spec == Init /\ [][Next]_frontEndVars /\ RestFairness

----------------------------------------------------------------------------
\* One copy of the settings rules, and everyone goes by it: the services, but for a
\* crawler that cannot start, and what connected peers hold of what we share.
SettingsAreFollowed == ServicesFollow /\ PeersKnowOurSharing

\* The feed is one list for all: two nodes that met hold the same, and each holds
\* in its table what it shows.
FeedsAgree == FeedsMeet /\ StoredFollows

\* A caller of update.check never hears twice, and hears at last unless something
\* took the signal from it; what is installed is what a download made ready.
UpdatesAreSound == InstallsWhatIsStaged /\ CheckAnsweredOnce

\* The window shows what belongs together: one row for each torrent, marked as a
\* peer's only if it is; files, counts, image and button of the torrent that is
\* selected, however late the answers for another come; and each piece of news once.
WindowIsTruthful == RowsAreTruthful /\ FilesAreOfTheOpened /\ PanelIsOfOneTorrent /\ NewsAddsUp
=============================================================================
