------------------------------ MODULE Console ------------------------------
(***************************************************************************)
(* The tabs of App.tsx that do not launch scans: overview, log analyzer,   *)
(* alerts, applications, radar and settings.  One is mounted at a time;    *)
(* opening another discards the state of the first, while its requests go  *)
(* on.                                                                     *)
(***************************************************************************)
EXTENDS LogView, AlertsView, ConnectionsView, AppsView, RadarView, SettingsView

CONSTANT Journeys  \* bound on the tabs one behaviour visits; {Tabs} is none

VARIABLES
  tab,     \* the tab on screen
  journey  \* the tabs this behaviour visits

consoleVars ==
  <<logVars, alertVars, connectionVars, appsVars, radarVars, settingsVars, tab, journey>>

Tabs == {"overview", "logs", "alerts", "apps", "radar", "settings"}

ASSUME JourneysAssumption == \A j \in Journeys : "overview" \in j /\ j \subseteq Tabs

(* An action of one view leaves the others alone.                          *)
Stay == UNCHANGED <<tab, journey>>
InLogs == tab = "logs" /\ Stay
  /\ UNCHANGED <<alertVars, connectionVars, appsVars, radarVars, settingsVars>>
InAlerts == tab = "alerts" /\ Stay
  /\ UNCHANGED <<logVars, connectionVars, appsVars, radarVars, settingsVars>>
InOverview == tab = "overview" /\ Stay
  /\ UNCHANGED <<logVars, alertVars, appsVars, radarVars, settingsVars>>
InApps == tab = "apps" /\ Stay
  /\ UNCHANGED <<logVars, alertVars, connectionVars, radarVars, settingsVars>>
InRadar == tab = "radar" /\ Stay
  /\ UNCHANGED <<logVars, alertVars, connectionVars, appsVars, settingsVars>>
InSettings == tab = "settings" /\ Stay
  /\ UNCHANGED <<logVars, alertVars, connectionVars, appsVars, radarVars>>

Leave ==
  /\ IF tab = "logs" THEN LogUnmount ELSE UNCHANGED logVars
  /\ IF tab = "overview" THEN ConnectionsUnmount ELSE UNCHANGED connectionVars
  /\ IF tab = "settings" THEN SettingsUnmount ELSE UNCHANGED settingsVars

(* The application unmounts one view and mounts another.                   *)
Navigate(t) ==
  /\ t \in journey \ {tab}
  /\ tab' = t
  /\ UNCHANGED journey
  /\ Leave
  /\ CASE tab = "alerts" -> AlertsUnmount
       [] t = "alerts" -> AlertsMount
       [] OTHER -> UNCHANGED alertVars
  /\ CASE tab = "apps" -> AppsUnmount
       [] t = "apps" -> AppsMount
       [] OTHER -> UNCHANGED appsVars
  /\ CASE tab = "radar" -> RadarUnmount
       [] t = "radar" -> RadarMount
       [] OTHER -> UNCHANGED radarVars

(* Requests left behind reach the API whatever tab is open.                *)
LeftBehind ==
  /\ \E i \in DOMAIN alertCalls : ~ alertCalls[i].here /\ ApiHandles(i)
  /\ Stay /\ UNCHANGED <<logVars, connectionVars, appsVars, radarVars, settingsVars>>

(* The API may be restarted whatever tab is open; the sets of the alerts   *)
(* are all it keeps that these tabs see.                                   *)
Restart ==
  /\ ApiRestarts
  /\ Stay /\ UNCHANGED <<logVars, connectionVars, appsVars, radarVars, settingsVars>>

(* Reports matter to behaviours that visit the radar.                      *)
Init ==
  /\ tab = "overview"
  /\ journey \in Journeys
  /\ LogInit /\ AlertsInit /\ ConnectionsInit /\ AppsInit /\ RadarInit /\ SettingsInit
  /\ hosts # {} => "radar" \in journey

(* The inspector of a connection leads to the applications, the modal of   *)
(* an alert to the logs.                                                   *)
Next ==
  \/ InLogs /\ LogNext
  \/ InAlerts /\ (AlertsUser \/ AlertsNetwork)
  \/ InOverview /\ ConnectionsNext
  \/ InApps /\ AppsNext
  \/ InRadar /\ RadarNext
  \/ InSettings /\ SettingsNext
  \/ LeftBehind
  \/ Restart
  \/ \E t \in Tabs : Navigate(t)

(* The browser ends every request and fires every timer.                   *)
Spec ==
  /\ Init /\ [][Next]_consoleVars
  /\ WF_consoleVars(InAlerts /\ LoadProgress)
  /\ WF_consoleVars(InRadar /\ SweepAnswered)
  /\ WF_consoleVars(InApps /\ ToastTimer)
  /\ WF_consoleVars(InSettings /\ BannerTimer)

---------------------------------------------------------------------------
(* Properties. *)

(* While its tab stays open a view takes only steps of the kind named.     *)
Staying(view) == tab = view /\ tab' = view

(* Steps of the log analyzer lose real events only as RealLogsSurvive says *)
(* (LogParser.tsx).                                                        *)
RealLogsKept == [][Staying("logs") => RealLogsSurvive]_consoleVars

(* Ingestions land whole, see IngestLands (LogParser.tsx, handleIngest).   *)
IngestsKept == [][Staying("logs") => IngestLands]_consoleVars

(* Blocked connections stay blocked, see BlockSticks (Overview.tsx).       *)
BlocksKept == [][Staying("overview") => BlockSticks]_consoleVars

(* Effects clean up after themselves: one demo timer while the demo runs   *)
(* (OneTimer), one drawing loop while the radar is open (OneBeam).         *)
OneLoopEach == OneTimer /\ OneBeam(tab = "radar")

(* Every refresh of the alerts, toast of the applications, banner of the   *)
(* settings and sweep of the radar comes to an end, the refresh whether it *)
(* is answered, empty or fails, and whatever else the user does meanwhile  *)
(* (AlertsView.tsx, AllAppsView.tsx, GlobalSettingsView.tsx,               *)
(* ThreatRadar.tsx); a tab just opened shows neither toast nor banner.     *)
Transient == (tab = "alerts" /\ loading) \/ toast \/ savedBanner \/ sweeping
TransientsEnd == Transient ~> ~ Transient

=============================================================================
