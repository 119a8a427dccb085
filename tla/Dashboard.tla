----------------------------- MODULE Dashboard -----------------------------
(***************************************************************************)
(* The tabs that show scans: the scanner view (ScanEngine.tsx), the vault  *)
(* of reports (ReportsView.tsx) and the application that routes between    *)
(* them and keeps the reports (App.tsx), on top of ScanClient.  A report,  *)
(* an error or a line of progress is represented by the launch it is of.   *)
(* The updates a handler makes are rendered together before the next one   *)
(* runs, as React batches them.                                            *)
(***************************************************************************)
EXTENDS ScanClient, Sequences, FiniteSets

VARIABLES
  tab,       \* the tab on screen
  mine,      \* launches of the scanner view that is mounted now
  scanning,  \* its flag: a launch is under way
  shown,     \* its report, 0 for none
  error,     \* its message, 0 for none
  progress,  \* its line of progress, 0 for the empty one
  door,      \* the report its probe drawer was opened from, 0 for none
  reports,   \* the vault, newest first
  sel,       \* the report selected in the vault view, 0 for none
  download   \* the report exported last, 0 for none

viewVars == <<mine, scanning, shown, error, progress, door>>
vars == <<clientVars, viewVars, tab, reports, sel, download>>

Tabs == {"scanner", "reports", "elsewhere"}
NoTarget == MaxLaunches + 1  \* the complaint about an empty list of targets

---------------------------------------------------------------------------
(* The scanner view. *)

NextIdle(l) == \A k \in Launches : At(k, "idle") <=> k >= l

Reset(l) ==
  /\ shown' = 0
  /\ error' = 0
  /\ door' = 0
  /\ progress' = l

(* Broken: what the last launch left on screen is not cleared.             *)
StaleLaunch(l) ==
  /\ tab = "scanner" /\ ~ scanning
  /\ NextIdle(l) /\ Begin(l)
  /\ mine' = mine \union {l}
  /\ scanning' = TRUE
  /\ progress' = l
  /\ UNCHANGED <<tab, shown, error, door, reports, sel, download>>

(* Broken: the button can be pressed while a scan is under way.            *)
EagerLaunch(l) ==
  /\ tab = "scanner"
  /\ NextIdle(l) /\ Begin(l)
  /\ mine' = mine \union {l}
  /\ scanning' = TRUE
  /\ Reset(l)
  /\ UNCHANGED <<tab, reports, sel, download>>

(* Broken: the line of progress of the last launch stays.                  *)
QuietLaunch(l) ==
  /\ tab = "scanner" /\ ~ scanning
  /\ NextIdle(l) /\ Begin(l)
  /\ mine' = mine \union {l}
  /\ scanning' = TRUE
  /\ shown' = 0 /\ error' = 0 /\ door' = 0
  /\ UNCHANGED <<tab, progress, reports, sel, download>>

(* The button is disabled while the view is scanning; a view mounted anew  *)
(* knows nothing of launches before it.                                    *)
Launch(l) ==
  /\ tab = "scanner" /\ ~ scanning
  /\ NextIdle(l) /\ Begin(l)
  /\ mine' = mine \union {l}
  /\ scanning' = TRUE
  /\ Reset(l)
  /\ UNCHANGED <<tab, reports, sel, download>>

LaunchNothing ==
  /\ tab = "scanner" /\ ~ scanning
  /\ error' = NoTarget
  /\ UNCHANGED <<clientVars, tab, mine, scanning, shown, progress, door, reports, sel, download>>

Continue(l) ==
  /\ CallStep(l)
  /\ call'[l] # "settled"
  /\ UNCHANGED <<viewVars, tab, reports, sel, download>>

(* Broken: the vault is rebuilt from the launches before this one, as the  *)
(* view that launched it knew them.                                        *)
StaleKeep(l) == reports' = <<l>> \o SelectSeq(reports, LAMBDA k : k < l)

(* onScanComplete runs also when the view that launched is gone.           *)
Keep(l) == reports' = <<l>> \o reports

Resolve(l) ==
  /\ CallStep(l)
  /\ outcome'[l] \in Reports
  /\ Keep(l)
  /\ IF l \in mine
     THEN shown' = l /\ progress' = l /\ scanning' = FALSE
     ELSE UNCHANGED <<shown, progress, scanning>>
  /\ UNCHANGED <<tab, mine, error, door, sel, download>>

Reject(l) ==
  /\ CallStep(l)
  /\ outcome'[l] \in Errors
  /\ IF l \in mine
     THEN error' = l /\ progress' = 0 /\ scanning' = FALSE
     ELSE UNCHANGED <<error, progress, scanning>>
  /\ UNCHANGED <<tab, mine, shown, door, reports, sel, download>>

(* The callback of any launch of this view, also of one that has settled.  *)
Telemetry(l) ==
  /\ Reporting(l)
  /\ l \in mine
  /\ progress' = l
  /\ UNCHANGED <<clientVars, tab, mine, scanning, shown, error, door, reports, sel, download>>

InspectDoor ==
  /\ tab = "scanner" /\ shown # 0
  /\ door' = shown
  /\ UNCHANGED <<clientVars, tab, mine, scanning, shown, error, progress, reports, sel, download>>

CloseDoor ==
  /\ door # 0
  /\ door' = 0
  /\ UNCHANGED <<clientVars, tab, mine, scanning, shown, error, progress, reports, sel, download>>

(* A sample cannot be exported here.                                       *)
ScanExport ==
  /\ tab = "scanner" /\ shown # 0 /\ outcome[shown] # "sample"
  /\ download' = shown
  /\ UNCHANGED <<clientVars, viewVars, tab, reports, sel>>

(* What the column of results displays.                                    *)
Panels ==
  {p \in {"progress", "error", "results", "ready"} :
     \/ p = "progress" /\ scanning
     \/ p = "error" /\ error # 0
     \/ p = "results" /\ shown # 0
     \/ p = "ready" /\ shown = 0 /\ ~ scanning /\ error = 0}

---------------------------------------------------------------------------
(* The vault and the router. *)

(* Opening a tab unmounts the view on screen: its state is gone, its calls *)
(* go on.  The vault view starts with the newest report selected.          *)
OpenTab(t) ==
  /\ t # tab
  /\ tab' = t
  /\ mine' = {} /\ scanning' = FALSE
  /\ shown' = 0 /\ error' = 0 /\ door' = 0 /\ progress' = 0
  /\ sel' = IF t = "reports" /\ reports # <<>> THEN Head(reports) ELSE 0
  /\ UNCHANGED <<clientVars, reports, download>>

Select ==
  /\ tab = "reports"
  /\ \E i \in 1..Len(reports) : sel' = reports[i]
  /\ UNCHANGED <<clientVars, viewVars, tab, reports, download>>

(* The selection survives, out of sight until the next report comes.       *)
ClearReports ==
  /\ tab = "reports" /\ reports # <<>>
  /\ reports' = <<>>
  /\ UNCHANGED <<clientVars, viewVars, tab, sel, download>>

ActiveReport == IF sel # 0 THEN sel ELSE Head(reports)

VaultExport ==
  /\ tab = "reports" /\ reports # <<>>
  /\ download' = ActiveReport
  /\ UNCHANGED <<clientVars, viewVars, tab, reports, sel>>

---------------------------------------------------------------------------
Outside(l) ==
  /\ SocketEnds(l) \/ JobStep(l)
  /\ UNCHANGED <<viewVars, tab, reports, sel, download>>

Init ==
  /\ ClientInit
  /\ tab = "elsewhere"
  /\ mine = {} /\ scanning = FALSE
  /\ shown = 0 /\ error = 0 /\ progress = 0 /\ door = 0
  /\ reports = <<>> /\ sel = 0 /\ download = 0

Next ==
  \/ \E l \in Launches :
       \/ Launch(l) \/ Continue(l) \/ Resolve(l) \/ Reject(l)
       \/ Telemetry(l) \/ Outside(l)
  \/ LaunchNothing \/ InspectDoor \/ CloseDoor \/ ScanExport
  \/ Select \/ ClearReports \/ VaultExport
  \/ \E t \in Tabs : OpenTab(t)

Spec == Init /\ [][Next]_vars

Ending(l) == Continue(l) \/ Resolve(l) \/ Reject(l)

(* The browser ends every request and every timer; nothing is assumed of   *)
(* the user, of the job or of the socket.                                  *)
FairSpec == Spec /\ \A l \in Launches : WF_vars(Ending(l))

---------------------------------------------------------------------------
(* Properties. *)

(* The types of the calls and of the views; polls stay within their bound. *)
TypeOK ==
  /\ ClientTypeOK
  /\ tab \in Tabs
  /\ mine \in SUBSET Launches
  /\ scanning \in BOOLEAN
  /\ shown \in Launches \union {0}
  /\ error \in 0..NoTarget
  /\ progress \in Launches \union {0}
  /\ door \in Launches \union {0}
  /\ reports \in Seq(Launches)
  /\ sel \in Launches \union {0}
  /\ download \in Launches \union {0}

Latest(l) == l \in mine /\ \A k \in mine : k <= l

(* Whatever launches of earlier mounts are still under way, the scanner    *)
(* view shows what became of its own latest launch and of no other: it     *)
(* says scanning exactly while that one is in flight, its report, its      *)
(* error and its probe drawer are that launch's.                           *)
ShownIsOwn ==
  /\ scanning <=> \E l \in mine : call[l] # "settled"
  /\ shown # 0 => Latest(shown) /\ outcome[shown] \in Reports
  /\ error \in Launches => Latest(error) /\ outcome[error] \in Errors
  /\ door # 0 => door = shown

(* The results column is never empty nor contradicts itself: one panel at  *)
(* a time, except that the complaint about missing targets may stand over  *)
(* the results of the last scan.                                           *)
OnePanel ==
  \/ Cardinality(Panels) = 1
  \/ error = NoTarget /\ Panels = {"error", "results"}

(* While a scan is under way its line of progress is its own, unless the   *)
(* telemetry socket of an earlier launch, which nobody closes, wrote it.   *)
ProgressIsCurrent ==
  scanning => progress # 0 /\ (Latest(progress) \/ socket[progress] # "none")

(* Reports reach the vault as promised, whichever tab is open when a scan  *)
(* ends and however many are under way: a refinement.                      *)
Phase(l) ==
  CASE call[l] = "idle" -> "idle"
    [] call[l] = "settled" -> IF outcome[l] \in Reports THEN "report" ELSE "error"
    [] OTHER -> "pending"

Promise == INSTANCE ScanPromise WITH
  phase <- [l \in Launches |-> Phase(l)],
  vault <- reports

ImplementsPromise == Promise!Spec

(* Every launch comes to an end, whatever the server does with its job.    *)
LaunchEnds == \A l \in Launches : At(l, "health") ~> At(l, "settled")

(* What the README says of the simulation mode: its reports cannot be      *)
(* exported.  The scanner view sees to it, the vault view does not.        *)
SampleNeverExported == download # 0 => outcome[download] # "sample"

=============================================================================
