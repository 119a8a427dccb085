---------------------------- MODULE ScanService ----------------------------
(***************************************************************************)
(* The scan job service of the API process: api/services.py (ScanService), *)
(* its two stores in api/storage.py, and the lifespan hooks of api/main.py *)
(* that start and stop it.                                                 *)
(*                                                                         *)
(* The service is one asyncio program.  No storage method suspends and the *)
(* lock of submit is never contended, so what lies between two suspension  *)
(* points of a handler or of a job's task is one action here.  A job is    *)
(* named by the rank of its creation.                                      *)
(*                                                                         *)
(* A job lives in three places that can disagree: the row of the store,    *)
(* the ScanJob object its task updates, and the entry of the registry      *)
(* (ScanService._jobs), which is that object or a copy rebuilt from a row. *)
(***************************************************************************)
EXTENDS Naturals, FiniteSets

CONSTANTS
  MaxJobs,        \* bound: jobs submitted in a behaviour
  MaxConcurrent,  \* Settings.max_concurrent_scans
  HistorySize,    \* Settings.scan_history_size
  Persistent,     \* TRUE: SQLiteScanStorage, FALSE: InMemoryScanStorage
  Faults          \* the faults a behaviour may meet

ASSUME BoundAssumption == MaxJobs \in Nat
ASSUME LimitAssumption == MaxConcurrent \in Nat \ {0} /\ HistorySize \in Nat \ {0}
ASSUME StoreAssumption == Persistent \in BOOLEAN
ASSUME FaultAssumption == Faults \subseteq {"error", "save", "kill"}

Jobs == 1..MaxJobs

Active == {"pending", "running"}
Terminal == {"completed", "failed", "cancelled"}
Status == Active \union Terminal

VARIABLES
  phase,      \* of the process: "up", "stopping", "closing" or "down"
  submitted,  \* how many jobs were ever created
  row,        \* job -> status last saved in the store, "none" without a row
  obj,        \* job -> status of the object its task updates, or "none"
  task,       \* job -> where its asyncio task stands
  cancelReq,  \* job -> a cancellation of its task was accepted
  registry,   \* job -> "absent", "live" (obj itself), or a copy's status
  cut         \* jobs whose run a fault cut short (history)

store == <<submitted, row>>
vars == <<phase, submitted, row, obj, task, cancelReq, registry, cut>>

(* A task before its first step, resolving targets, awaiting hosts, and    *)
(* winding its host tasks down after a cancellation or after an exception. *)
Running == {"new", "prep", "wait", "drain", "drainX"}
Live == {j \in Jobs : task[j] \in Running}

(* What a request reads through a registry, and which jobs it counts.      *)
Seen(reg, j) == IF reg[j] = "live" THEN obj[j] ELSE reg[j]
Counted(reg) == {j \in Jobs : Seen(reg, j) \in Active}

---------------------------------------------------------------------------
(* The store. *)

(* Broken: eviction that does not ask whether a job is active.             *)
FinishedOrNot == {j \in Jobs : row[j] # "none"}

Finished == {j \in Jobs : row[j] \in Terminal}

(* Broken: the youngest job is popped first.                               *)
YoungestFirst ==
  {j \in Finished : Cardinality({k \in Finished : k < j}) >= HistorySize}

(* delete_old: the memory store drops the oldest finished jobs, keeping    *)
(* HistorySize; the SQL selects ascending creation time past OFFSET keep.  *)
Surplus ==
  IF Persistent
  THEN {j \in Finished : Cardinality({k \in Finished : k < j}) >= HistorySize}
  ELSE {j \in Finished : Cardinality({k \in Finished : k > j}) >= HistorySize}

KeptRow == [j \in Jobs |-> IF j \in Surplus THEN "none" ELSE row[j]]

(* Broken: a store that rebuilds what it holds, also in memory.            *)
CopyingReload(reg, rows) ==
  [j \in Jobs |-> IF rows[j] = "none" THEN reg[j] ELSE rows[j]]

(* list_jobs gives back the objects the memory store holds; the SQLite     *)
(* store builds new ones, with the row's status and no task or subscriber. *)
Reload(reg, rows) ==
  [j \in Jobs |-> IF rows[j] = "none" THEN reg[j]
                  ELSE IF Persistent THEN rows[j] ELSE "live"]

(* save puts a status in the job's row; a failing database keeps the old.  *)
Save(j, status) == row' = [row EXCEPT ![j] = status] /\ UNCHANGED cut
SaveFails(j) ==
  /\ Persistent
  /\ "save" \in Faults
  /\ cut' = cut \union {j}
  /\ UNCHANGED row

---------------------------------------------------------------------------
(* Requests. *)

(* Broken: entries cleared to a value no reader expects, and a count that  *)
(* is refused only once the limit is exceeded.                             *)
Miscleared == Reload([j \in Jobs |-> "none"], KeptRow)
LateBusy ==
  Cardinality(Counted(Reload([j \in Jobs |-> "absent"], KeptRow))) > MaxConcurrent

(* submit under its lock: evict, rebuild the registry, count, then refuse  *)
(* or create the job, save it and start its task.                          *)
Evicted == Reload([j \in Jobs |-> "absent"], KeptRow)
Busy == Cardinality(Counted(Evicted)) >= MaxConcurrent

Create(j) ==
  /\ phase = "up"
  /\ ~ Busy
  /\ j = submitted + 1
  /\ submitted' = j
  /\ obj' = [obj EXCEPT ![j] = "pending"]
  /\ registry' = [Evicted EXCEPT ![j] = "live"]
  /\ UNCHANGED <<phase, cancelReq>>

Submit(j) ==
  /\ Create(j)
  /\ row' = [KeptRow EXCEPT ![j] = "pending"]
  /\ task' = [task EXCEPT ![j] = "new"]
  /\ UNCHANGED cut

(* The save raises: the job stays in the registry and never gets a task.   *)
SubmitUnsaved(j) ==
  /\ Persistent
  /\ "save" \in Faults
  /\ Create(j)
  /\ row' = KeptRow
  /\ cut' = cut \union {j}
  /\ UNCHANGED task

SubmitBusy ==
  /\ phase = "up"
  /\ Busy
  /\ row' = KeptRow
  /\ registry' = Evicted
  /\ UNCHANGED <<phase, submitted, obj, task, cancelReq, cut>>

(* list_jobs, of GET /api/v1/scans: overwrites entries, removes none.      *)
List ==
  /\ phase = "up"
  /\ registry' = Reload(registry, row)
  /\ UNCHANGED <<phase, store, obj, task, cancelReq, cut>>

(* cancel, of DELETE /api/v1/scans/{id}, answering TRUE.  A client learns  *)
(* an id from a response, by when the task took its first step.            *)
Cancellable(j) ==
  /\ registry[j] = "live"
  /\ obj[j] \in Active
  /\ task[j] \in Running \ {"new"}

Cancel(j) ==
  /\ phase = "up"
  /\ Cancellable(j)
  /\ cancelReq' = [cancelReq EXCEPT ![j] = TRUE]
  /\ UNCHANGED <<phase, store, obj, task, registry, cut>>

---------------------------------------------------------------------------
(* The task of a job: _run, driving AsyncServiceScanner.stream_hosts.      *)

Goes(j, from, to) ==
  /\ phase # "down"
  /\ task[j] = from
  /\ task' = [task EXCEPT ![j] = to]
  /\ UNCHANGED <<phase, submitted, cancelReq, registry>>

(* First step: RUNNING, saved, then targets are resolved in a thread.      *)
TaskStart(j) ==
  /\ obj' = [obj EXCEPT ![j] = "running"]
  /\ \/ Goes(j, "new", "prep") /\ Save(j, "running")
     \/ Goes(j, "new", "done") /\ SaveFails(j)

(* Broken: the verdict is not saved.                                       *)
UnsavedSettle(j, from, status) ==
  /\ Goes(j, from, "done")
  /\ obj' = [obj EXCEPT ![j] = status]
  /\ UNCHANGED <<row, cut>>

(* The last step: the status is set before it is saved, and an exception   *)
(* of the save escapes the task.                                           *)
Settle(j, from, status) ==
  /\ Goes(j, from, "done")
  /\ obj' = [obj EXCEPT ![j] = status]
  /\ Save(j, status) \/ SaveFails(j)

PrepareDone(j) ==
  /\ ~ cancelReq[j]
  /\ Goes(j, "prep", "wait")
  /\ UNCHANGED <<row, obj, cut>>

PrepareFails(j) ==
  /\ ~ cancelReq[j]
  /\ Settle(j, "prep", "failed")

(* Broken: the last host's result overtakes a cancellation.                *)
DeafComplete(j) == Settle(j, "wait", "completed")

Complete(j) ==
  /\ ~ cancelReq[j]
  /\ Settle(j, "wait", "completed")

(* A pending cancellation is thrown at the next resume: in prep it reaches *)
(* the handler at once, while hosts are awaited the generator first winds  *)
(* them down.                                                              *)
CancelInPrep(j) ==
  /\ cancelReq[j]
  /\ Settle(j, "prep", "cancelled")

(* Broken: only a task still in the registry honours its cancellation.     *)
RegisteredUnwind(j) ==
  /\ cancelReq[j] /\ registry[j] = "live"
  /\ Goes(j, "wait", "drain")
  /\ UNCHANGED <<row, obj, cut>>

Unwind(j) ==
  /\ cancelReq[j]
  /\ Goes(j, "wait", "drain")
  /\ UNCHANGED <<row, obj, cut>>

(* Broken: the generic handler takes the cancellation for a failure.       *)
DrainedAsFailed(j) == Settle(j, "drain", "failed")

Drained(j) == Settle(j, "drain", "cancelled")

(* An exception _run does not catch: of a host's result, which lets the    *)
(* generator wind down and swallow a cancellation, or of the report.       *)
HostError(j) ==
  /\ "error" \in Faults
  /\ ~ cancelReq[j]
  /\ Goes(j, "wait", "drainX")
  /\ UNCHANGED <<row, obj, cut>>

Escape(j) ==
  /\ \/ Goes(j, "drainX", "done")
     \/ "error" \in Faults /\ ~ cancelReq[j] /\ Goes(j, "wait", "done")
  /\ cut' = cut \union {j}
  /\ UNCHANGED <<row, obj>>

TaskStep(j) ==
  \/ TaskStart(j)
  \/ PrepareDone(j)
  \/ PrepareFails(j)
  \/ Complete(j)
  \/ CancelInPrep(j)
  \/ Unwind(j)
  \/ Drained(j)
  \/ HostError(j)
  \/ Escape(j)

---------------------------------------------------------------------------
(* The process. *)

Owned == {j \in Live : registry[j] = "live"}

(* shutdown cancels and awaits the tasks it finds in the registry.  The    *)
(* server calls it once its last request was answered.                     *)
ShutdownBegin ==
  /\ phase = "up"
  /\ \A j \in Jobs : task[j] # "new"
  /\ phase' = "stopping"
  /\ cancelReq' = [j \in Jobs |-> cancelReq[j] \/ j \in Owned]
  /\ UNCHANGED <<store, obj, task, registry, cut>>

(* Broken: shutdown cancels its tasks and does not await them.             *)
HastyShutdownEnd ==
  /\ phase = "stopping"
  /\ phase' = "closing"
  /\ cancelReq' = [j \in Jobs |-> cancelReq[j] \/ j \in Live]
  /\ UNCHANGED <<store, obj, task, registry, cut>>

(* Its tasks are over and the store is closed; the event loop's own        *)
(* teardown then cancels the tasks that are left (save reopens the file).  *)
ShutdownEnd ==
  /\ phase = "stopping"
  /\ Owned = {}
  /\ phase' = "closing"
  /\ cancelReq' = [j \in Jobs |-> cancelReq[j] \/ j \in Live]
  /\ UNCHANGED <<store, obj, task, registry, cut>>

(* What the end of the process takes with it. *)
ProcessEnds ==
  /\ phase' = "down"
  /\ row' = IF Persistent THEN row ELSE [j \in Jobs |-> "none"]
  /\ obj' = [j \in Jobs |-> "none"]
  /\ task' = [j \in Jobs |-> "none"]
  /\ cancelReq' = [j \in Jobs |-> FALSE]
  /\ registry' = [j \in Jobs |-> "absent"]
  /\ UNCHANGED submitted

Exit ==
  /\ phase = "closing"
  /\ Live = {}
  /\ ProcessEnds
  /\ UNCHANGED cut

Kill ==
  /\ "kill" \in Faults
  /\ phase # "down"
  /\ ProcessEnds
  /\ cut' = cut \union Live

(* A new process: the lifespan hook calls initialize before any request.   *)
Boot ==
  /\ phase = "down"
  /\ phase' = "up"
  /\ registry' = Reload(registry, row)
  /\ UNCHANGED <<store, obj, task, cancelReq, cut>>

---------------------------------------------------------------------------
Init ==
  /\ phase = "up"
  /\ submitted = 0
  /\ row = [j \in Jobs |-> "none"]
  /\ obj = [j \in Jobs |-> "none"]
  /\ task = [j \in Jobs |-> "none"]
  /\ cancelReq = [j \in Jobs |-> FALSE]
  /\ registry = [j \in Jobs |-> "absent"]
  /\ cut = {}

Next ==
  \/ \E j \in Jobs : Submit(j) \/ SubmitUnsaved(j) \/ Cancel(j) \/ TaskStep(j)
  \/ SubmitBusy
  \/ List
  \/ ShutdownBegin
  \/ ShutdownEnd
  \/ Exit
  \/ Kill
  \/ Boot

Spec == Init /\ [][Next]_vars

(* The event loop runs every ready task, target resolution and probes end  *)
(* by their deadlines, and a server asked to stop goes on stopping.        *)
Fairness ==
  /\ \A j \in Jobs : WF_vars(TaskStep(j))
  /\ WF_vars(ShutdownEnd)
  /\ WF_vars(Exit)

FairSpec == Spec /\ Fairness

---------------------------------------------------------------------------
(* Properties. *)

TypeOK ==
  /\ phase \in {"up", "stopping", "closing", "down"}
  /\ submitted \in 0..MaxJobs
  /\ row \in [Jobs -> Status \union {"none"}]
  /\ obj \in [Jobs -> Status \union {"none"}]
  /\ task \in [Jobs -> Running \union {"none", "done"}]
  /\ cancelReq \in [Jobs -> BOOLEAN]
  /\ registry \in [Jobs -> Status \union {"absent", "live"}]
  /\ cut \subseteq Jobs

(* No more scans run at once than max_concurrent_scans, although submit    *)
(* counts registry entries, which evictions rebuild, and not tasks.        *)
LiveWithinLimit == Cardinality(Live) <= MaxConcurrent

(* While the process serves, a job on record as active has a task at work, *)
(* so every slot comes free again, unless a fault cut its run short.       *)
SlotsAreBacked ==
  phase = "up" => \A j \in Jobs : row[j] \in Active => j \in Live \union cut

(* An accepted cancellation is never overtaken by a verdict of the scan:   *)
(* the object, its row and what a poll reads never say completed or failed.*)
CancelIsFinal ==
  \A j \in Jobs : cancelReq[j] =>
    {obj[j], row[j], Seen(registry, j)} \cap {"completed", "failed"} = {}

(* The service owns its running jobs: each is found in the registry as the *)
(* very object its task updates, so it can be polled, cancelled, streamed. *)
OwnsLiveTasks == \A j \in Live : registry[j] = "live"

(* submit refuses only while MaxConcurrent scans really run.               *)
RefusesOnlyWhenFull ==
  phase = "up" /\ Busy => Cardinality(Live) >= MaxConcurrent

(* Once shutdown awaited its tasks, no job it owned is left without a      *)
(* verdict on record, unless a fault cut it short.                         *)
ShutdownSettles ==
  phase = "closing" =>
    \A j \in Jobs : registry[j] = "live" => row[j] \in Terminal \/ j \in cut

(* A status on record only moves forward, and a verdict only disappears.   *)
RecordMovesForward ==
  [][\A j \in Jobs :
       \/ row'[j] = row[j]
       \/ row[j] = "none" /\ row'[j] = "pending" /\ j > submitted
       \/ row[j] = "pending" /\ row'[j] = "running"
       \/ row[j] \in Active /\ row'[j] \in Terminal
       \/ row[j] \in Terminal /\ row'[j] = "none"
       \/ row'[j] = "none" /\ phase' = "down"]_vars

(* Eviction never drops a finished job and keeps an older one.             *)
EvictsOldestFirst ==
  [][\A old, new \in Finished :
       old < new /\ row'[new] = "none" => row'[old] = "none"]_vars

(* The memory store implements the promised history. *)
History == INSTANCE ScanHistory WITH
  life <- [j \in Jobs |-> IF j > submitted THEN "unborn"
                          ELSE IF row[j] = "none" THEN "forgotten" ELSE row[j]]
ImplementsHistory == History!Spec

(* A client that polls an accepted scan reads its verdict in the end, or   *)
(* the scan left the history, was cut short, or the server went down.      *)
ResultsPollable ==
  \A j \in Jobs :
    j <= submitted /\ registry[j] # "absent" ~>
      \/ Seen(registry, j) \in Terminal
      \/ registry[j] = "absent"
      \/ phase # "up"
      \/ j \in cut

(* An accepted cancellation ends the scan's task, and the record says      *)
(* cancelled unless a fault intervened.                                    *)
CancelTakesEffect ==
  \A j \in Jobs :
    cancelReq[j] ~> task[j] \notin Running /\ (row[j] \in {"cancelled", "none"} \/ j \in cut)

(* A server asked to stop gets down, also with tasks it no longer owns.    *)
ShutdownCompletes == phase = "stopping" ~> phase = "down"

=============================================================================
