# SentryWatch in TLA+

Specifications of the stateful parts of SentryWatch: the scan job service of the
API process with its two stores, the telemetry of a scan, the concurrent port
scanner, the browser's side of a scan, and the views of the web application with
the parts of the API they talk to. Paths below are relative to the repository's
root.

## 1. The system

| Component | State | Operations | Talks to |
| --- | --- | --- | --- |
| Scan job service (`api/services.py`, `api/types.py`, `_lifespan` of `api/main.py`) | registry `_jobs`, per job: object with status, hosts, report, task, subscribers | `initialize`, `submit`, `list_jobs`, `get`, `cancel`, `subscribe`, `unsubscribe`, `_run`, `_broadcast`, `shutdown` | stores (calls), scanner (async generator), WebSocket handlers (queues) |
| Stores (`api/storage.py`) | the objects themselves (memory) or a row per job (SQLite) | `init`, `save`, `list_jobs`, `delete_old`, `close` | called by the service only |
| Telemetry WebSocket (`api/routes/telemetry.py`) | connection times per address; per socket: queue, position in replay, getter task | rate limit, connect, accept, replay, relay, heartbeat, leave | service, browser |
| Scanner (`core/scanner.py`) | semaphore, a task per host, a task per probe | `_prepare`, `stream_hosts`, `_scan_host`, `_probe`, `scan` | target screening (thread), sockets |
| Scan routes (`api/routes/scans.py`) | none | POST, GET, DELETE of scans | service |
| Target screening (`core/security.py`), schemas (`core/schemas.py`) | none | `prepare_targets`, `parse_port_spec`, validators | resolver |
| Log parser (`core/parser.py`, `api/routes/logs.py`) and its stand-in in the browser (`parseLine`) | statistics of one parser | `feed_line`, `parse_lines` | log analyzer |
| Alerts (`api/routes/alerts.py`) | acknowledged ids, blocked addresses | list, acknowledge all, block | alerts view, system inspection |
| System inspection, health (`api/routes/system.py`, `health.py`) | none | read `/proc`, ping Redis | views |
| Auth, HTTP rate limit, settings | none of their own | request filters | - |
| Browser client (`src/services/api.ts`) | one poll loop and one socket per scan, `activeWs`, API key | submit, poll, stream, simulate; one request per operation of the views | API, views |
| Views (`src/App.tsx`, `src/components/`) | reports, tab; per view: lists, selections, flags, timers | see section 2 | browser client |
| Desktop shell (`src-tauri/`) | child handle under a mutex | start, stop, ask | API process |
| Command line (`cli/`) | none | one scan, four output formats | scanner |

How they interact. A request that submits a scan goes through the routes to
`submit`, which evicts, rebuilds the registry from the store, counts, saves and
starts a task. The task drives the scanner's generator; each host it yields is
appended to the job and put in the queue of every subscribed socket; its end is
a verdict on the object, saved and broadcast. Polling reads the registry,
cancelling cancels the task found there, and a socket subscribes on the object
found there. All of this is one asyncio event loop: no storage method suspends
and `submit`'s lock is never contended, so the races are between the
suspension points of tasks and handlers, not between threads.

In the browser the scanner view calls `submitScan`, which opens the socket and
polls, and calls back the view that launched it, mounted or not; the report goes to
the application, which keeps it for the vault and the radar. Every other view asks
the API by itself when it is mounted or a button is pressed. One view is mounted at
a time; a view that is left loses its state, its requests and timers go on unless its
effects clean them up. The races are between a handler's `await` and everything the
user does meanwhile.

What is hard, and what makes each part correct:

- *Service*: a job exists as a row, as the object its task updates, and as a
  registry entry, and these drift apart through eviction, failing saves and
  restarts. Correct: never more scans than `max_concurrent_scans`; a slot in use
  has a task at work; a cancellation accepted is final; records move forward;
  the history forgets oldest first; a client can learn every verdict; shutdown
  settles what it owns.
- *Telemetry*: subscription, handshake, snapshot and relay are separate steps
  while the job goes on; queues are bounded; connections are rationed. Correct: no
  gap and no reordering between replay and relay, verdicts last, streams end, the
  ration holds for every stretch of time.
- *Scanner*: cancellation can hit a probe anywhere, also between being handed a
  permit and running. Correct: permits and wake-ups are conserved, results are
  complete, nothing outlives the scan, the scan ends.
- *Browser client and scanner view*: the job moves on between polls, answers are
  refused or lost, failures may turn into samples, launches outlive the view.
  Correct: an outcome is true of its scan, the view shows its own latest launch,
  every report reaches the vault once, every launch ends.
- *Log analyzer, alerts, overview*: a late answer meets a list the user has changed.
  Correct: nothing the user did or was told is silently undone, one timer ticks at a
  time, spinners end, both parsers say the same of a line.
- *Applications, radar, settings*: timers and animation loops outlive what started
  them. Correct: toasts and banners end, one loop draws.

The full list of hazards, each at its line, is in `PROJECT.json`.

## 2. The modules

| Module | Models |
| --- | --- |
| `ScanService` | service, both stores, process start, stop and kill |
| `ScanHistory` | abstract: what the service promises of its history |
| `Telemetry` | one scan's task, its subscribers' queues, the socket handlers and their rate limit |
| `StreamPromise` | abstract: what a client is told of a scan, its queue overflowing or not |
| `Scanner` | one run of `stream_hosts`: hosts, probes, semaphore |
| `ScanClient` | `submitScan`: health check, submission, polls, socket, simulation, against the life of a job |
| `Dashboard` | scanner view, vault and router on top of `ScanClient` |
| `ScanPromise` | abstract: what the dashboard promises of a launch and its report |
| `LogRules` | the severity of a line, by the browser's parser and by the API's |
| `LogView` | the log analyzer |
| `AlertsView` | the alerts view, its requests in flight, the API's sets |
| `ConnectionsView`, `AppsView`, `RadarView`, `SettingsView` | connections of the overview, applications, radar, settings |
| `Console` | composes the views above: one is mounted, the others have no state |
| `Filter` | a list without some of its entries, in order: list comprehensions and `Array.filter` |
| `ScanServiceProofs`, `ScanHistoryProofs`, `ScanCancelProofs`, `TelemetryProofs`, `ScannerProofs`, `DashboardProofs`, `ConsoleProofs` | theorems, see section 5 |
| `FilterProofs` | lemmas about `Filter`, and induction over lists |
| `MCScanService`, `MCTelemetry`, `MCScanner`, `MCDashboard`, `MCConsole` | the instances TLC checks |

Definitions headed *Broken* are variants with a plausible bug. No specification
uses them; substituted for the definition below them, each makes TLC find a
violation of the property `PROJECT.json` pairs it with, which shows that the
property depends on that piece of code.

### ScanService

A job is the rank of its creation, standing for its UUID and its `created_at`
(the clock is taken to be monotonic between submissions). `row` is the store
(status last saved), `obj` the `ScanJob` object the task updates, `registry`
what `_jobs` maps the id to: the object (`"live"`), or a copy rebuilt from a
row, represented by the status it was built with. Over the memory store `list_jobs` hands back
the objects, over SQLite new ones without task, hosts and subscribers; that is
the only difference of `Reload`, and eviction order is that of `Surplus`.

`task` follows `_run` between suspension points: `new` (created, not started),
`prep` (targets resolved in a thread), `wait` (hosts awaited), `drain` (the
generator winding down after a cancellation), `drainX` (after an exception `_run`
does not catch), `done`. `cancelReq` is asyncio's pending cancellation. `cut` is a
history variable: the jobs whose run a fault cut short.

| Action | Code |
| --- | --- |
| `Submit`, `SubmitBusy`, `SubmitUnsaved` | `submit`: eviction and reload happen before the refusal, the registration before the save |
| `List` | `list_jobs`: overwrites entries, also of running jobs |
| `Cancel` | `cancel` answering true; a refused one changes nothing |
| `TaskStart`, `PrepareDone`, `PrepareFails`, `Complete`, `CancelInPrep`, `Unwind`, `Drained` | the steps of `_run` |
| `HostError`, `Escape` | an exception of a host's result or of `aggregate_report` |
| `ShutdownBegin`, `ShutdownEnd`, `Exit` | `shutdown`, then the event loop's teardown |
| `Kill`, `Boot` | end of the process without shutdown; `initialize` |

`Cancel` and `ShutdownBegin` exclude a task that has not taken its first step: a
client learns an id from a response and the server shuts down after its last
response, both of which the loop delivers after the step it scheduled earlier.
Faults are named in `Faults`: `error` (an unexpected exception), `save` (a failing
SQLite save), `kill`. Hosts and broadcasts are left to `Telemetry`.

### ScanHistory

One variable: each job is unborn, has its status on record, or is forgotten.
Accepting needs a free slot and trims; statuses go pending, running, verdict;
only finished jobs with `HistorySize` younger finished ones are trimmed; the
process may lose everything. `ScanService` over the memory store implements it,
by the mapping in its definition of `History`.

### Telemetry

One job, already running, over the memory store. `subs` and `queue` are
`job._subscribers`; `out` is what is left of the list `replay` built, `hand` the
event the getter task took. `Accept` is the end of the awaited handshake, so hosts
and the verdict can arrive between subscription and snapshot (they are then both
in replay and queue), and during the replay. `Leave` covers a disconnect and any
text the client sends, which the handler treats alike; before relaying, it leaves
the subscription behind. The gate in front is `_check_ws_rate_limit`: `recent` is
`_WS_RATE_LIMITER`, `Limited` a refused connection, `Denied` one that passed the
limit, was counted, and then failed authorization or named no scan. `got`, `dropped`,
`joined` and `passed` are history variables. Heartbeats carry no state and are left
out.

`StreamPromise` is what this amounts to for a client. The scan writes a log (its start,
the hosts as they complete, the verdict); a client is told the log from its start past
the point where it joined, then live again from that point on: in order, skipping
nothing unless an event was lost to this client, and nothing after the verdict. What
the invariant `NoGapNoReorder` says only of clients that lost nothing, this says of all
of them. The mapping puts a client (`Standing`) where its next event is in the log: the
event in its hand, or the first of its queue, or the end of the log; `lossy` are the
clients whose queue ever refused an event. `Accept` and `Fetch` are stuttering steps.

### Scanner

A probe waits for a permit (`ready`, `queued`), was handed one without having run
(`granted`), dials and reads under it (`connecting`, `connected`, `closing`), or backs
off outside it. `asyncio.Semaphore` is external and modelled by what it does: a
release hands its permit to some waiter, else frees it. The choice of waiter is
left open, which includes the library's order. Cancelling the generator cancels
the hosts not done and through `gather` their probes; a `gather` that already failed
cancels nobody. `Crashes` allows exceptions `_probe` does not expect.

### ScanClient, Dashboard, ScanPromise

A launch is one call of `submitScan`. `call` says where it stands between its
`await`s: health check, submission, waiting for the next poll, polling, simulating.
`job` is the scan at the server, reduced to the order of its statuses (`ScanService`
has the detail, and its lagging answers are the polls that bring nothing). Every
request may be answered, be refused or be lost; `PollAnswered` knows completed and
failed and takes any other status for a reason to go on, as the loop in
`api.ts` does; `Fail` is the fallback to a sample on a page opened with
`?simulate=true`. `socket` is the telemetry socket of the launch: `activeWs` holds the
last only, and since nothing ever closes the earlier ones, they live on.

`Dashboard` adds the view's `useState`s: `mine` are the launches of the view mounted
now, `shown`, `error`, `progress`, `door` name the launch whose report, message, line of
progress and probe drawer are on screen. `Resolve` and `Reject` are the two ends of the
handler's `await`; they run also when the view that launched is gone, and then only
the application's `onScanComplete` has an effect. `Telemetry` is the callback of any
socket of a launch of this view. `OpenTab` is the router: it discards the view's state.
`Select`, `ClearReports`, `VaultExport` are the vault. `ScanPromise` has one variable per
launch and the vault: a launch settles once and its report enters the vault in that
step; `Promise` in `Dashboard` is the mapping.

### LogRules and LogView

A line is the pattern that matches it and the parts severities come from; matching
itself is not modelled. `parseLine` and `feed_line` are the two tables. In `LogView`
an event remembers its line, its severity, who parsed it and whether it is a demo
event. Texts are lists of lines (`Texts`), whether pasted or sent by the host; one
request lands them all. `logCalls` are requests under way; `Loaded` and `Ingested` are the ends of the
two handlers and meet the list as it is by then. `timers` counts the intervals that
tick and `TimersAfter` is the effect on `[isSimulating, speed]`, cleanup first.

### AlertsView

`alertCalls` are the requests, each with the list its handler was rendered with
(`held`), because the handlers write that list back: `BlockAnswered` and
`AcknowledgeAnswered` undo in the view what happened in between. `ApiHandles` is the
API taking the request, `Answered` the handler going on, with or without an answer.
`acked` and `blocked` are the module-level sets of `api/routes/alerts.py`. Every request
inspects the host anew and finds any part of `Exposed` (`found`): processes come and
go, and an inspection that raises keeps what it had. Acknowledge-all therefore records
what it finds at that moment, which may be less than the list on screen.
`ApiRestarts` forgets both sets. `undone` is a history variable: what the handlers of the
mounted view took for done (`Asked`) and the API has not done, because the request was
lost, the inspection missed it or a restart forgot it; an id or address leaves it as
soon as the API does have it.

### ConnectionsView, AppsView, RadarView, SettingsView

The overview's inspector holds a copy of a connection; `Reloaded` is the timer that
prepends one and trims. `AppsView` counts the toast timers still running, which
nothing clears. In `RadarView`, `loops` counts animation loops that go on requesting
frames, and `Restarted` is the effect that cancels one and starts one whenever what is
drawn changes. `SettingsView` keeps resolvers, switches and the banner.

### Console

`tab` is the mounted view; `Navigate` is leaving one view and mounting another, with
the effects of both. Requests of the alerts view that were sent before it was left
still reach the API (`LeftBehind`), and the API may restart, whatever tab is open
(`Restart`). The views share no state; `Dashboard` is checked
by itself because the state it shares with the radar is only the set of reports
(`ReportArrives`).

## 3. The runs

| Run | Instance | Shows |
| --- | --- | --- |
| `service_memory` | 4 jobs, limit 2, history 1, memory, `error` and `kill` | types, slots, ownership, eviction order, refinement of `ScanHistory`, and that every accepted scan's verdict can be polled |
| `service_sqlite` | 3 jobs, limit 2, history 1, SQLite, all faults | the limit, slots, final cancellations, shutdown, forward-moving records; cancellations take effect and shutdown completes |
| `service_refusal_sqlite` | SQLite, `kill` | violated: refusals with nothing running after a restart |
| `service_poll_sqlite` | SQLite, no faults | violated: a poll that reads running for ever |
| `service_evict_sqlite` | SQLite, no faults | violated: the newest finished scan is evicted |
| `telemetry_fanout` | 2 sockets, 3 hosts, queues of 2, window of 2 with 1 connection, clock to 2 | replay and relay join exactly, refinement of `StreamPromise`, streams end, the rate limit holds |
| `telemetry_told` | 1 socket | violated: closed without the verdict |
| `telemetry_end` | 1 socket, queue of 1 | violated: a dropped verdict leaves the stream open |
| `scanner` | 2 hosts, 2 ports, 2 permits, 1 retry, crashes | permits and wake-ups conserved, complete results, nothing outlives the scan, the scan ends |
| `client_scans` | 2 launches, 2 polls each | honest outcomes, the view shows its own launch, one panel, refinement of `ScanPromise`, every launch ends |
| `client_exports` | 1 launch, 1 poll | violated: a sample report is exported from the vault |
| `console` | 3 lines, texts of 1 and 2 lines, lists of at most 3, buffer 2, 2 requests, 1 exposed port, pairs of tabs | see below |

`console` asks: is the selected log event listed; do real events survive everything but
what may remove them; does each ingestion land; do the parsers agree; does a blocked
connection stay blocked; was what the alerts view says is done really done; is there
one timer and one loop; do refreshes, toasts, banners and sweeps end. `ShownIsDone`
makes its exceptions alert by alert (`undone`): a lost request excuses the address or
the alerts it was for and no others.

Bounds. `MaxJobs` bounds submissions; with a limit of 2 and a history of 1, three jobs
suffice for two at work beside a finished one and four for two finished ones to
compete for the history while two are at work. Restarts are not bounded. Four
events against queues of two make every overflow pattern: a stream that skips in its
middle and goes on, or that loses the verdict; a second socket separates one full queue
from the other; a clock of 2 goes past the window once. Four probes on two permits make contention, and two hosts are needed for
one to be left behind by another's crash or a cancellation. Two launches let one
outlive the view of the other, two polls tell the last attempt from an earlier one.
In `console` a list of three exceeds the buffer of two, two requests overtake each
other, two toasts overlap. `Journeys` limits one behaviour to the overview and one
other tab: the views share no state, so longer journeys add products of states and
no new interaction; going back and forth is not limited.
`CHECK_DEADLOCK FALSE` appears where the system really stops: a finished scan with
all sockets closed, an ended scan run. The service never stops (it can always list,
or boot), nor do the views.

Fairness. Every task step of `ScanService`, handler step of `Telemetry` and probe or
host step of `Scanner` is weakly fair: the event loop runs what is ready, and
connects, banners and backoffs have deadlines (`asyncio.wait_for`), resolution has
the resolver's, a send ends or fails by the server's ping timeout. `ShutdownEnd`
and `Exit` are weakly fair since a server asked to stop goes on. In the browser the
steps of a launched call (`Ending`), the progress of a refresh, the end of a sweep and
the firing of timers are weakly fair: a browser ends every request, with a network
error at the latest, and fires every timer. Nothing is assumed of users, of further
requests, of faults, of sockets, of jobs seen from the browser, nor of `Boot`.

React. The updates a handler makes between two `await`s are rendered together and
effects run before the next event, as React 18 does; the development-only double
mounting of strict mode and the lazy loading of the radar are left out.

## 4. What the violations say

Each is one disagreement between code and a sentence of the repository; the
sentences are quoted in `PROJECT.json`.

- After a kill over SQLite, rows left pending or running are loaded without a
  task and hold their slots for ever; `cancel` refuses them.
- Over SQLite every submit and every listing replaces running jobs in the
  registry by copies. Such a job can no longer be cancelled or streamed, and
  polling it alone never shows its verdict.
- `SQLiteScanStorage.delete_old` keeps the oldest finished scans and deletes the
  newer, the opposite of the memory store.
- A scan that ends while its replay is sent closes the stream silently.
- A full queue may drop the verdict, after which the stream never ends.
- The vault exports simulated reports; only the scanner view refuses to.

Met while reading, and not the subject of a run:

- The README's Redis semaphore does not exist; WebSocket query tokens are accepted
  although the README says they are rejected; nothing reconnects a socket although it
  says so (`README.md:13`).
- An unexpected exception leaves a job running for ever also over the memory
  store (`cut` in `SlotsAreBacked`).
- A cancelled scan is polled until the attempts are used up: `submitScan` does not know
  the status (`PollAnswered`).
- The parsers disagree on key-value lines: the browser reads `severity` and `action`
  too and knows more words (`PlainLinesAgree` leaves these lines out).
- A second block in the alerts view, or a dismissal, made while a request is under way
  is undone on screen when the answer comes. A failed request is shown as done, and an
  alert that the inspection misses when all are acknowledged is shown as acknowledged
  and is not recorded (`undone` in `ShownIsDone`). Blocking a live alert of the host
  itself, and blocking from the modal an alert that has left the list, sends nothing.
- Blocked connections, saved settings and saved application cards are kept by the view
  alone and forgotten when its tab is left; the text beside Reset Defaults speaks of
  detection rules, which it leaves alone, and it restores two of three resolvers.
- The selection of the vault outlives Clear Reports, and the host selected on the radar
  outlives its display.

## 5. What is proved

Every safety invariant and every action property of the passing runs is a theorem,
as are the three refinements. TLAPS checks them for every value of the constants, from the
assumptions named in the modules. Most only type the constants (`BoundAssumption`,
`LimitAssumption`, `HostsAssumption`, `TargetsAssumption` and the like). Two say
something of literals in the code: `AlertsAssumption`, that the ids of `INITIAL_ALERTS`
are all different and are neither ids of exposed ports nor of blocked addresses
(`alt-`, `risk-port-`, `blocked-ip-`); `ConnectionsAssumption`, that those of
`INITIAL_CONNECTIONS` are all different and none is that of a reload (`c1` to `c7`,
`c-live-`). TLC evaluates all of them on the instances.

**ScanServiceProofs, ScanHistoryProofs.** The inductive invariant `IInv` joins six
facts. `LiveWithinLimit` is not inductive: submit counts registry entries rather than
tasks, so one needs that a job at work is on record as active (`LiveIsOnRecord`), that the
count after an eviction is exactly the number of active records (`CountIsExact`, which for
the memory store needs that object and record agree, `MemoryHoldsObjects`), and that this
number never exceeds the limit (`SlotsSuffice`). `RecordsAreBacked` is `SlotsAreBacked` in every
phase, since a restart must find it; `MemoryOwnsLive` is `OwnsLiveTasks` over the memory
store. `TaskStepEffect` summarises what any step of a task does, so that the invariant
is shown once for all of them; `EvictionSparesActive` says that eviction drops only
finished jobs. Theorems: `TypeCorrect`, `ConcurrencyIsLimited`, `SlotsBacked`,
`MemoryStoreOwnsTasks`, and `MemoryStoreImplementsHistory`, which adds that a live job's
record tells where its task stands and that ranks not reached are blank; then eviction
is the abstract trimming and each action maps to an abstract one or to none.

**ScanCancelProofs.** `CInv` adds to `IInv` what a cancellation may meet: a job at work
has no verdict on its object or in an old copy of its registry entry
(`LiveIsUndecided`), what the registry holds is on record but for a failed save
(`OwnedIsOnRecord`), and the process owns no task once it closes (`ClosingOwnsNothing`).
Submits, listings and boots are shown together: each entry they leave is new or an old
one with less (`FreshEntry`, `OldEntry`). Two action properties follow from it: `RecordsMoveForward`,
because a task that writes a record has not settled, and what a submit rebuilds or a boot
loads is what was on record; and, over the memory store, `MemoryEvictsOldestFirst`,
since what `Surplus` drops is older than what it keeps and nothing else forgets.
Theorems: `CancellationIsFinal`, `ShutdownIsOrderly`, `RecordsMoveForward`,
`MemoryEvictsOldestFirst`.

**TelemetryProofs.** Per socket, `Placed` says what a handler holds at each stage,
`Honest` that no sequence names another verdict than the job's and none but the last
event sent is one, `Gapless` that while nothing was dropped the queue is exactly what
happened since the subscription and the replay exactly what happened before it was made.
Neither `VerdictIsLast` nor `NoGapNoReorder` is inductive: a verdict may sit in the replay
and the queue at once, and a relaying handler is right only because its replay was.
Other sockets are shown untouched once (`OthersKeep`). The rate limit speaks of every
stretch of time, the limiter only remembers the last: `WindowInv` says that for every
moment from now on, the passes of an address that count are the same in the limiter's
list and in all its history, so that what was forgotten never counts again
(`ChosenTwice`, `ChosenCount`). `Contents` types what queues, replays and hands hold.
For the refinement, `StreamInv` puts each event that waits at its position in the log:
positions grow along hand and queue (`Ordered`), and without a loss they are the end of
the log; a queue starts where its client joined (`StartsAt`), which survives an overflow
because a full queue refuses the new event and not its oldest; and the replay goes on
where the client stands, past where it joined (`GoesOn`). The log only grows at its end, so
no position moves (`OrderedStill`); an empty queue is never full, so a client at the end of
the log stands at the next event (`BroadcastReaches`). Each step of the job or of a handler
is then a step of the promise or leaves it as it is (`PromiseStep`).
`VerdictIsLast` is proved and not run: it says of all that was sent what the promise
says step by step.
Theorems: `VerdictComesLast`, `StreamIsWhole`, `WindowIsBounded`, `TypeCorrect`,
`StreamIsPromised`.

**FilterProofs.** The library's induction takes an operator as a parameter, which no
installed prover instantiates. `LeastOf` (a nonempty set of naturals has a least member,
from the well-foundedness of the order as a relation) and `ListInduction` (a set of
sequences that holds the empty one and is closed under appending holds all) take a set
instead; with them `Chosen` is shown to keep exactly the entries it should, in order, to
compose, and to be as long as the count of what it keeps. `Filter` exists for this:
`SelectSeq` is opaque to the provers.

**ScannerProofs.** `Accounts` counts permits over a finite set of probes: a release
moves one permit or hands it on (`ReleaseKeepsAccounts`). `Lives` relates outcomes, probes,
hosts and the generator; a host that ended left a probe at work only if one of its
probes crashed (`SettledIsOver`). Theorems: `TypeCorrect`, `PermitsKept`,
`SocketsAreBounded`, `WakeupsKept`, `ResultsAreComplete`, `NothingIsLeftBehind`.

**DashboardProofs.** `IInv` is `TypeOK`, the client's part (an outcome exactly when
settled, no job before acceptance, polls left while polling, simulation on request only,
`HonestOutcome`) and the view's (one launch at a time, none that has not begun,
`ShownIsOwn`, `ProgressIsCurrent`). `CallStepEffect` summarises the nine steps of a call.
Theorems: `TypeCorrect`, `OutcomesAreHonest`, `ViewShowsOwnLaunch`, `ProgressOfLatest`,
`DashboardImplementsPromise`. `ColumnShowsOnePanel` needs one fact more, that a complaint
about missing targets is gone once a scan is under way (`ComplaintGoes`).

**ConsoleProofs.** `LoopsAreSingle`: timers and animation loops are single over every
journey through the tabs; the invariant adds only that the demo is on or off.
`ParsersAgree`: for every priority and status both parsers give a line that is no
key-value line the same severity; a statement about the two tables.

*Log analyzer.* `LogInv`: every event carries the severity its parser gives its line
(`Judged`), requests are well formed, and the selection is listed. With it
`PlainLinesAlike` follows from `ParsersAgree`; `RealLogsAreKept` and `IngestsAreKept` look at
each step against the list as it is by then. Which request an answer belongs to is
recovered from the list of requests alone: removing either of two entries gives the same
list only if they are equal (`RemovedSame`). Theorems: `LogTypeCorrect`,
`InsightIsOfTheList`, `PlainLinesAlike`, `RealLogsAreKept`, `IngestsAreKept`.

*Alerts.* `ShownIsDone` is not inductive: a handler writes back the list it held when it
was called. `AlertInv` therefore says of every list, on screen, held or answered, that
its alerts are `Honest`: each has an origin that settles its address (`Rooted`,
`OneAddress`), and what it shows is `Settled`, that is done or known to be undone. Of a
request that was handled it says that all it asked for is settled (`AlertRequests`), and
`AnswerSettles` that the same holds of one that was lost. Since a restart moves what it
forgets to the undone, the settled only grow while the view is mounted, and what was
honest when a handler took hold of it is honest when it goes on (`KnowledgeGrows`).
Nothing is assumed of what an inspection finds. Theorem: `ShownAlertsAreDone`.

*Overview.* `ConnectionInv`: ids in the list are all different, and none is that of the
reload under way; without it an entry pushed off the end could return allowed under the
same id. Theorem: `BlocksAreKept`.

Only model-checked: liveness (`ResultsPollable`, `CancelTakesEffect`, `ShutdownCompletes`,
`StreamEndsUnlessDropped`, `ScanEnds`, `LaunchEnds`, `TransientsEnd`), since
fairness is `ENABLED` to the proof system and beyond it. TLC also checked the inductive
invariants as they were found. The violated properties of section 4 have counterexamples
and no theorems.

## 6. What is not modelled

- Authorization, the HTTP rate limit, the validation of requests, target screening and
  port specifications: filters and pure functions without state.
- The desktop shell: its state is one child handle that nothing else reads. The
  command line: one scan per process and its output formats. System inspection: reads
  the host.
- Report contents, banners, timings, the order of listings, regular expressions and
  statistics of the parsers; the duration of steps, hence a slow resolver blocking
  the loop in `submit_scan`.
- In the browser: filters, searches, sorting and figures derived at each rendering;
  Help, tips and header; the application's copy of log events, read by no view;
  `SettingsModal` and `TelemetryStream`, which nothing renders; the numbers among the
  settings.

## 7. Plan

1. *Done*: `ScanService`, `ScanHistory`, `Telemetry` with its rate limit, `Scanner`,
   `StreamPromise`, `ScanClient` and `Dashboard` with `ScanPromise`, the views in
   `Console`, and the proofs of section 5.
2. `Targets` and `PortSpec`: `prepare_targets`, `parse_port_spec`, deduplication and
   probe budget as operators against reference definitions; `ParserStats` for
   `feed_line`'s accounting.
3. `DesktopShell`: child handle against the life of the process.
