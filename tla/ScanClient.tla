----------------------------- MODULE ScanClient -----------------------------
(***************************************************************************)
(* The browser's side of a scan (src/services/api.ts, submitScan): health  *)
(* check, submission, poll loop and telemetry socket, with the sample      *)
(* report as a fallback.  The scan itself is reduced to the life of its    *)
(* job, which ScanService details.  Each call of submitScan is a launch.   *)
(***************************************************************************)
EXTENDS Naturals

CONSTANTS
  MaxLaunches,  \* bound on calls of submitScan in the life of the page
  MaxAttempts   \* maxAttempts of pollScanUntilComplete, 120 in the code

ASSUME LaunchesAssumption == MaxLaunches \in Nat
ASSUME AttemptsAssumption == MaxAttempts \in Nat \ {0}

Launches == 1..MaxLaunches

VARIABLES
  simulate,  \* the page was opened with ?simulate=true
  call,      \* launch -> where submitScan stands
  attempt,   \* launch -> polls used up
  outcome,   \* launch -> what submitScan resolved to or threw
  job,       \* launch -> the scan's status at the server
  socket     \* launch -> its telemetry socket

clientVars == <<simulate, call, attempt, outcome, job, socket>>

Active == {"pending", "running"}
Reports == {"report", "sample"}
Errors == {"unavailable", "refused", "failed", "lost", "timed out"}
InFlight == {"health", "submitting", "waiting", "polling", "simulating"}

---------------------------------------------------------------------------
At(l, phase) == call[l] = phase
Go(l, phase) == call' = [call EXCEPT ![l] = phase]

Settle(l, what) ==
  /\ Go(l, "settled")
  /\ outcome' = [outcome EXCEPT ![l] = what]

(* Broken: a sample stands in for any scan that fails.                     *)
AlwaysFallBack(l, why) == Go(l, "simulating") /\ UNCHANGED outcome

(* A failed call falls back to a sample report if the page asks for it,    *)
(* and throws otherwise.                                                   *)
Fail(l, why) ==
  \/ simulate /\ Go(l, "simulating") /\ UNCHANGED outcome
  \/ ~ simulate /\ Settle(l, why)

Begin(l) ==
  /\ At(l, "idle")
  /\ Go(l, "health")
  /\ UNCHANGED <<simulate, attempt, outcome, job, socket>>

Healthy(l) ==
  /\ At(l, "health")
  /\ Go(l, "submitting")
  /\ UNCHANGED <<simulate, attempt, outcome, job, socket>>

Unhealthy(l) ==
  /\ At(l, "health")
  /\ Fail(l, "unavailable")
  /\ UNCHANGED <<simulate, attempt, job, socket>>

(* 202: the socket is opened and polling begins.  activeWs is overwritten; *)
(* nothing reads it, so the sockets of earlier launches live on.           *)
Accepted(l) ==
  /\ At(l, "submitting")
  /\ Go(l, "waiting")
  /\ job' = [job EXCEPT ![l] = "pending"]
  /\ socket' = [socket EXCEPT ![l] = "open"]
  /\ UNCHANGED <<simulate, attempt, outcome>>

(* An error status or a rejected fetch; the server may have accepted the   *)
(* scan all the same.                                                      *)
Refused(l) ==
  /\ At(l, "submitting")
  /\ Fail(l, "refused")
  /\ \E status \in {"none", "pending"} : job' = [job EXCEPT ![l] = status]
  /\ UNCHANGED <<simulate, attempt, socket>>

Poll(l) ==
  /\ At(l, "waiting")
  /\ Go(l, "polling")
  /\ UNCHANGED <<simulate, attempt, outcome, job, socket>>

(* Broken: an answer without a verdict does not use up an attempt.         *)
PatientNextAttempt(l) == Go(l, "waiting") /\ UNCHANGED <<attempt, outcome>>

(* Broken: one poll too many.                                              *)
TardyNextAttempt(l) ==
  /\ attempt' = [attempt EXCEPT ![l] = @ + 1]
  /\ IF attempt[l] < MaxAttempts
     THEN Go(l, "waiting") /\ UNCHANGED outcome
     ELSE Fail(l, "timed out")

(* The poll brought no verdict: the loop goes round, or is over.           *)
NextAttempt(l) ==
  /\ attempt' = [attempt EXCEPT ![l] = @ + 1]
  /\ IF attempt[l] + 1 < MaxAttempts
     THEN Go(l, "waiting") /\ UNCHANGED outcome
     ELSE Fail(l, "timed out")

(* Broken: any answer that is not failed is taken for the report.          *)
HastyPollAnswered(l) ==
  /\ At(l, "polling")
  /\ \/ job[l] # "failed" /\ Settle(l, "report") /\ UNCHANGED attempt
     \/ job[l] = "failed" /\ Fail(l, "failed") /\ UNCHANGED attempt
  /\ UNCHANGED <<simulate, job, socket>>

(* The loop knows completed and failed; cancelled is no verdict to it.     *)
PollAnswered(l) ==
  /\ At(l, "polling")
  /\ \/ job[l] = "completed" /\ Settle(l, "report") /\ UNCHANGED attempt
     \/ job[l] = "failed" /\ Fail(l, "failed") /\ UNCHANGED attempt
     \/ job[l] \notin {"completed", "failed"} /\ NextAttempt(l)
  /\ UNCHANGED <<simulate, job, socket>>

(* An error status is skipped, and so is an answer behind the scan (see    *)
(* ScanService); a rejected fetch ends the call.                           *)
PollRefused(l) ==
  /\ At(l, "polling")
  /\ NextAttempt(l)
  /\ UNCHANGED <<simulate, job, socket>>

PollLost(l) ==
  /\ At(l, "polling")
  /\ Fail(l, "lost")
  /\ UNCHANGED <<simulate, attempt, job, socket>>

(* simulateScan: hosts and ports are played through on timers.             *)
Simulated(l) ==
  /\ At(l, "simulating")
  /\ Settle(l, "sample")
  /\ UNCHANGED <<simulate, attempt, job, socket>>

(* What submitScan does by itself once it is called.                       *)
CallStep(l) ==
  \/ Healthy(l) \/ Unhealthy(l) \/ Accepted(l) \/ Refused(l) \/ Poll(l)
  \/ PollAnswered(l) \/ PollRefused(l) \/ PollLost(l) \/ Simulated(l)

---------------------------------------------------------------------------
(* The telemetry callback may run while a socket is open, also after the   *)
(* call has settled, and during a simulation.                              *)
Reporting(l) == socket[l] = "open" \/ At(l, "simulating")

(* The server closes the stream, or the connection breaks; nobody reopens. *)
SocketEnds(l) ==
  /\ socket[l] = "open"
  /\ socket' = [socket EXCEPT ![l] = "closed"]
  /\ UNCHANGED <<simulate, call, attempt, outcome, job>>

(* The life of a job in the order of _run's statuses.  What a poll reads   *)
(* may lag behind, or fall back after a failing save (see ScanService):    *)
(* that is a poll without a verdict, as in PollRefused.                    *)
JobStep(l) ==
  /\ \/ /\ job[l] = "pending"
        /\ \E s \in {"running", "cancelled"} : job' = [job EXCEPT ![l] = s]
     \/ /\ job[l] = "running"
        /\ \E s \in {"completed", "failed", "cancelled"} : job' = [job EXCEPT ![l] = s]
  /\ UNCHANGED <<simulate, call, attempt, outcome, socket>>

ClientInit ==
  /\ simulate \in BOOLEAN
  /\ call = [l \in Launches |-> "idle"]
  /\ attempt = [l \in Launches |-> 0]
  /\ outcome = [l \in Launches |-> "none"]
  /\ job = [l \in Launches |-> "none"]
  /\ socket = [l \in Launches |-> "none"]

---------------------------------------------------------------------------
(* Properties. *)

ClientTypeOK ==
  /\ simulate \in BOOLEAN
  /\ call \in [Launches -> InFlight \union {"idle", "settled"}]
  /\ attempt \in [Launches -> 0..MaxAttempts]
  /\ outcome \in [Launches -> Reports \union Errors \union {"none"}]
  /\ job \in [Launches -> Active \union {"none", "completed", "failed", "cancelled"}]
  /\ socket \in [Launches -> {"none", "open", "closed"}]

(* What a call resolves to or throws is true of its scan, although jobs    *)
(* move on between polls, answers get lost and any failure may turn into a *)
(* sample: a report is of a completed scan, a failure of a failed one, a   *)
(* call that found no server left nothing there, a timeout has used all    *)
(* its polls, and samples appear only on a page that asked for them.       *)
HonestOutcome ==
  \A l \in Launches :
    /\ outcome[l] = "report" => job[l] = "completed"
    /\ outcome[l] = "failed" => job[l] = "failed"
    /\ outcome[l] = "unavailable" => job[l] = "none"
    /\ outcome[l] = "timed out" => attempt[l] = MaxAttempts
    /\ outcome[l] = "sample" => simulate
    /\ outcome[l] \in Errors => ~ simulate

=============================================================================
