-------------------------- MODULE DashboardProofs --------------------------
(***************************************************************************)
(* Theorems about the scanner tab, the vault and the client behind them,   *)
(* for every number of launches and every number of polls.                 *)
(***************************************************************************)
EXTENDS Dashboard, FiniteSetTheorems, TLAPS

Phases == InFlight \union {"idle", "settled"}

(* A call has an outcome once it has settled, and not before.              *)
SettledHasOutcome ==
  \A l \in Launches : outcome[l] # "none" <=> At(l, "settled")

(* Before a launch is accepted there is no job of it.                      *)
NoJobBefore ==
  \A l \in Launches : call[l] \in {"idle", "health", "submitting"} => job[l] = "none"

(* A call that may still poll has polls left.                              *)
PollsLeft ==
  \A l \in Launches : call[l] \notin {"settled", "simulating"} => attempt[l] < MaxAttempts

(* Samples are made only on a page that asked for them.                    *)
SimulatesOnRequest == \A l \in Launches : At(l, "simulating") => simulate

ClientInv ==
  /\ ClientTypeOK
  /\ SettledHasOutcome
  /\ NoJobBefore
  /\ PollsLeft
  /\ SimulatesOnRequest
  /\ HonestOutcome

(* The scanner view launches one scan after the other.                     *)
OneAtATime == \A l \in mine : ~ At(l, "settled") => Latest(l)

(* No view owns a launch that has not begun.                               *)
OwnsBegun == \A l \in mine : ~ At(l, "idle")

IInv ==
  /\ TypeOK
  /\ ClientInv
  /\ OneAtATime
  /\ OwnsBegun
  /\ ShownIsOwn
  /\ ProgressIsCurrent

---------------------------------------------------------------------------
(* The client. *)

(* Reports and errors are told apart, and neither is the missing outcome.  *)
LEMMA OutcomesDiffer ==
  /\ Reports \intersect Errors = {}
  /\ "none" \notin Reports \union Errors
  BY DEF Reports, Errors

(* What a step of submitScan does to its launch, whichever step it is: the *)
(* call goes on without an outcome or settles with one.                    *)
LEMMA CallStepEffect ==
  ASSUME ClientInv, NEW l \in Launches, CallStep(l)
  PROVE  /\ call[l] \notin {"idle", "settled"}
         /\ \E phase \in Phases \ {"idle"} : Go(l, phase)
         /\ \/ call'[l] # "settled" /\ UNCHANGED outcome
            \/ /\ call'[l] = "settled"
               /\ \E what \in Reports \union Errors : outcome' = [outcome EXCEPT ![l] = what]
         /\ \A k \in Launches : socket[k] # "none" => socket'[k] # "none"
         /\ UNCHANGED simulate
<1> USE DEF ClientInv, ClientTypeOK, At, Go, Phases, InFlight, Reports, Errors
<1>1. ASSUME NEW why \in Errors, Fail(l, why)
      PROVE  /\ \E phase \in {"simulating", "settled"} : Go(l, phase)
             /\ \/ call'[l] # "settled" /\ UNCHANGED outcome
                \/ call'[l] = "settled" /\ outcome' = [outcome EXCEPT ![l] = why]
  BY <1>1 DEF Fail, Settle
<1>2. ASSUME NextAttempt(l)
      PROVE  /\ \E phase \in {"waiting", "simulating", "settled"} : Go(l, phase)
             /\ \/ call'[l] # "settled" /\ UNCHANGED outcome
                \/ call'[l] = "settled" /\ outcome' = [outcome EXCEPT ![l] = "timed out"]
  BY <1>1, <1>2 DEF NextAttempt
<1>3. CASE Healthy(l) \/ Poll(l)
  BY <1>3 DEF Healthy, Poll
<1>4. CASE Unhealthy(l)
  BY <1>1, <1>4 DEF Unhealthy
<1>5. CASE Accepted(l)
  BY <1>5 DEF Accepted
<1>6. CASE Refused(l)
  BY <1>1, <1>6 DEF Refused
<1>7. CASE PollAnswered(l)
  BY <1>1, <1>2, <1>7 DEF PollAnswered, Settle
<1>8. CASE PollRefused(l) \/ PollLost(l)
  BY <1>1, <1>2, <1>8 DEF PollRefused, PollLost
<1>9. CASE Simulated(l)
  BY <1>9 DEF Simulated, Settle
<1> QED
  BY <1>3, <1>4, <1>5, <1>6, <1>7, <1>8, <1>9 DEF CallStep

(* One call settles and the others stand: every outcome is as true as that *)
(* one.                                                                    *)
LEMMA HonestAfterSettling ==
  ASSUME HonestOutcome, NEW l \in Launches, NEW what,
         outcome'[l] = what, simulate' = simulate,
         \A k \in Launches \ {l} :
           outcome'[k] = outcome[k] /\ job'[k] = job[k] /\ attempt'[k] = attempt[k],
         what = "report" => job'[l] = "completed",
         what = "failed" => job'[l] = "failed",
         what = "unavailable" => job'[l] = "none",
         what = "timed out" => attempt'[l] = MaxAttempts,
         what = "sample" => simulate,
         what \in Errors => ~ simulate
  PROVE  HonestOutcome'
<1> DEFINE Honest(k) ==
             /\ outcome'[k] = "report" => job'[k] = "completed"
             /\ outcome'[k] = "failed" => job'[k] = "failed"
             /\ outcome'[k] = "unavailable" => job'[k] = "none"
             /\ outcome'[k] = "timed out" => attempt'[k] = MaxAttempts
             /\ outcome'[k] = "sample" => simulate'
             /\ outcome'[k] \in Errors => ~ simulate'
<1>1. Honest(l)
  OBVIOUS
<1>2. \A k \in Launches \ {l} : Honest(k)
  BY DEF HonestOutcome
<1> QED
  BY <1>1, <1>2 DEF HonestOutcome

LEMMA FailKeepsInv ==
  ASSUME ClientInv, NEW l \in Launches, NEW why \in Errors, Fail(l, why),
         call[l] \in InFlight, UNCHANGED <<simulate, socket>>,
         job' \in [Launches -> Active \union {"none", "completed", "failed", "cancelled"}],
         attempt' \in [Launches -> 0..MaxAttempts],
         \A k \in Launches \ {l} : job'[k] = job[k] /\ attempt'[k] = attempt[k],
         why = "failed" => job'[l] = "failed",
         why = "unavailable" => job'[l] = "none",
         why = "timed out" => attempt'[l] = MaxAttempts
  PROVE  ClientInv'
<1> USE DEF ClientInv, ClientTypeOK, At, Go, InFlight, Errors
<1>1. CASE simulate /\ Go(l, "simulating") /\ UNCHANGED outcome
  <2>1. ClientTypeOK'
    BY <1>1 
  <2>2. (SettledHasOutcome /\ NoJobBefore /\ PollsLeft /\ SimulatesOnRequest)'
    BY <1>1 DEF SettledHasOutcome, NoJobBefore, PollsLeft, SimulatesOnRequest
  <2>3. HonestOutcome'
    BY <1>1 DEF HonestOutcome, SettledHasOutcome
  <2> QED
    BY <2>1, <2>2, <2>3
<1>2. CASE ~ simulate /\ Settle(l, why)
  <2>1. ClientTypeOK'
    BY <1>2 DEF Settle
  <2>2. (SettledHasOutcome /\ NoJobBefore /\ PollsLeft /\ SimulatesOnRequest)'
    BY <1>2 DEF SettledHasOutcome, NoJobBefore, PollsLeft, SimulatesOnRequest, Settle
  <2>3. outcome'[l] = why /\ \A k \in Launches \ {l} : outcome'[k] = outcome[k]
    BY <1>2 DEF Settle
  <2>4. ~ simulate /\ simulate' = simulate /\ HonestOutcome
    BY <1>2
  <2>5. HonestOutcome'
    BY <2>3, <2>4, HonestAfterSettling
  <2> QED
    BY <2>1, <2>2, <2>5
<1> QED
  BY <1>1, <1>2 DEF Fail

(* A step of the loop that brings no failure of its own.                   *)
LEMMA GoKeepsInv ==
  ASSUME ClientInv, NEW l \in Launches,
         NEW phase \in {"health", "submitting", "waiting", "polling"}, Go(l, phase),
         call[l] \in (InFlight \ {"simulating"}) \union {"idle"},
         phase = "health" => At(l, "idle"),
         phase = "submitting" => At(l, "health"),
         job' \in [Launches -> Active \union {"none", "completed", "failed", "cancelled"}],
         attempt' \in [Launches -> 0..MaxAttempts],
         \A k \in Launches \ {l} : job'[k] = job[k] /\ attempt'[k] = attempt[k],
         phase \in {"health", "submitting"} => UNCHANGED job,
         attempt'[l] < MaxAttempts,
         socket' \in [Launches -> {"none", "open", "closed"}],
         UNCHANGED <<simulate, outcome>>
  PROVE  ClientInv'
<1> USE DEF ClientInv, ClientTypeOK, At, Go, InFlight
<1>1. ClientTypeOK'
  OBVIOUS
<1>2. call'[l] = phase /\ \A k \in Launches \ {l} : call'[k] = call[k]
  OBVIOUS
<1>3. outcome[l] = "none" /\ outcome' = outcome /\ simulate' = simulate
  BY DEF SettledHasOutcome
<1> HIDE DEF ClientInv, ClientTypeOK, Go
<1>4. SettledHasOutcome /\ NoJobBefore /\ PollsLeft /\ SimulatesOnRequest /\ HonestOutcome
  BY DEF ClientInv
<1>5. SettledHasOutcome'
  BY <1>2, <1>3, <1>4 DEF SettledHasOutcome
<1>6. NoJobBefore'
  <2>1. phase \in {"health", "submitting"} => job[l] = "none"
    BY <1>4 DEF NoJobBefore
  <2> QED
    BY <1>2, <1>4, <2>1 DEF NoJobBefore
<1>7. PollsLeft'
  BY <1>2, <1>4 DEF PollsLeft
<1>8. SimulatesOnRequest'
  BY <1>2, <1>3, <1>4 DEF SimulatesOnRequest
<1>9. HonestOutcome'
  <2>1. outcome'[l] = "none" /\ \A k \in Launches \ {l} : outcome'[k] = outcome[k]
    BY <1>3
  <2>2. "none" \notin Errors
    BY OutcomesDiffer
  <2> QED
    BY <1>3, <1>4, <2>1, <2>2, HonestAfterSettling
<1> QED
  BY <1>1, <1>4, <1>5, <1>6, <1>7, <1>8, <1>9 DEF ClientInv

LEMMA SettleKeepsInv ==
  ASSUME ClientInv, NEW l \in Launches, NEW what \in Reports, Settle(l, what),
         call[l] \in InFlight,
         what = "report" => job[l] = "completed",
         what = "sample" => simulate,
         UNCHANGED <<simulate, attempt, job, socket>>
  PROVE  ClientInv'
<1> USE DEF ClientInv, ClientTypeOK, At, Go, InFlight, Settle, Reports
<1>1. ClientTypeOK'
  OBVIOUS
<1>2. (SettledHasOutcome /\ NoJobBefore /\ PollsLeft /\ SimulatesOnRequest)'
  BY DEF SettledHasOutcome, NoJobBefore, PollsLeft, SimulatesOnRequest
<1>3. outcome'[l] = what /\ \A k \in Launches \ {l} : outcome'[k] = outcome[k]
  OBVIOUS
<1>4. HonestOutcome /\ simulate' = simulate /\ what \notin Errors
      /\ job' = job /\ attempt' = attempt
  BY OutcomesDiffer
<1>5. HonestOutcome'
  BY <1>3, <1>4, HonestAfterSettling
<1> QED
  BY <1>1, <1>2, <1>5

LEMMA NextAttemptKeepsInv ==
  ASSUME ClientInv, NEW l \in Launches, At(l, "polling"), NextAttempt(l),
         UNCHANGED <<simulate, job, socket>>
  PROVE  ClientInv'
<1>1. attempt[l] \in Nat /\ attempt[l] < MaxAttempts /\ MaxAttempts \in Nat
  BY AttemptsAssumption DEF ClientInv, ClientTypeOK, PollsLeft, At
<1>2. /\ attempt' = [attempt EXCEPT ![l] = attempt[l] + 1]
      /\ attempt' \in [Launches -> 0..MaxAttempts]
  <2>1. attempt' = [attempt EXCEPT ![l] = attempt[l] + 1]
    BY DEF NextAttempt
  <2>2. attempt \in [Launches -> 0..MaxAttempts] /\ attempt[l] + 1 \in 0..MaxAttempts
    BY <1>1 DEF ClientInv, ClientTypeOK
  <2> QED
    BY <2>1, <2>2
<1>3. attempt'[l] = attempt[l] + 1 /\ \A k \in Launches \ {l} : attempt'[k] = attempt[k]
  BY <1>2 DEF ClientInv, ClientTypeOK
<1>4. job' \in [Launches -> Active \union {"none", "completed", "failed", "cancelled"}]
      /\ socket' \in [Launches -> {"none", "open", "closed"}]
  BY DEF ClientInv, ClientTypeOK
<1>5. CASE attempt[l] + 1 < MaxAttempts
  <2>1. Go(l, "waiting") /\ UNCHANGED outcome
    BY <1>5 DEF NextAttempt
  <2> QED
    BY <2>1, <1>2, <1>3, <1>4, <1>5, GoKeepsInv DEF At, InFlight
<1>6. CASE attempt[l] + 1 >= MaxAttempts
  <2>1. ~ (attempt[l] + 1 < MaxAttempts) /\ attempt'[l] = MaxAttempts
    BY <1>1, <1>3, <1>6
  <2>2. Fail(l, "timed out")
    BY <2>1 DEF NextAttempt
  <2> QED
    BY <2>1, <2>2, <1>2, <1>3, <1>4, FailKeepsInv DEF At, InFlight, Errors
<1> QED
  BY <1>1, <1>5, <1>6

(* What the user, the browser, the server and the network do to a launch   *)
(* keeps the client's invariant.                                           *)
LEMMA CallStepKeepsInv ==
  ASSUME ClientInv, NEW l \in Launches, CallStep(l)
  PROVE  ClientInv'
<1>1. /\ job \in [Launches -> Active \union {"none", "completed", "failed", "cancelled"}]
      /\ attempt \in [Launches -> 0..MaxAttempts]
      /\ socket \in [Launches -> {"none", "open", "closed"}]
      /\ call[l] \notin {"settled", "simulating"} => attempt[l] < MaxAttempts
      /\ call[l] \in {"health", "submitting"} => job[l] = "none"
      /\ At(l, "simulating") => simulate
  BY DEF ClientInv, ClientTypeOK, PollsLeft, NoJobBefore, SimulatesOnRequest
<1>2. CASE Healthy(l) \/ Poll(l)
  <2>1. PICK phase \in {"submitting", "polling"} :
           /\ Go(l, phase)
           /\ phase = "submitting" => At(l, "health")
           /\ call[l] \in {"health", "waiting"}
           /\ UNCHANGED <<simulate, attempt, outcome, job, socket>>
    BY <1>2 DEF Healthy, Poll, At
  <2> QED
    BY <1>1, <2>1, GoKeepsInv DEF InFlight
<1>3. CASE Unhealthy(l)
  BY <1>1, <1>3, FailKeepsInv DEF Unhealthy, At, InFlight, Errors
<1>4. CASE Accepted(l)
  BY <1>1, <1>4, GoKeepsInv DEF Accepted, At, InFlight, Active
<1>5. CASE Refused(l)
  BY <1>1, <1>5, FailKeepsInv DEF Refused, At, InFlight, Errors, Active
<1>6. CASE PollAnswered(l)
  <2>1. CASE job[l] = "completed" /\ Settle(l, "report") /\ UNCHANGED attempt
    BY <1>6, <2>1, SettleKeepsInv DEF PollAnswered, At, InFlight, Reports
  <2>2. CASE job[l] = "failed" /\ Fail(l, "failed") /\ UNCHANGED attempt
    BY <1>1, <1>6, <2>2, FailKeepsInv DEF PollAnswered, At, InFlight, Errors
  <2>3. CASE NextAttempt(l)
    BY <1>6, <2>3, NextAttemptKeepsInv DEF PollAnswered
  <2> QED
    BY <1>6, <2>1, <2>2, <2>3 DEF PollAnswered
<1>7. CASE PollRefused(l)
  BY <1>7, NextAttemptKeepsInv DEF PollRefused
<1>8. CASE PollLost(l)
  BY <1>1, <1>8, FailKeepsInv DEF PollLost, At, InFlight, Errors
<1>9. CASE Simulated(l)
  BY <1>1, <1>9, SettleKeepsInv DEF Simulated, At, InFlight, Reports
<1> QED
  BY <1>2, <1>3, <1>4, <1>5, <1>6, <1>7, <1>8, <1>9 DEF CallStep

LEMMA BeginKeepsInv ==
  ASSUME ClientInv, NEW l \in Launches, Begin(l)
  PROVE  ClientInv'
<1>1. /\ job \in [Launches -> Active \union {"none", "completed", "failed", "cancelled"}]
      /\ attempt \in [Launches -> 0..MaxAttempts]
      /\ socket \in [Launches -> {"none", "open", "closed"}]
      /\ At(l, "idle") => attempt[l] < MaxAttempts
  BY DEF ClientInv, ClientTypeOK, PollsLeft, At
<1> QED
  BY <1>1, GoKeepsInv DEF Begin, At

LEMMA OutsideKeepsInv ==
  ASSUME ClientInv, NEW l \in Launches, SocketEnds(l) \/ JobStep(l)
  PROVE  ClientInv'
<1> USE DEF ClientInv, ClientTypeOK, At
<1>1. CASE SocketEnds(l)
  BY <1>1 DEF SocketEnds, SettledHasOutcome, NoJobBefore, PollsLeft, SimulatesOnRequest,
              HonestOutcome
<1>2. CASE JobStep(l)
  <2>1. /\ UNCHANGED <<simulate, call, attempt, outcome, socket>>
        /\ job' \in [Launches -> Active \union {"none", "completed", "failed", "cancelled"}]
        /\ \A k \in Launches : job'[k] = job[k] \/ job[k] \in Active
    BY <1>2 DEF JobStep, Active
  <2>2. ClientTypeOK'
    BY <2>1
  <2>3. (SettledHasOutcome /\ NoJobBefore /\ PollsLeft /\ SimulatesOnRequest)'
    BY <2>1 DEF SettledHasOutcome, NoJobBefore, PollsLeft, SimulatesOnRequest, Active
  <2>4. HonestOutcome'
    BY <2>1 DEF HonestOutcome, Active
  <2> QED
    BY <2>2, <2>3, <2>4
<1> QED
  BY <1>1, <1>2

---------------------------------------------------------------------------
(* The views. *)

ViewInv == OneAtATime /\ OwnsBegun /\ ShownIsOwn /\ ProgressIsCurrent

(* While the view scans it has nothing of a settled launch on screen.      *)
LEMMA LaunchKeepsView ==
  ASSUME IInv, NEW l \in Launches, Launch(l)
  PROVE  ViewInv'
<1>1. /\ call' = [call EXCEPT ![l] = "health"] /\ call[l] = "idle"
      /\ mine' = mine \union {l} /\ scanning' = TRUE
      /\ shown' = 0 /\ error' = 0 /\ door' = 0 /\ progress' = l
  BY DEF Launch, Begin, Go, At, Reset
<1>2. /\ l \in Nat /\ l # 0 /\ mine \subseteq Launches
      /\ \A k \in Launches : k \in Nat
      /\ call \in [Launches -> Phases]
  BY LaunchesAssumption DEF Launches, IInv, TypeOK, ClientTypeOK, Phases
<1>3. \A k \in mine : call[k] = "settled" /\ k < l
  <2>1. TAKE k \in mine
  <2>2. call[k] = "settled"
    BY DEF IInv, ShownIsOwn, Launch
  <2>3. ~ (k >= l)
    BY <1>2, <2>2 DEF Launch, NextIdle, At
  <2> QED
    BY <1>2, <2>2, <2>3
<1>4. call'[l] = "health" /\ \A k \in mine : call'[k] = "settled"
  BY <1>1, <1>2, <1>3
<1>5. Latest(l)'
  BY <1>1, <1>2, <1>3 DEF Latest
<1>6. OneAtATime' /\ OwnsBegun'
  BY <1>1, <1>4, <1>5 DEF OneAtATime, OwnsBegun, At
<1>7. ShownIsOwn'
  <2>1. (scanning <=> \E k \in mine : call[k] # "settled")'
    BY <1>1, <1>4
  <2>2. error' \notin Launches
    BY <1>1 DEF Launches
  <2> QED
    BY <1>1, <2>1, <2>2 DEF ShownIsOwn
<1>8. ProgressIsCurrent'
  BY <1>1, <1>2, <1>5 DEF ProgressIsCurrent
<1> QED
  BY <1>6, <1>7, <1>8 DEF ViewInv

(* A step of a call that does not settle it changes nothing the view says. *)
LEMMA ContinueKeepsView ==
  ASSUME IInv, NEW l \in Launches, Continue(l)
  PROVE  ViewInv'
<1>1. /\ \E phase \in Phases \ {"idle"} : call' = [call EXCEPT ![l] = phase]
      /\ call[l] # "settled" /\ call'[l] # "settled"
      /\ UNCHANGED outcome
      /\ \A k \in Launches : socket[k] # "none" => socket'[k] # "none"
  BY CallStepEffect DEF IInv, Continue, Go
<1>2. UNCHANGED <<mine, scanning, shown, error, progress, door>>
  BY DEF Continue, viewVars
<1>3. mine \subseteq Launches /\ call \in [Launches -> Phases]
      /\ progress \in Launches \union {0}
  BY DEF IInv, TypeOK, ClientTypeOK, Phases
<1>4. \A k \in mine : /\ call'[k] # "settled" <=> call[k] # "settled"
                      /\ call'[k] = "idle" => call[k] = "idle"
  BY <1>1, <1>3
<1>5. OneAtATime' /\ OwnsBegun'
  BY <1>2, <1>4 DEF IInv, OneAtATime, OwnsBegun, At, Latest
<1>6. ShownIsOwn'
  BY <1>1, <1>2, <1>4 DEF IInv, ShownIsOwn, Latest
<1>7. ProgressIsCurrent'
  BY <1>1, <1>2, <1>3 DEF IInv, ProgressIsCurrent, Latest
<1> QED
  BY <1>5, <1>6, <1>7 DEF ViewInv

(* A call that settles is the latest of its view, or of no view any more.  *)
LEMMA SettlingCall ==
  ASSUME IInv, NEW l \in Launches, Resolve(l) \/ Reject(l)
  PROVE  /\ call[l] # "settled" /\ outcome[l] = "none"
         /\ call' = [call EXCEPT ![l] = "settled"]
         /\ \A k \in Launches \ {l} : outcome'[k] = outcome[k]
         /\ \A k \in Launches : socket[k] # "none" => socket'[k] # "none"
         /\ l \in mine => Latest(l) /\ \A k \in mine \ {l} : call[k] = "settled"
<1>1. CallStep(l) /\ outcome'[l] \in Reports \union Errors
  BY DEF Resolve, Reject
<1>2. /\ call[l] \notin {"idle", "settled"}
      /\ \E phase \in Phases \ {"idle"} : call' = [call EXCEPT ![l] = phase]
      /\ \/ call'[l] # "settled" /\ UNCHANGED outcome
         \/ /\ call'[l] = "settled"
            /\ \E what \in Reports \union Errors : outcome' = [outcome EXCEPT ![l] = what]
      /\ \A k \in Launches : socket[k] # "none" => socket'[k] # "none"
  BY <1>1, CallStepEffect DEF IInv, Go
<1>3. outcome[l] = "none"
  BY <1>2 DEF IInv, ClientInv, SettledHasOutcome, At
<1>4. call'[l] = "settled"
  BY <1>1, <1>2, <1>3, OutcomesDiffer
<1>5. call \in [Launches -> Phases] /\ mine \subseteq Launches
      /\ \A k \in Launches : k \in Nat
      /\ outcome \in [Launches -> Reports \union Errors \union {"none"}]
  BY LaunchesAssumption DEF IInv, TypeOK, ClientTypeOK, Phases, Launches
<1>6. l \in mine => Latest(l) /\ \A k \in mine \ {l} : call[k] = "settled"
  <2>1. \A k \in mine : call[k] # "settled" => Latest(k)
    BY DEF IInv, OneAtATime, At
  <2> QED
    BY <2>1, <1>2, <1>5 DEF Latest
<1> QED
  BY <1>2, <1>3, <1>4, <1>5, <1>6

LEMMA SettlingKeepsView ==
  ASSUME IInv, NEW l \in Launches, Resolve(l) \/ Reject(l)
  PROVE  ViewInv'
<1>1. /\ call[l] # "settled" /\ outcome[l] = "none"
      /\ call' = [call EXCEPT ![l] = "settled"]
      /\ \A k \in Launches \ {l} : outcome'[k] = outcome[k]
      /\ \A k \in Launches : socket[k] # "none" => socket'[k] # "none"
      /\ l \in mine => Latest(l) /\ \A k \in mine \ {l} : call[k] = "settled"
      /\ UNCHANGED mine
  BY SettlingCall DEF Resolve, Reject
<1>2. call \in [Launches -> Phases] /\ mine \subseteq Launches
      /\ 0 \notin Launches /\ progress \in Launches \union {0}
      /\ shown \in Launches \union {0}
  BY DEF IInv, TypeOK, ClientTypeOK, Phases, Launches
<1>3. \A k \in Launches : Latest(k)' <=> Latest(k)
  BY <1>1 DEF Latest
<1>4. OneAtATime' /\ OwnsBegun'
  BY <1>1, <1>2, <1>3 DEF IInv, OneAtATime, OwnsBegun, At
<1>5. /\ shown # 0 => Latest(shown) /\ outcome'[shown] \in Reports
      /\ error \in Launches => Latest(error) /\ outcome'[error] \in Errors
      /\ door # 0 => door = shown
  <2>1. /\ shown # 0 => Latest(shown) /\ outcome[shown] \in Reports
        /\ error \in Launches => Latest(error) /\ outcome[error] \in Errors
        /\ door # 0 => door = shown
    BY DEF IInv, ShownIsOwn
  <2> QED
    BY <2>1, <1>1, <1>2, OutcomesDiffer
<1>6. CASE l \in mine
  <2>1. \A k \in mine : call'[k] = "settled"
    BY <1>1, <1>2, <1>6
  <2>2. scanning' = FALSE
    BY <1>6 DEF Resolve, Reject
  <2>3. door = 0
    <3>1. shown # 0 => shown = l
      <4>1. shown # 0 => Latest(shown)
        BY <1>5
      <4>2. l \in Nat /\ (shown \in Launches => shown \in Nat)
        BY LaunchesAssumption DEF Launches
      <4> QED
        BY <1>1, <1>2, <1>6, <4>1, <4>2 DEF Latest
    <3>2. shown = 0
      BY <1>1, <3>1, OutcomesDiffer DEF IInv, ShownIsOwn
    <3> QED
      BY <3>2 DEF IInv, ShownIsOwn
  <2>4. UNCHANGED door
    BY DEF Resolve, Reject
  <2>5. CASE Resolve(l)
    <3>1. shown' = l /\ UNCHANGED error /\ outcome'[l] \in Reports
      BY <1>6, <2>5 DEF Resolve
    <3> QED
      BY <1>1, <1>3, <1>4, <1>5, <1>6, <2>1, <2>2, <2>3, <2>4, <3>1
      DEF ViewInv, ShownIsOwn, ProgressIsCurrent
  <2>6. CASE Reject(l)
    <3>1. error' = l /\ UNCHANGED shown /\ outcome'[l] \in Errors
      BY <1>6, <2>6 DEF Reject
    <3> QED
      BY <1>1, <1>2, <1>3, <1>4, <1>5, <1>6, <2>1, <2>2, <2>3, <2>4, <3>1
      DEF ViewInv, ShownIsOwn, ProgressIsCurrent
  <2> QED
    BY <2>5, <2>6
<1>7. CASE l \notin mine
  <2>1. UNCHANGED <<scanning, shown, error, progress, door>>
    BY <1>7 DEF Resolve, Reject
  <2>2. \A k \in mine : call'[k] = call[k]
    BY <1>1, <1>2, <1>7
  <2>3. ShownIsOwn'
    BY <1>1, <1>2, <1>3, <1>5, <2>1, <2>2 DEF IInv, ShownIsOwn
  <2>4. ProgressIsCurrent'
    BY <1>1, <1>2, <1>3, <2>1 DEF IInv, ProgressIsCurrent
  <2> QED
    BY <1>4, <2>3, <2>4 DEF ViewInv
<1> QED
  BY <1>6, <1>7

(* Leaving a tab empties the view; the rest touches what it says of its    *)
(* own launches only.                                                      *)
LEMMA OthersKeepView ==
  ASSUME IInv,
         \/ \E l \in Launches : Telemetry(l) \/ Outside(l)
         \/ LaunchNothing \/ InspectDoor \/ CloseDoor \/ ScanExport
         \/ Select \/ ClearReports \/ VaultExport
         \/ \E t \in Tabs : OpenTab(t)
  PROVE  ViewInv'
<1> USE DEF IInv, ViewInv
<1>1. ASSUME NEW l \in Launches, Telemetry(l)
      PROVE  ViewInv'
  <2>1. /\ progress' = l /\ l # 0
        /\ UNCHANGED <<call, outcome, socket, mine, scanning, shown, error, door>>
    BY <1>1 DEF Telemetry, clientVars, Launches
  <2>2. OneAtATime' /\ OwnsBegun' /\ ShownIsOwn'
    BY <2>1 DEF OneAtATime, OwnsBegun, ShownIsOwn, At, Latest
  <2>3. Latest(l) \/ socket[l] # "none"
    BY <1>1 DEF Telemetry, Reporting, OneAtATime, At
  <2>4. ProgressIsCurrent'
    BY <2>1, <2>3 DEF ProgressIsCurrent, Latest
  <2> QED
    BY <2>2, <2>4
<1>2. ASSUME NEW l \in Launches, Outside(l)
      PROVE  ViewInv'
  <2>1. /\ UNCHANGED <<call, outcome, mine, scanning, shown, error, progress, door>>
        /\ \A k \in Launches : socket[k] # "none" => socket'[k] # "none"
    BY <1>2 DEF Outside, SocketEnds, JobStep, viewVars, ClientInv, ClientTypeOK
  <2>2. progress \in Launches \union {0}
    BY DEF TypeOK
  <2>3. OneAtATime' /\ OwnsBegun' /\ ShownIsOwn'
    BY <2>1 DEF OneAtATime, OwnsBegun, ShownIsOwn, At, Latest
  <2>4. ProgressIsCurrent'
    BY <2>1, <2>2 DEF ProgressIsCurrent, Latest
  <2> QED
    BY <2>3, <2>4
<1>3. CASE LaunchNothing
  <2>1. /\ error' = NoTarget /\ NoTarget \notin Launches
        /\ UNCHANGED <<call, outcome, socket, mine, scanning, shown, progress, door>>
    BY <1>3, LaunchesAssumption DEF LaunchNothing, clientVars, NoTarget, Launches
  <2> QED
    BY <2>1 DEF OneAtATime, OwnsBegun, ShownIsOwn, ProgressIsCurrent, At, Latest
<1>4. CASE InspectDoor \/ CloseDoor
  <2>1. /\ door' \in {shown, 0}
        /\ UNCHANGED <<call, outcome, socket, mine, scanning, shown, error, progress>>
    BY <1>4 DEF InspectDoor, CloseDoor, clientVars
  <2> QED
    BY <2>1 DEF OneAtATime, OwnsBegun, ShownIsOwn, ProgressIsCurrent, At, Latest
<1>5. CASE ScanExport \/ Select \/ ClearReports \/ VaultExport
  <2>1. UNCHANGED <<call, outcome, socket, mine, scanning, shown, error, progress, door>>
    BY <1>5 DEF ScanExport, Select, ClearReports, VaultExport, clientVars, viewVars
  <2> QED
    BY <2>1 DEF OneAtATime, OwnsBegun, ShownIsOwn, ProgressIsCurrent, At, Latest
<1>6. ASSUME NEW t \in Tabs, OpenTab(t)
      PROVE  ViewInv'
  <2>1. /\ mine' = {} /\ scanning' = FALSE
        /\ shown' = 0 /\ error' = 0 /\ door' = 0
    BY <1>6 DEF OpenTab
  <2> QED
    BY <2>1 DEF OneAtATime, OwnsBegun, ShownIsOwn, ProgressIsCurrent, Launches
<1> QED
  BY <1>1, <1>2, <1>3, <1>4, <1>5, <1>6

(* The views' variables keep their types.                                  *)
LEMMA ViewTypes ==
  ASSUME IInv, ClientTypeOK', [Next]_vars
  PROVE  TypeOK'
<1> USE DEF IInv, TypeOK
<1>1. /\ 0 \in 0..NoTarget /\ NoTarget \in 0..NoTarget
      /\ Launches \subseteq 0..NoTarget
  BY LaunchesAssumption DEF NoTarget, Launches
<1>2. ASSUME NEW l \in Launches,
             Launch(l) \/ Continue(l) \/ Reject(l) \/ Telemetry(l) \/ Outside(l)
      PROVE  TypeOK'
  <2>1. /\ tab' = tab /\ reports' = reports /\ sel' = sel /\ download' = download
        /\ mine' \in {mine, mine \union {l}} /\ scanning' \in {scanning, TRUE, FALSE}
        /\ shown' \in {shown, 0} /\ error' \in {error, l, 0}
        /\ progress' \in {progress, l, 0} /\ door' \in {door, 0}
    BY <1>2 DEF Launch, Reset, Continue, Reject, Telemetry, Outside, viewVars
  <2> QED
    BY <1>1, <2>1
<1>3. ASSUME NEW l \in Launches, Resolve(l)
      PROVE  TypeOK'
  <2>1. /\ UNCHANGED <<tab, mine, error, door, sel, download>>
        /\ shown' \in {shown, l} /\ progress' \in {progress, l}
        /\ scanning' \in {scanning, FALSE}
    BY <1>3 DEF Resolve
  <2>2. reports' = <<l>> \o reports
    BY <1>3 DEF Resolve, Keep
  <2>3. reports' \in Seq(Launches)
    BY <2>2
  <2> QED
    BY <2>1, <2>3
<1>4. CASE LaunchNothing \/ InspectDoor \/ CloseDoor
  BY <1>1, <1>4 DEF LaunchNothing, InspectDoor, CloseDoor
<1>5. CASE ScanExport \/ Select \/ ClearReports
  <2>1. UNCHANGED <<tab, mine, scanning, shown, error, progress, door>>
    BY <1>5 DEF ScanExport, Select, ClearReports, viewVars
  <2>2. \A i \in 1..Len(reports) : reports[i] \in Launches
    OBVIOUS
  <2>3. /\ sel' \in Launches \union {0} /\ download' \in Launches \union {0}
        /\ reports' \in {reports, <<>>}
    BY <1>5, <2>2 DEF ScanExport, Select, ClearReports
  <2>4. CASE reports' = reports
    BY <2>1, <2>3, <2>4
  <2>5. CASE reports' = <<>>
    BY <2>1, <2>3, <2>5
  <2> QED
    BY <2>3, <2>4, <2>5
<1>6. CASE VaultExport
  <2>1. reports # <<>> => Head(reports) \in Launches
    OBVIOUS
  <2> QED
    BY <1>6, <2>1 DEF VaultExport, ActiveReport, viewVars
<1>7. ASSUME NEW t \in Tabs, OpenTab(t)
      PROVE  TypeOK'
  <2>1. reports # <<>> => Head(reports) \in Launches
    OBVIOUS
  <2> QED
    BY <1>1, <1>7, <2>1 DEF OpenTab
<1>8. CASE UNCHANGED vars
  <2>1. UNCHANGED <<tab, mine, scanning, shown, error, progress, door, reports, sel, download>>
    BY <1>8 DEF vars, viewVars
  <2> QED
    BY <2>1
<1> QED
  BY <1>2, <1>3, <1>4, <1>5, <1>6, <1>7, <1>8 DEF Next

LEMMA InvInit == Init => IInv
<1> SUFFICES ASSUME Init PROVE IInv
  OBVIOUS
<1> USE LaunchesAssumption, AttemptsAssumption DEF Init, ClientInit
<1>1. ClientTypeOK
  BY DEF ClientTypeOK
<1>2. TypeOK
  <2>1. 0 \in 0..NoTarget /\ <<>> \in Seq(Launches)
    BY DEF NoTarget
  <2> QED
    BY <1>1, <2>1 DEF TypeOK, Tabs
<1>3. ClientInv
  BY <1>1 DEF ClientInv, SettledHasOutcome, NoJobBefore, PollsLeft,
         SimulatesOnRequest, HonestOutcome, Errors, At
<1>4. OneAtATime /\ OwnsBegun /\ ShownIsOwn /\ ProgressIsCurrent
  BY DEF OneAtATime, OwnsBegun, ShownIsOwn, ProgressIsCurrent, Launches
<1> QED
  BY <1>2, <1>3, <1>4 DEF IInv

LEMMA InvStep == IInv /\ [Next]_vars => IInv'
<1> SUFFICES ASSUME IInv, [Next]_vars PROVE IInv'
  OBVIOUS
<1>1. ASSUME NEW l \in Launches, Launch(l)
      PROVE  ClientInv' /\ ViewInv'
  BY <1>1, BeginKeepsInv, LaunchKeepsView DEF IInv, Launch
<1>2. ASSUME NEW l \in Launches, Continue(l)
      PROVE  ClientInv' /\ ViewInv'
  BY <1>2, CallStepKeepsInv, ContinueKeepsView DEF IInv, Continue
<1>3. ASSUME NEW l \in Launches, Resolve(l) \/ Reject(l)
      PROVE  ClientInv' /\ ViewInv'
  BY <1>3, CallStepKeepsInv, SettlingKeepsView DEF IInv, Resolve, Reject
<1>4. ASSUME NEW l \in Launches, Outside(l)
      PROVE  ClientInv' /\ ViewInv'
  BY <1>4, OutsideKeepsInv, OthersKeepView DEF IInv, Outside
<1>5. ASSUME UNCHANGED clientVars
      PROVE  ClientInv'
  BY <1>5 DEF IInv, ClientInv, clientVars, ClientTypeOK, SettledHasOutcome, NoJobBefore,
              PollsLeft, SimulatesOnRequest, HonestOutcome, At
<1>6. ASSUME NEW l \in Launches, Telemetry(l)
      PROVE  ClientInv' /\ ViewInv'
  BY <1>5, <1>6, OthersKeepView DEF Telemetry
<1>7. ASSUME \/ LaunchNothing \/ InspectDoor \/ CloseDoor \/ ScanExport
             \/ Select \/ ClearReports \/ VaultExport
             \/ \E t \in Tabs : OpenTab(t)
      PROVE  ClientInv' /\ ViewInv'
  <2>1. UNCHANGED clientVars
    BY <1>7 DEF LaunchNothing, InspectDoor, CloseDoor, ScanExport, Select, ClearReports,
                VaultExport, OpenTab
  <2> QED
    BY <1>5, <1>7, <2>1, OthersKeepView
<1>8. ASSUME UNCHANGED vars
      PROVE  ClientInv' /\ ViewInv'
  <2>1. UNCHANGED clientVars /\ UNCHANGED <<mine, scanning, shown, error, progress, door>>
    BY <1>8 DEF vars, viewVars
  <2>2. ViewInv'
    BY <2>1 DEF IInv, ViewInv, OneAtATime, OwnsBegun, ShownIsOwn, ProgressIsCurrent, At,
                Latest, clientVars
  <2> QED
    BY <1>5, <2>1, <2>2
<1>9. ClientInv' /\ ViewInv'
  BY <1>1, <1>2, <1>3, <1>4, <1>6, <1>7, <1>8 DEF Next
<1>10. TypeOK'
  BY <1>9, ViewTypes DEF ClientInv
<1> QED
  BY <1>9, <1>10 DEF IInv, ViewInv

LEMMA Invariance == Spec => []IInv
  BY InvInit, InvStep, PTL DEF Spec

(* Every variable of the scanner tab, the vault and their client keeps its *)
(* type; above all no launch polls more often than its bound (api.ts,      *)
(* pollScanUntilComplete).                                                 *)
THEOREM TypeCorrect == Spec => []TypeOK
  BY Invariance, PTL DEF IInv

(* What submitScan resolves to or throws is true of its scan, for every    *)
(* number of concurrent launches and polls (api.ts).                       *)
THEOREM OutcomesAreHonest == Spec => []HonestOutcome
<1>1. IInv => HonestOutcome
  BY DEF IInv, ClientInv
<1> QED
  BY <1>1, Invariance, PTL

(* The scanner view shows the state of its own latest launch, whatever     *)
(* other launches are under way (ScanEngine.tsx).                          *)
THEOREM ViewShowsOwnLaunch == Spec => []ShownIsOwn
  BY Invariance, PTL DEF IInv

(* The line of progress beside a scan under way is its own, or one that an *)
(* unclosed socket of the same view wrote (ScanEngine.tsx, api.ts).        *)
THEOREM ProgressOfLatest == Spec => []ProgressIsCurrent
  BY Invariance, PTL DEF IInv

---------------------------------------------------------------------------
(* The column of results. *)

(* The complaint about missing targets goes when a scan begins.            *)
ComplaintGoes == scanning => error # NoTarget

LEMMA ComplaintStep == TypeOK /\ ComplaintGoes /\ [Next]_vars => ComplaintGoes'
<1> SUFFICES ASSUME TypeOK, ComplaintGoes, [Next]_vars PROVE ComplaintGoes'
  OBVIOUS
<1>1. NoTarget' = NoTarget /\ \A l \in Launches \union {0} : l # NoTarget
  BY LaunchesAssumption DEF NoTarget, Launches
<1>2. ASSUME UNCHANGED <<scanning, error>> PROVE ComplaintGoes'
  BY <1>1, <1>2 DEF ComplaintGoes
<1>3. ASSUME NEW l \in Launches, Launch(l)
      PROVE  ComplaintGoes'
  BY <1>1, <1>3 DEF Launch, Reset, ComplaintGoes
<1>4. ASSUME NEW l \in Launches, Resolve(l)
      PROVE  ComplaintGoes'
  BY <1>1, <1>4 DEF Resolve, ComplaintGoes
<1>5. ASSUME NEW l \in Launches, Reject(l)
      PROVE  ComplaintGoes'
  BY <1>1, <1>5 DEF Reject, ComplaintGoes
<1>6. ASSUME NEW l \in Launches, Continue(l) \/ Telemetry(l) \/ Outside(l)
      PROVE  ComplaintGoes'
  BY <1>2, <1>6 DEF Continue, Telemetry, Outside, viewVars
<1>7. CASE LaunchNothing
  BY <1>7 DEF LaunchNothing, ComplaintGoes
<1>8. CASE InspectDoor \/ CloseDoor \/ ScanExport \/ Select \/ ClearReports \/ VaultExport
           \/ UNCHANGED vars
  BY <1>2, <1>8 DEF InspectDoor, CloseDoor, ScanExport, Select, ClearReports, VaultExport,
                    vars, viewVars
<1>9. ASSUME NEW t \in Tabs, OpenTab(t)
      PROVE  ComplaintGoes'
  BY <1>9 DEF OpenTab, ComplaintGoes
<1> QED
  BY <1>3, <1>4, <1>5, <1>6, <1>7, <1>8, <1>9 DEF Next

LEMMA ComplaintInvariance == Spec => []ComplaintGoes
<1>1. Init => ComplaintGoes
  BY DEF Init, ComplaintGoes
<1>2. IInv => TypeOK
  BY DEF IInv
<1> QED
  BY <1>1, <1>2, ComplaintStep, Invariance, PTL DEF Spec

(* A report or an error is on screen only after its launch, the latest of  *)
(* the view, has settled, with the one or the other.                       *)
LEMMA PanelsExclude ==
  ASSUME IInv, ComplaintGoes
  PROVE  /\ scanning => shown = 0 /\ error = 0
         /\ shown # 0 => error \in {0, NoTarget}
<1>1. \A l, k \in Launches : Latest(l) /\ Latest(k) => l = k
  BY LaunchesAssumption DEF Latest, Launches
<1>2. /\ shown # 0 => shown \in Launches /\ Latest(shown) /\ outcome[shown] \in Reports
      /\ error \in Launches => Latest(error) /\ outcome[error] \in Errors
  BY DEF IInv, TypeOK, ShownIsOwn
<1>3. error \in Launches \union {0, NoTarget}
  BY LaunchesAssumption DEF IInv, TypeOK, NoTarget, Launches
<1>4. ASSUME scanning PROVE shown = 0 /\ error = 0
  <2>1. PICK l \in mine : call[l] # "settled"
    BY <1>4 DEF IInv, ShownIsOwn
  <2>2. l \in Launches /\ Latest(l) /\ outcome[l] = "none"
    BY <2>1 DEF IInv, TypeOK, OneAtATime, ClientInv, SettledHasOutcome, At
  <2>3. error # NoTarget
    BY <1>4 DEF ComplaintGoes
  <2> QED
    BY <1>1, <1>2, <1>3, <2>2, <2>3, OutcomesDiffer
<1>5. ASSUME shown # 0 PROVE error \in {0, NoTarget}
  BY <1>1, <1>2, <1>3, <1>5, OutcomesDiffer
<1> QED
  BY <1>4, <1>5

(* Safety: the column of results shows one panel, never none, and nothing  *)
(* beside a scan under way (ScanEngine.tsx).                               *)
THEOREM ColumnShowsOnePanel == Spec => []OnePanel
<1>1. IInv /\ ComplaintGoes => OnePanel
  <2> SUFFICES ASSUME IInv, ComplaintGoes PROVE OnePanel
    OBVIOUS
  <2>1. /\ scanning => shown = 0 /\ error = 0
        /\ shown # 0 => error \in {0, NoTarget}
        /\ scanning \in BOOLEAN
    BY PanelsExclude DEF IInv, TypeOK
  <2>2. \A p : Panels = {p} => OnePanel
    BY FS_Singleton DEF OnePanel
  <2>3. CASE scanning
    <3>1. Panels = {"progress"}
      BY <2>1, <2>3 DEF Panels
    <3> QED
      BY <2>2, <3>1
  <2>4. CASE ~ scanning /\ shown = 0 /\ error = 0
    <3>1. Panels = {"ready"}
      BY <2>4 DEF Panels
    <3> QED
      BY <2>2, <3>1
  <2>5. CASE ~ scanning /\ shown = 0 /\ error # 0
    <3>1. Panels = {"error"}
      BY <2>5 DEF Panels
    <3> QED
      BY <2>2, <3>1
  <2>6. CASE ~ scanning /\ shown # 0 /\ error = 0
    <3>1. Panels = {"results"}
      BY <2>6 DEF Panels
    <3> QED
      BY <2>2, <3>1
  <2>7. CASE ~ scanning /\ shown # 0 /\ error # 0
    <3>1. Panels = {"error", "results"} /\ error = NoTarget
      BY <2>1, <2>7 DEF Panels
    <3> QED
      BY <3>1 DEF OnePanel
  <2> QED
    BY <2>3, <2>4, <2>5, <2>6, <2>7
<1> QED
  BY <1>1, Invariance, ComplaintInvariance, PTL

---------------------------------------------------------------------------
(* Refinement. *)

Bar == [l \in Launches |-> Phase(l)]

LEMMA SettlingMaps ==
  ASSUME IInv, NEW l \in Launches, Resolve(l) \/ Reject(l)
  PROVE  Promise!Next
<1>1. /\ call[l] \notin {"idle", "settled"} /\ outcome[l] = "none"
      /\ call' = [call EXCEPT ![l] = "settled"]
      /\ \A k \in Launches \ {l} : outcome'[k] = outcome[k]
  BY SettlingCall, CallStepEffect DEF IInv, Resolve, Reject
<1>2. call \in [Launches -> Phases]
  BY DEF IInv, TypeOK, ClientTypeOK, Phases
<1>3. Bar[l] = "pending" /\ \A k \in Launches \ {l} : Bar'[k] = Bar[k]
  BY <1>1, <1>2 DEF Bar, Phase
<1>4. CASE Resolve(l)
  <2>1. Bar'[l] = "report"
    BY <1>1, <1>2, <1>4 DEF Bar, Phase, Resolve
  <2>2. Bar' = [Bar EXCEPT ![l] = "report"]
    BY <1>3, <2>1 DEF Bar
  <2>3. Promise!Report(l)
    BY <1>3, <1>4, <2>2 DEF Promise!Report, Resolve, Keep, Bar
  <2> QED
    BY <2>3 DEF Promise!Next, Promise!Launches, Launches
<1>5. CASE Reject(l)
  <2>1. Bar'[l] = "error"
    BY <1>1, <1>2, <1>5, OutcomesDiffer DEF Bar, Phase, Reject
  <2>2. Bar' = [Bar EXCEPT ![l] = "error"]
    BY <1>3, <2>1 DEF Bar
  <2>3. Promise!Error(l)
    BY <1>3, <1>5, <2>2 DEF Promise!Error, Reject, Bar
  <2> QED
    BY <2>3 DEF Promise!Next, Promise!Launches, Launches
<1> QED
  BY <1>4, <1>5

LEMMA StepMaps ==
  IInv /\ [Next]_vars => [Promise!Next]_<<Bar, reports>>
<1> SUFFICES ASSUME IInv, [Next]_vars
             PROVE  Promise!Next \/ UNCHANGED <<Bar, reports>>
  OBVIOUS
<1>1. call \in [Launches -> Phases]
  BY DEF IInv, TypeOK, ClientTypeOK, Phases
<1>2. ASSUME NEW l \in Launches, Launch(l)
      PROVE  Promise!Next
  <2>1. call[l] = "idle" /\ call' = [call EXCEPT ![l] = "health"] /\ UNCHANGED <<outcome, reports>>
    BY <1>2 DEF Launch, Begin, At, Go
  <2>2. Bar[l] = "idle" /\ Bar' = [Bar EXCEPT ![l] = "pending"]
    BY <1>1, <2>1 DEF Bar, Phase
  <2>3. Promise!Start(l)
    BY <2>1, <2>2 DEF Promise!Start, Bar
  <2> QED
    BY <2>3 DEF Promise!Next, Promise!Launches, Launches
<1>3. ASSUME NEW l \in Launches, Continue(l)
      PROVE  UNCHANGED <<Bar, reports>>
  <2>1. /\ \E phase \in Phases \ {"idle"} : call' = [call EXCEPT ![l] = phase]
        /\ call[l] \notin {"idle", "settled"} /\ call'[l] # "settled"
        /\ UNCHANGED <<outcome, reports>>
    BY <1>3, CallStepEffect DEF IInv, Continue, Go
  <2>2. \A k \in Launches : Phase(k)' = Phase(k)
    BY <1>1, <2>1 DEF Phase
  <2> QED
    BY <2>1, <2>2 DEF Bar
<1>4. ASSUME NEW l \in Launches, Resolve(l) \/ Reject(l)
      PROVE  Promise!Next
  BY <1>4, SettlingMaps
<1>5. ASSUME UNCHANGED <<call, outcome, reports>>
      PROVE  UNCHANGED <<Bar, reports>>
  BY <1>5 DEF Bar, Phase
<1>6. ASSUME NEW l \in Launches, Telemetry(l) \/ Outside(l)
      PROVE  UNCHANGED <<Bar, reports>>
  BY <1>5, <1>6 DEF Telemetry, Outside, SocketEnds, JobStep, clientVars
<1>7. ASSUME ClearReports
      PROVE  Promise!Next
  <2>1. UNCHANGED Bar /\ reports' = <<>>
    BY <1>7 DEF ClearReports, clientVars, Bar, Phase
  <2> QED
    BY <2>1 DEF Promise!Next, Promise!Clear, Bar
<1>8. ASSUME \/ LaunchNothing \/ InspectDoor \/ CloseDoor \/ ScanExport
             \/ Select \/ VaultExport
             \/ \E t \in Tabs : OpenTab(t)
      PROVE  UNCHANGED <<Bar, reports>>
  BY <1>5, <1>8 DEF LaunchNothing, InspectDoor, CloseDoor, ScanExport, Select,
                    VaultExport, OpenTab, clientVars
<1>9. ASSUME UNCHANGED vars
      PROVE  UNCHANGED <<Bar, reports>>
  BY <1>5, <1>9 DEF vars, clientVars
<1> QED
  BY <1>2, <1>3, <1>4, <1>6, <1>7, <1>8, <1>9 DEF Next

(* The dashboard implements the promise: each launch settles once, and its *)
(* report is in the vault from that step on, whichever tab is open and     *)
(* whatever else is under way (App.tsx, ScanEngine.tsx).                   *)
THEOREM DashboardImplementsPromise == Spec => ImplementsPromise
<1>1. Init => Promise!Init
  BY DEF Init, ClientInit, Promise!Init, Phase, Promise!Launches, Launches
<1>2. IInv /\ [Next]_vars => [Promise!Next]_<<Bar, reports>>
  BY StepMaps
<1> QED
  BY <1>1, <1>2, Invariance, PTL DEF Spec, ImplementsPromise, Promise!Spec, Promise!vars, Bar

=============================================================================
