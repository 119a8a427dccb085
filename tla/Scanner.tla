------------------------------ MODULE Scanner ------------------------------
(***************************************************************************)
(* One run of AsyncServiceScanner.stream_hosts (core/scanner.py): a task   *)
(* per host, a task per port under it, all sharing one semaphore; results  *)
(* are yielded as hosts complete, and a cancelled generator winds its      *)
(* tasks down before it ends.                                              *)
(***************************************************************************)
EXTENDS Naturals, FiniteSets

CONSTANTS
  Hosts,           \* addresses left by _prepare
  Ports,           \* ScanRequest.ports
  MaxConcurrency,  \* ScanRequest.max_concurrency
  MaxRetries,      \* ScanRequest.max_retries
  Crashes          \* TRUE: a probe may raise what _probe does not expect

ASSUME TargetsAssumption == IsFiniteSet(Hosts) /\ IsFiniteSet(Ports)
ASSUME ConcurrencyAssumption == MaxConcurrency \in Nat \ {0}
ASSUME RetriesAssumption == MaxRetries \in Nat
ASSUME CrashesAssumption == Crashes \in BOOLEAN

Probes == Hosts \X Ports
ProbesOf(h) == {h} \X Ports

VARIABLES
  scan,       \* the generator: "running", "draining" or "ended"
  host,       \* host -> its task: "busy", "cancelling", "cancelled" or "done"
  yielded,    \* hosts whose result the generator handed out
  probe,      \* probe -> where its task stands
  attempt,    \* probe -> retries used
  outcome,    \* probe -> how it ended, "none" before
  cancelled,  \* probes whose task was cancelled
  permits     \* free permits of the semaphore

vars == <<scan, host, yielded, probe, attempt, outcome, cancelled, permits>>

(* A probe waits for a permit, is granted one it has not noticed yet, or   *)
(* dials, reads a banner, and closes its socket with the permit in hand.   *)
Dialing == {"connecting", "connected", "closing"}
Holding == Dialing \union {"granted"}
ProbeStates == Holding \union {"ready", "queued", "backoff", "over"}
In(states) == {p \in Probes : probe[p] \in states}

Verdicts == {"open", "closed", "filtered"}

Crashed(h) == \E p \in ProbesOf(h) : outcome[p] = "crashed"

---------------------------------------------------------------------------
(* Broken: a release that wakes nobody.                                    *)
SilentRelease(p, next) ==
  /\ permits' = permits + 1
  /\ probe' = [probe EXCEPT ![p] = next]

(* asyncio.Semaphore: a release hands its permit to a waiter if there is   *)
(* one.  Moves p to its next state.                                        *)
Release(p, next) ==
  \/ /\ In({"queued"}) \ {p} = {}
     /\ permits' = permits + 1
     /\ probe' = [probe EXCEPT ![p] = next]
  \/ \E w \in In({"queued"}) \ {p} :
       /\ probe' = [probe EXCEPT ![p] = next, ![w] = "granted"]
       /\ UNCHANGED permits

Unhurt(p) == p \notin cancelled

Acquire(p) ==
  /\ Unhurt(p)
  /\ probe[p] = "ready"
  /\ IF permits > 0
     THEN permits' = permits - 1 /\ probe' = [probe EXCEPT ![p] = "connecting"]
     ELSE UNCHANGED permits /\ probe' = [probe EXCEPT ![p] = "queued"]
  /\ UNCHANGED <<scan, host, yielded, attempt, outcome, cancelled>>

Advance(p, from, to) ==
  /\ Unhurt(p)
  /\ probe[p] = from
  /\ probe' = [probe EXCEPT ![p] = to]
  /\ UNCHANGED <<scan, host, yielded, cancelled, permits>>

Resume(p) == Advance(p, "granted", "connecting") /\ UNCHANGED <<attempt, outcome>>
Connected(p) == Advance(p, "connecting", "connected") /\ UNCHANGED <<attempt, outcome>>
Retry(p) == Advance(p, "backoff", "ready") /\ UNCHANGED <<attempt, outcome>>

(* The peer check and the banner; either way the socket is closed next.    *)
Served(p) ==
  /\ Advance(p, "connected", "closing")
  /\ \E o \in {"open", "filtered"} : outcome' = [outcome EXCEPT ![p] = o]
  /\ UNCHANGED attempt

Finished(p) ==
  /\ Unhurt(p)
  /\ probe[p] = "closing"
  /\ Release(p, "over")
  /\ UNCHANGED <<scan, host, yielded, attempt, outcome, cancelled>>

(* The dial fails.  A refusal is a verdict, a timeout or another OSError   *)
(* is retried outside the semaphore while attempts are left.               *)
Refused(p) ==
  /\ Unhurt(p)
  /\ probe[p] = "connecting"
  /\ Release(p, "over")
  /\ outcome' = [outcome EXCEPT ![p] = "closed"]
  /\ UNCHANGED <<scan, host, yielded, attempt, cancelled>>

(* Broken: one attempt too many.                                           *)
StubbornUnreachable(p) ==
  /\ Unhurt(p)
  /\ probe[p] = "connecting"
  /\ attempt[p] <= MaxRetries
  /\ Release(p, "backoff")
  /\ attempt' = [attempt EXCEPT ![p] = @ + 1]
  /\ UNCHANGED <<scan, host, yielded, outcome, cancelled>>

Unreachable(p) ==
  /\ Unhurt(p)
  /\ probe[p] = "connecting"
  /\ IF attempt[p] < MaxRetries
     THEN /\ Release(p, "backoff")
          /\ attempt' = [attempt EXCEPT ![p] = @ + 1]
          /\ UNCHANGED outcome
     ELSE /\ Release(p, "over")
          /\ outcome' = [outcome EXCEPT ![p] = "filtered"]
          /\ UNCHANGED attempt
  /\ UNCHANGED <<scan, host, yielded, cancelled>>

Crash(p) ==
  /\ Crashes
  /\ Unhurt(p)
  /\ probe[p] = "connecting"
  /\ Release(p, "over")
  /\ outcome' = [outcome EXCEPT ![p] = "crashed"]
  /\ UNCHANGED <<scan, host, yielded, attempt, cancelled>>

(* Broken: a cancellation between grant and wake-up loses the permit.      *)
LeakyCancelled(p) ==
  /\ p \in cancelled
  /\ \/ /\ probe[p] \in {"ready", "queued", "backoff", "granted"}
        /\ probe' = [probe EXCEPT ![p] = "over"]
        /\ UNCHANGED permits
     \/ probe[p] \in {"connecting", "closing"} /\ Release(p, "over")
     \/ /\ probe[p] = "connected"
        /\ probe' = [probe EXCEPT ![p] = "closing"]
        /\ UNCHANGED permits
  /\ outcome' = [outcome EXCEPT ![p] = "cancelled"]
  /\ UNCHANGED <<scan, host, yielded, attempt, cancelled>>

(* CancelledError, at whichever await the probe stands: a held permit goes *)
(* back, and an open socket is closed first, under that permit.            *)
Cancelled(p) ==
  /\ p \in cancelled
  /\ \/ /\ probe[p] \in {"ready", "queued", "backoff"}
        /\ probe' = [probe EXCEPT ![p] = "over"]
        /\ UNCHANGED permits
     \/ probe[p] \in {"granted", "connecting", "closing"} /\ Release(p, "over")
     \/ /\ probe[p] = "connected"
        /\ probe' = [probe EXCEPT ![p] = "closing"]
        /\ UNCHANGED permits
  /\ outcome' = [outcome EXCEPT ![p] = "cancelled"]
  /\ UNCHANGED <<scan, host, yielded, attempt, cancelled>>

ProbeStep(p) ==
  \/ Acquire(p) \/ Resume(p) \/ Connected(p) \/ Served(p) \/ Finished(p)
  \/ Refused(p) \/ Unreachable(p) \/ Retry(p) \/ Crash(p) \/ Cancelled(p)

---------------------------------------------------------------------------
(* Broken: the host answers with its first probe.                          *)
HostDoneEarly(h) ==
  /\ host[h] = "busy"
  /\ ProbesOf(h) \cap In({"over"}) # {}
  /\ host' = [host EXCEPT ![h] = "done"]
  /\ UNCHANGED <<scan, yielded, probe, attempt, outcome, cancelled, permits>>

(* _scan_host: gather answers when every probe is over, or at the first    *)
(* exception, without stopping the other probes.                           *)
HostDone(h) ==
  /\ host[h] = "busy"
  /\ Crashed(h) \/ ProbesOf(h) \subseteq In({"over"})
  /\ host' = [host EXCEPT ![h] = "done"]
  /\ UNCHANGED <<scan, yielded, probe, attempt, outcome, cancelled, permits>>

HostCancelled(h) ==
  /\ host[h] = "cancelling"
  /\ Crashed(h) \/ ProbesOf(h) \subseteq In({"over"})
  /\ host' = [host EXCEPT ![h] = "cancelled"]
  /\ UNCHANGED <<scan, yielded, probe, attempt, outcome, cancelled, permits>>

(* stream_hosts: as_completed yields each result, and the last ends it.    *)
Yield(h) ==
  /\ scan = "running"
  /\ host[h] = "done"
  /\ h \notin yielded
  /\ yielded' = yielded \union {h}
  /\ scan' = IF yielded' = Hosts THEN "ended" ELSE "running"
  /\ UNCHANGED <<host, probe, attempt, outcome, cancelled, permits>>

(* The consumer's task is cancelled: the finally clause cancels the hosts  *)
(* not done, which cancels their probes - those of a gather that already   *)
(* failed excepted - and awaits the hosts.                                 *)
Cancel ==
  /\ scan = "running"
  /\ scan' = "draining"
  /\ host' = [h \in Hosts |-> IF host[h] = "busy" THEN "cancelling" ELSE host[h]]
  /\ cancelled' = {p \in In(ProbeStates \ {"over"}) : host[p[1]] = "busy" /\ ~ Crashed(p[1])}
  /\ UNCHANGED <<yielded, probe, attempt, outcome, permits>>

(* Broken: the generator cancels its tasks and does not await them.        *)
DrainedHastily ==
  /\ scan = "draining"
  /\ scan' = "ended"
  /\ UNCHANGED <<host, yielded, probe, attempt, outcome, cancelled, permits>>

Drained ==
  /\ scan = "draining"
  /\ \A h \in Hosts : host[h] # "cancelling"
  /\ scan' = "ended"
  /\ UNCHANGED <<host, yielded, probe, attempt, outcome, cancelled, permits>>

---------------------------------------------------------------------------
Init ==
  /\ scan = "running"
  /\ host = [h \in Hosts |-> "busy"]
  /\ yielded = {}
  /\ probe = [p \in Probes |-> "ready"]
  /\ attempt = [p \in Probes |-> 0]
  /\ outcome = [p \in Probes |-> "none"]
  /\ cancelled = {}
  /\ permits = MaxConcurrency

Next ==
  \/ \E p \in Probes : ProbeStep(p)
  \/ \E h \in Hosts : HostDone(h) \/ HostCancelled(h) \/ Yield(h)
  \/ Cancel
  \/ Drained

Spec == Init /\ [][Next]_vars

(* The event loop runs ready tasks, and each wait has a deadline: connect, *)
(* banner and backoff are bounded, closing a socket needs no peer.         *)
Fairness ==
  /\ \A p \in Probes : WF_vars(ProbeStep(p))
  /\ \A h \in Hosts : WF_vars(HostDone(h)) /\ WF_vars(HostCancelled(h)) /\ WF_vars(Yield(h))
  /\ WF_vars(Drained)

FairSpec == Spec /\ Fairness

---------------------------------------------------------------------------
(* Properties. *)

TypeOK ==
  /\ scan \in {"running", "draining", "ended"}
  /\ host \in [Hosts -> {"busy", "cancelling", "cancelled", "done"}]
  /\ yielded \subseteq Hosts
  /\ probe \in [Probes -> ProbeStates]
  /\ attempt \in [Probes -> 0..MaxRetries]
  /\ outcome \in [Probes -> Verdicts \union {"none", "crashed", "cancelled"}]
  /\ cancelled \subseteq Probes
  /\ permits \in 0..MaxConcurrency

(* Every permit is free or held by one probe, through retries, refusals,   *)
(* crashes and cancellations caught between grant and wake-up.             *)
PermitsConserved == permits + Cardinality(In(Holding)) = MaxConcurrency

(* No more sockets at once than max_concurrency, whatever the fan-out.     *)
SocketsBounded == Cardinality(In(Dialing)) <= MaxConcurrency

(* No probe is left queued beside a free permit: no wake-up is lost.       *)
NoLostWakeup == permits > 0 => In({"queued"}) = {}

(* A yielded host without a crash has one verdict for each of its ports.   *)
YieldedIsComplete ==
  \A h \in yielded :
    Crashed(h) \/ \A p \in ProbesOf(h) : probe[p] = "over" /\ outcome[p] \in Verdicts

(* Nothing outlives the scan, cancelled or not, but probes of a host that  *)
(* crashed: those go on with no task awaiting them.                        *)
NothingOutlivesScan ==
  scan = "ended" =>
    \A p \in Probes : probe[p] = "over" \/ Crashed(p[1])

(* A scan never stalls on a peer, and all permits come back, also from the *)
(* orphans of a crashed host.                                              *)
ScanEnds == <>[](scan = "ended" /\ permits = MaxConcurrency)

=============================================================================
