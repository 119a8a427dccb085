--------------------------- MODULE ScannerProofs ---------------------------
(***************************************************************************)
(* Theorems about one scan, for every finite set of hosts and of ports,    *)
(* every limit of concurrency and every number of retries, with crashes    *)
(* or without.                                                             *)
(***************************************************************************)
EXTENDS Scanner, FiniteSetTheorems, TLAPS

(* The limit on permits aside, which follows from their conservation.      *)
TasksTyped ==
  /\ scan \in {"running", "draining", "ended"}
  /\ host \in [Hosts -> {"busy", "cancelling", "cancelled", "done"}]
  /\ yielded \subseteq Hosts
  /\ probe \in [Probes -> ProbeStates]
  /\ attempt \in [Probes -> 0..MaxRetries]
  /\ outcome \in [Probes -> Verdicts \union {"none", "crashed", "cancelled"}]
  /\ cancelled \subseteq Probes
  /\ permits \in Nat

Accounts == TasksTyped /\ PermitsConserved /\ NoLostWakeup

(* A probe that nobody cancelled has its outcome before it closes.         *)
OutcomeKnown ==
  \A p \in Probes \ cancelled :
    probe[p] \in {"closing", "over"} => outcome[p] \in Verdicts \union {"crashed"}

CrashIsOver == \A p \in Probes : outcome[p] = "crashed" => probe[p] = "over"

(* Probes are cancelled with their hosts, and only by a cancelled scan.    *)
CancelledByHost ==
  /\ \A p \in cancelled : host[p[1]] \in {"cancelling", "cancelled"}
  /\ scan = "running" => cancelled = {}

(* A host that ended left no probe behind unless one crashed.              *)
SettledIsOver ==
  \A h \in Hosts :
    host[h] \in {"done", "cancelled"} => Crashed(h) \/ \A p \in ProbesOf(h) : probe[p] = "over"

YieldedAreDone == \A h \in yielded : host[h] = "done"

(* No host is at work that the generator does not know of.                 *)
Draining ==
  /\ scan # "running" => \A h \in Hosts : host[h] # "busy"
  /\ scan = "ended" => \A h \in Hosts : host[h] # "cancelling"

Lives ==
  /\ OutcomeKnown
  /\ CrashIsOver
  /\ CancelledByHost
  /\ SettledIsOver
  /\ YieldedAreDone
  /\ Draining

IInv == Accounts /\ Lives

---------------------------------------------------------------------------
(* Permits. *)

LEMMA ProbesFinite ==
  ASSUME NEW S \in SUBSET Probes
  PROVE  IsFiniteSet(S) /\ Cardinality(S) \in Nat
<1>1. IsFiniteSet(Probes)
  BY TargetsAssumption, FS_Product DEF Probes
<1>2. IsFiniteSet(S)
  BY <1>1, FS_Subset
<1> QED
  BY <1>2, FS_CardinalityType

(* A release gives its permit back or passes it on.                        *)
LEMMA ReleaseKeepsAccounts ==
  ASSUME Accounts, NEW p \in Probes, NEW next \in ProbeStates \ Holding, next # "queued",
         probe[p] \in Holding, Release(p, next)
  PROVE  /\ probe' \in [Probes -> ProbeStates]
         /\ permits' \in Nat
         /\ PermitsConserved'
         /\ NoLostWakeup'
<1> USE DEF Accounts, TasksTyped, ProbeStates, Holding, Dialing, In
<1>0. In(Holding) \subseteq Probes /\ p \in In(Holding) /\ Cardinality(In(Holding)) \in Nat
      /\ IsFiniteSet(In(Holding))
  BY ProbesFinite
<1>1. CASE In({"queued"}) \ {p} = {} /\ permits' = permits + 1
           /\ probe' = [probe EXCEPT ![p] = next]
  <2>1. In(Holding)' = In(Holding) \ {p}
    BY <1>1
  <2>2. Cardinality(In(Holding)') = Cardinality(In(Holding)) - 1
    <3> HIDE DEF In, Holding
    <3> QED
      BY <2>1, <1>0, FS_RemoveElement
  <2>3. PermitsConserved'
    BY <2>2, <1>0, <1>1, ConcurrencyAssumption DEF PermitsConserved
  <2> QED
    BY <2>3, <1>1 DEF NoLostWakeup
<1>2. ASSUME NEW w \in In({"queued"}) \ {p},
             probe' = [probe EXCEPT ![p] = next, ![w] = "granted"], permits' = permits
      PROVE  /\ probe' \in [Probes -> ProbeStates]
             /\ permits' \in Nat
             /\ PermitsConserved'
             /\ NoLostWakeup'
  <2>1. In(Holding)' = (In(Holding) \ {p}) \union {w} /\ w \notin In(Holding) \ {p}
    BY <1>2
  <2>2. IsFiniteSet(In(Holding) \ {p})
        /\ Cardinality(In(Holding) \ {p}) = Cardinality(In(Holding)) - 1
    BY <1>0, FS_RemoveElement
  <2>3. Cardinality(In(Holding)') = Cardinality(In(Holding) \ {p}) + 1
    BY <2>1, <2>2, FS_AddElement
  <2>4. PermitsConserved'
    BY <2>2, <2>3, <1>0, <1>2, ConcurrencyAssumption DEF PermitsConserved
  <2>5. permits = 0
    BY <1>2 DEF NoLostWakeup
  <2> QED
    BY <2>4, <2>5, <1>2 DEF NoLostWakeup
<1> QED
  BY <1>1, <1>2 DEF Release

(* A move that takes no permit and gives none, nor queues.                 *)
LEMMA MoveKeepsAccounts ==
  ASSUME Accounts, NEW p \in Probes, NEW to \in ProbeStates, to # "queued",
         probe[p] \in Holding <=> to \in Holding,
         probe' = [probe EXCEPT ![p] = to], UNCHANGED permits
  PROVE  /\ probe' \in [Probes -> ProbeStates]
         /\ PermitsConserved'
         /\ NoLostWakeup'
<1> USE DEF Accounts, TasksTyped, In
<1>1. In(Holding)' = In(Holding)
  OBVIOUS
<1>2. PermitsConserved'
  BY <1>1 DEF PermitsConserved
<1> QED
  BY <1>2 DEF NoLostWakeup

(* A permit is taken, or waited for when there is none.                    *)
LEMMA AcquireKeepsAccounts ==
  ASSUME Accounts, NEW p \in Probes, Acquire(p)
  PROVE  /\ probe' \in [Probes -> ProbeStates]
         /\ permits' \in Nat
         /\ PermitsConserved'
         /\ NoLostWakeup'
<1> USE DEF Accounts, TasksTyped, ProbeStates, Holding, Dialing, In, Acquire
<1>0. In(Holding) \subseteq Probes /\ p \notin In(Holding) /\ Cardinality(In(Holding)) \in Nat
      /\ IsFiniteSet(In(Holding))
  BY ProbesFinite
<1>1. CASE permits > 0
  <2>1. In(Holding)' = In(Holding) \union {p}
    BY <1>1
  <2>2. Cardinality(In(Holding)') = Cardinality(In(Holding)) + 1
    <3> HIDE DEF In, Holding
    <3> QED
      BY <2>1, <1>0, FS_AddElement
  <2>3. PermitsConserved'
    BY <2>2, <1>0, <1>1, ConcurrencyAssumption DEF PermitsConserved
  <2> QED
    BY <2>3, <1>1 DEF NoLostWakeup
<1>2. CASE ~ (permits > 0)
  <2>1. In(Holding)' = In(Holding)
    BY <1>2
  <2>2. PermitsConserved'
    BY <2>1, <1>2 DEF PermitsConserved
  <2> QED
    BY <2>2, <1>2 DEF NoLostWakeup
<1> QED
  BY <1>1, <1>2

LEMMA ProbeStepKeepsAccounts ==
  ASSUME Accounts, NEW p \in Probes, ProbeStep(p)
  PROVE  Accounts'
<1> USE DEF Holding, Dialing, ProbeStates
<1>1. /\ probe' \in [Probes -> ProbeStates]
      /\ permits' \in Nat
      /\ PermitsConserved'
      /\ NoLostWakeup'
  <2>1. CASE Acquire(p)
    BY <2>1, AcquireKeepsAccounts
  <2>2. CASE \E from, to : Advance(p, from, to) /\ <<from, to>> \in
               {<<"granted", "connecting">>, <<"connecting", "connected">>,
                <<"connected", "closing">>, <<"backoff", "ready">>}
    BY <2>2, MoveKeepsAccounts DEF Advance, Accounts, TasksTyped
  <2>3. CASE /\ probe[p] \in {"granted", "connecting", "closing"}
             /\ Release(p, "over") \/ Release(p, "backoff")
    BY <2>3, ReleaseKeepsAccounts
  <2>4. CASE /\ probe[p] \in {"ready", "queued", "backoff"}
             /\ probe' = [probe EXCEPT ![p] = "over"] /\ UNCHANGED permits
    BY <2>4, MoveKeepsAccounts DEF Accounts, TasksTyped
  <2>5. CASE /\ probe[p] = "connected"
             /\ probe' = [probe EXCEPT ![p] = "closing"] /\ UNCHANGED permits
    BY <2>5, MoveKeepsAccounts DEF Accounts, TasksTyped
  <2>6. CASE Finished(p) \/ Refused(p) \/ Unreachable(p) \/ Crash(p)
    BY <2>3, <2>6 DEF Finished, Refused, Unreachable, Crash
  <2>7. CASE Cancelled(p)
    BY <2>3, <2>4, <2>5, <2>7 DEF Cancelled
  <2>8. CASE Resume(p) \/ Connected(p) \/ Served(p) \/ Retry(p)
    BY <2>2, <2>8 DEF Resume, Connected, Served, Retry
  <2> QED
    BY <2>1, <2>6, <2>7, <2>8 DEF ProbeStep
<1>2. /\ UNCHANGED <<scan, host, yielded, cancelled>>
      /\ attempt' \in [Probes -> 0..MaxRetries]
      /\ outcome' \in [Probes -> Verdicts \union {"none", "crashed", "cancelled"}]
  BY RetriesAssumption
  DEF Accounts, TasksTyped, Verdicts, ProbeStep, Acquire, Resume, Connected, Served, Retry,
      Advance, Finished, Refused, Unreachable, Crash, Cancelled
<1> QED
  BY <1>1, <1>2 DEF Accounts, TasksTyped

---------------------------------------------------------------------------
(* Ends. *)

LEMMA ReleaseEffect ==
  ASSUME NEW p \in Probes, NEW next, Release(p, next), probe \in [Probes -> ProbeStates]
  PROVE  /\ probe'[p] = next
         /\ \A q \in Probes \ {p} :
              probe'[q] = probe[q] \/ (probe[q] = "queued" /\ probe'[q] = "granted")
<1>1. CASE probe' = [probe EXCEPT ![p] = next]
  BY <1>1
<1>2. ASSUME NEW w \in In({"queued"}) \ {p},
             probe' = [probe EXCEPT ![p] = next, ![w] = "granted"]
      PROVE  /\ probe'[p] = next
             /\ \A q \in Probes \ {p} :
                  probe'[q] = probe[q] \/ (probe[q] = "queued" /\ probe'[q] = "granted")
  <2>1. w \in Probes /\ w # p /\ probe[w] = "queued"
    BY DEF In
  <2> QED
    BY <1>2, <2>1
<1> QED
  BY <1>1, <1>2 DEF Release

(* What a step of one probe does to it and to the others.                  *)
LEMMA ProbeStepEffect ==
  ASSUME Accounts, OutcomeKnown, CrashIsOver, NEW p \in Probes, ProbeStep(p)
  PROVE  /\ UNCHANGED <<scan, host, yielded, cancelled>>
         /\ probe[p] # "over" /\ outcome[p] # "crashed"
         /\ outcome'[p] = "crashed" => probe'[p] = "over"
         /\ p \notin cancelled /\ probe'[p] \in {"closing", "over"} =>
              outcome'[p] \in Verdicts \union {"crashed"}
         /\ \A q \in Probes \ {p} :
              /\ outcome'[q] = outcome[q]
              /\ probe'[q] = probe[q] \/ (probe[q] = "queued" /\ probe'[q] = "granted")
<1>1. /\ probe \in [Probes -> ProbeStates]
      /\ outcome \in [Probes -> Verdicts \union {"none", "crashed", "cancelled"}]
  BY DEF Accounts, TasksTyped
<1>2. outcome[p] = "crashed" => probe[p] = "over"
  BY DEF CrashIsOver
<1>3. p \notin cancelled /\ probe[p] = "closing" => outcome[p] \in Verdicts \union {"crashed"}
  BY DEF OutcomeKnown
<1>4. CASE Acquire(p) \/ Resume(p) \/ Connected(p) \/ Retry(p)
  BY <1>1, <1>2, <1>4 DEF Acquire, Resume, Connected, Retry, Advance
<1>5. CASE Served(p)
  BY <1>1, <1>2, <1>5 DEF Served, Advance, Verdicts
<1>6. CASE Finished(p)
  BY <1>1, <1>2, <1>3, <1>6, ReleaseEffect DEF Finished
<1>7. CASE Refused(p) \/ Crash(p)
  BY <1>1, <1>2, <1>7, ReleaseEffect DEF Refused, Crash, Verdicts
<1>8. CASE Unreachable(p)
  BY <1>1, <1>2, <1>8, ReleaseEffect DEF Unreachable, Verdicts
<1>9. CASE Cancelled(p)
  <2>1. /\ p \in cancelled /\ UNCHANGED <<scan, host, yielded, cancelled>>
        /\ outcome' = [outcome EXCEPT ![p] = "cancelled"] /\ probe[p] # "over"
    BY <1>9 DEF Cancelled
  <2>2. \A q \in Probes \ {p} :
          probe'[q] = probe[q] \/ (probe[q] = "queued" /\ probe'[q] = "granted")
    BY <1>1, <1>9, ReleaseEffect DEF Cancelled
  <2> QED
    BY <1>1, <1>2, <2>1, <2>2
<1> QED
  BY <1>4, <1>5, <1>6, <1>7, <1>8, <1>9 DEF ProbeStep

LEMMA ProbeStepKeepsLives ==
  ASSUME IInv, NEW p \in Probes, ProbeStep(p)
  PROVE  Lives'
<1> USE DEF IInv, Lives
<1>1. /\ UNCHANGED <<scan, host, yielded, cancelled>>
      /\ probe[p] # "over" /\ outcome[p] # "crashed"
      /\ outcome'[p] = "crashed" => probe'[p] = "over"
      /\ p \notin cancelled /\ probe'[p] \in {"closing", "over"} =>
           outcome'[p] \in Verdicts \union {"crashed"}
      /\ \A q \in Probes \ {p} :
           /\ outcome'[q] = outcome[q]
           /\ probe'[q] = probe[q] \/ (probe[q] = "queued" /\ probe'[q] = "granted")
  BY ProbeStepEffect
<1>2. OutcomeKnown' /\ CrashIsOver'
  BY <1>1 DEF OutcomeKnown, CrashIsOver
<1>3. (CancelledByHost /\ YieldedAreDone /\ Draining)'
  BY <1>1 DEF CancelledByHost, YieldedAreDone, Draining
<1>4. SettledIsOver'
  BY <1>1 DEF SettledIsOver, Crashed, ProbesOf, Probes
<1> QED
  BY <1>2, <1>3, <1>4

LEMMA InitEstablishesInv ==
  ASSUME Init
  PROVE  IInv
<1>1. In(Holding) = {} /\ In({"queued"}) = {}
  BY DEF Init, In, Holding, Dialing
<1>2. TasksTyped
  BY ConcurrencyAssumption, RetriesAssumption DEF Init, TasksTyped, ProbeStates, Verdicts
<1>3. PermitsConserved
  BY <1>1, FS_EmptySet, ConcurrencyAssumption DEF Init, PermitsConserved
<1>4. NoLostWakeup
  BY <1>1 DEF NoLostWakeup
<1>5. Lives
  BY DEF Init, Lives, OutcomeKnown, CrashIsOver, CancelledByHost, SettledIsOver,
         YieldedAreDone, Draining
<1> QED
  BY <1>2, <1>3, <1>4, <1>5 DEF IInv, Accounts

(* Hosts and the generator leave permits and probes alone.                 *)
LEMMA OthersKeepAccounts ==
  ASSUME Accounts, TasksTyped', UNCHANGED <<probe, permits>>
  PROVE  Accounts'
  BY DEF Accounts, PermitsConserved, NoLostWakeup, In

LEMMA NextKeepsInv ==
  ASSUME IInv, [Next]_vars
  PROVE  IInv'
<1> USE DEF IInv, Lives
<1>1. ASSUME NEW p \in Probes, ProbeStep(p)
      PROVE  IInv'
  BY <1>1, ProbeStepKeepsAccounts, ProbeStepKeepsLives
<1>2. ASSUME NEW h \in Hosts, HostDone(h)
      PROVE  IInv'
  <2>1. TasksTyped'
    BY <1>2 DEF HostDone, Accounts, TasksTyped
  <2>2. Accounts'
    BY <1>2, <2>1, OthersKeepAccounts DEF HostDone
  <2>3. (OutcomeKnown /\ CrashIsOver)'
    BY <1>2 DEF HostDone, OutcomeKnown, CrashIsOver
  <2>4. CancelledByHost'
    BY <1>2 DEF HostDone, CancelledByHost, Accounts, TasksTyped
  <2>5. SettledIsOver'
    BY <1>2 DEF HostDone, SettledIsOver, Accounts, TasksTyped, Crashed, In, ProbesOf, Probes
  <2>6. (YieldedAreDone /\ Draining)'
    BY <1>2 DEF HostDone, YieldedAreDone, Draining, Accounts, TasksTyped
  <2> QED
    BY <2>2, <2>3, <2>4, <2>5, <2>6
<1>3. ASSUME NEW h \in Hosts, HostCancelled(h)
      PROVE  IInv'
  <2>1. TasksTyped'
    BY <1>3 DEF HostCancelled, Accounts, TasksTyped
  <2>2. Accounts'
    BY <1>3, <2>1, OthersKeepAccounts DEF HostCancelled
  <2>3. (OutcomeKnown /\ CrashIsOver)'
    BY <1>3 DEF HostCancelled, OutcomeKnown, CrashIsOver
  <2>4. CancelledByHost'
    BY <1>3 DEF HostCancelled, CancelledByHost, Accounts, TasksTyped
  <2>5. SettledIsOver'
    BY <1>3
    DEF HostCancelled, SettledIsOver, Accounts, TasksTyped, Crashed, In, ProbesOf, Probes
  <2>6. (YieldedAreDone /\ Draining)'
    BY <1>3 DEF HostCancelled, YieldedAreDone, Draining, Accounts, TasksTyped
  <2> QED
    BY <2>2, <2>3, <2>4, <2>5, <2>6
<1>4. ASSUME NEW h \in Hosts, Yield(h)
      PROVE  IInv'
  <2>1. Accounts'
    BY <1>4, OthersKeepAccounts DEF Yield, Accounts, TasksTyped
  <2>2. (OutcomeKnown /\ CrashIsOver /\ SettledIsOver /\ YieldedAreDone)'
    BY <1>4 DEF Yield, OutcomeKnown, CrashIsOver, SettledIsOver, YieldedAreDone, Crashed
  <2>3. (CancelledByHost /\ Draining)'
    BY <1>4 DEF Yield, CancelledByHost, Draining, YieldedAreDone
  <2> QED
    BY <2>1, <2>2, <2>3
<1>5. CASE Cancel
  <2>1. TasksTyped'
    BY <1>5 DEF Cancel, Accounts, TasksTyped, In
  <2>2. Accounts'
    BY <1>5, <2>1, OthersKeepAccounts DEF Cancel
  <2>3. cancelled = {}
    BY <1>5 DEF Cancel, CancelledByHost
  <2>4. (OutcomeKnown /\ CrashIsOver)'
    BY <1>5, <2>3 DEF Cancel, OutcomeKnown, CrashIsOver
  <2>5. CancelledByHost'
    BY <1>5 DEF Cancel, CancelledByHost, In, Probes
  <2>6. (SettledIsOver /\ YieldedAreDone /\ Draining)'
    BY <1>5
    DEF Cancel, SettledIsOver, YieldedAreDone, Draining, Crashed, Accounts, TasksTyped
  <2> QED
    BY <2>2, <2>4, <2>5, <2>6
<1>6. CASE Drained
  <2>1. Accounts'
    BY <1>6, OthersKeepAccounts DEF Drained, Accounts, TasksTyped
  <2>2. Lives'
    BY <1>6 DEF Drained, OutcomeKnown, CrashIsOver, CancelledByHost, SettledIsOver,
                YieldedAreDone, Draining, Crashed
  <2> QED
    BY <2>1, <2>2
<1>7. CASE UNCHANGED vars
  <2>1. Accounts'
    BY <1>7, OthersKeepAccounts DEF vars, Accounts, TasksTyped
  <2>2. Lives'
    BY <1>7 DEF vars, OutcomeKnown, CrashIsOver, CancelledByHost, SettledIsOver,
                YieldedAreDone, Draining, Crashed
  <2> QED
    BY <2>1, <2>2
<1> QED
  BY <1>1, <1>2, <1>3, <1>4, <1>5, <1>6, <1>7 DEF Next

THEOREM Invariance == Spec => []IInv
<1>1. Init => IInv
  BY InitEstablishesInv
<1>2. IInv /\ [Next]_vars => IInv'
  BY NextKeepsInv
<1> QED
  BY <1>1, <1>2, PTL DEF Spec

---------------------------------------------------------------------------
(* Theorems. *)

(* The state keeps its types: no probe is tried more than 1 + MaxRetries   *)
(* times and permits stay within max_concurrency.                          *)
THEOREM TypeCorrect == Spec => []TypeOK
<1>1. IInv => TypeOK
  <2> SUFFICES ASSUME IInv PROVE TypeOK
    OBVIOUS
  <2>1. Cardinality(In(Holding)) \in Nat
    BY ProbesFinite DEF In
  <2>2. permits \in 0..MaxConcurrency
    BY <2>1, ConcurrencyAssumption DEF IInv, Accounts, TasksTyped, PermitsConserved
  <2> QED
    BY <2>2 DEF IInv, Accounts, TasksTyped, TypeOK
<1> QED
  BY <1>1, Invariance, PTL

(* No permit is lost or made up, whatever is retried, refused, crashes or  *)
(* is cancelled (core/scanner.py, _probe under the semaphore).             *)
THEOREM PermitsKept == Spec => []PermitsConserved
<1>1. IInv => PermitsConserved
  BY DEF IInv, Accounts
<1> QED
  BY <1>1, Invariance, PTL

(* Never more open sockets than max_concurrency, however many hosts and    *)
(* ports the request names.                                                *)
THEOREM SocketsAreBounded == Spec => []SocketsBounded
<1>1. IInv => SocketsBounded
  <2> SUFFICES ASSUME IInv PROVE SocketsBounded
    OBVIOUS
  <2>1. In(Dialing) \subseteq In(Holding) /\ In(Holding) \subseteq Probes
    BY DEF In, Holding
  <2>2. /\ IsFiniteSet(In(Holding)) /\ Cardinality(In(Holding)) \in Nat
        /\ Cardinality(In(Dialing)) \in Nat
        /\ Cardinality(In(Dialing)) <= Cardinality(In(Holding))
    BY <2>1, ProbesFinite, FS_Subset
  <2> QED
    BY <2>2, ConcurrencyAssumption
    DEF IInv, Accounts, TasksTyped, PermitsConserved, SocketsBounded
<1> QED
  BY <1>1, Invariance, PTL

(* No probe waits beside a free permit: every release wakes a waiter.      *)
THEOREM WakeupsKept == Spec => []NoLostWakeup
<1>1. IInv => NoLostWakeup
  BY DEF IInv, Accounts
<1> QED
  BY <1>1, Invariance, PTL

(* A host whose result is handed out has a verdict for every port, unless  *)
(* a probe of it crashed (core/scanner.py, _scan_host and stream_hosts).   *)
THEOREM ResultsAreComplete == Spec => []YieldedIsComplete
<1>1. IInv => YieldedIsComplete
  <2> SUFFICES ASSUME IInv, NEW h \in yielded, ~ Crashed(h), NEW p \in ProbesOf(h)
               PROVE  probe[p] = "over" /\ outcome[p] \in Verdicts
    BY DEF YieldedIsComplete
  <2>1. h \in Hosts /\ host[h] = "done" /\ p \in Probes /\ p[1] = h
    BY DEF IInv, Accounts, TasksTyped, Lives, YieldedAreDone, ProbesOf, Probes
  <2>2. probe[p] = "over"
    BY <2>1 DEF IInv, Lives, SettledIsOver
  <2>3. p \notin cancelled
    BY <2>1 DEF IInv, Lives, CancelledByHost
  <2>4. outcome[p] # "crashed"
    BY DEF Crashed
  <2> QED
    BY <2>1, <2>2, <2>3, <2>4 DEF IInv, Lives, OutcomeKnown
<1> QED
  BY <1>1, Invariance, PTL

(* Once the generator has ended no probe is at work but those of a host    *)
(* that crashed, although a scan may be cancelled at any of its awaits.    *)
THEOREM NothingIsLeftBehind == Spec => []NothingOutlivesScan
<1>1. IInv => NothingOutlivesScan
  <2> SUFFICES ASSUME IInv, scan = "ended", NEW p \in Probes
               PROVE  probe[p] = "over" \/ Crashed(p[1])
    BY DEF NothingOutlivesScan
  <2>1. p[1] \in Hosts /\ p \in ProbesOf(p[1])
    BY DEF Probes, ProbesOf
  <2>2. host[p[1]] \in {"done", "cancelled"}
    BY <2>1 DEF IInv, Accounts, TasksTyped, Lives, Draining
  <2> QED
    BY <2>1, <2>2 DEF IInv, Lives, SettledIsOver
<1> QED
  BY <1>1, Invariance, PTL

=============================================================================
