-------------------------- MODULE TelemetryProofs --------------------------
(***************************************************************************)
(* Theorems about the telemetry of a scan, for any number of sockets and   *)
(* hosts and queues of any size.                                           *)
(***************************************************************************)
EXTENDS Telemetry, FilterProofs

Kinds == {"status", "host_result"} \union Verdicts
Notices == [type : Kinds, host : Nat]

---------------------------------------------------------------------------
(* Sequences: moving an element from the front of one to the end of the    *)
(* other does not change what they are together.                           *)

LEMMA HeadAndTail ==
  ASSUME NEW S, NEW q \in Seq(S), q # <<>>
  PROVE  /\ Head(q) \in S /\ Tail(q) \in Seq(S)
         /\ Head(q) = q[1] /\ 1 \in 1..Len(q)
         /\ Len(Tail(q)) = Len(q) - 1
         /\ \A i \in 1..Len(Tail(q)) : Tail(q)[i] = q[i + 1]
         /\ q = <<Head(q)>> \o Tail(q)
<1>1. /\ Head(q) \in S /\ Tail(q) \in Seq(S)
      /\ Len(Tail(q)) = Len(q) - 1
      /\ \A i \in 1..Len(Tail(q)) : Tail(q)[i] = q[i + 1]
  BY HeadTailProperties
<1>2. Len(q) \in Nat \ {0} /\ Head(q) = q[1]
  BY EmptySeq
<1> DEFINE r == <<Head(q)>> \o Tail(q)
<1>3. <<Head(q)>> \in Seq(S) /\ Len(<<Head(q)>>) = 1 /\ <<Head(q)>>[1] = q[1]
  BY <1>1, <1>2
<1>4. /\ r \in Seq(S) /\ Len(r) = Len(q)
      /\ \A i \in 1..Len(q) : r[i] = IF i <= 1 THEN <<Head(q)>>[i] ELSE Tail(q)[i - 1]
  BY <1>1, <1>2, <1>3, ConcatProperties
<1>5. \A i \in 1..Len(q) : r[i] = q[i]
  <2> SUFFICES ASSUME NEW i \in 1..Len(q) PROVE r[i] = q[i]
    OBVIOUS
  <2>1. CASE i = 1
    BY <1>3, <1>4, <2>1
  <2>2. CASE i # 1
    <3>1. i - 1 \in 1..Len(Tail(q)) /\ (i - 1) + 1 = i
      BY <1>1, <1>2, <2>2
    <3> QED
      BY <1>1, <1>4, <2>2, <3>1
  <2> QED
    BY <2>1, <2>2
<1>6. r = q
  BY <1>4, <1>5, SeqEqual
<1> QED
  BY <1>1, <1>2, <1>6

LEMMA SentIsMoved ==
  ASSUME NEW S, NEW g \in Seq(S), NEW q \in Seq(S), q # <<>>
  PROVE  Append(g, Head(q)) \o Tail(q) = g \o q
<1>1. Head(q) \in S /\ Tail(q) \in Seq(S) /\ q = <<Head(q)>> \o Tail(q)
  BY HeadAndTail
<1>2. <<Head(q)>> \in Seq(S) /\ Append(g, Head(q)) = g \o <<Head(q)>>
  BY <1>1, AppendIsConcat
<1> QED
  BY <1>1, <1>2, ConcatAssociative

LEMMA AppendedLast ==
  ASSUME NEW S, NEW g \in Seq(S), NEW q \in Seq(S), NEW e \in S
  PROVE  g \o Append(q, e) = Append(g \o q, e)
<1>1. <<e>> \in Seq(S) /\ g \o q \in Seq(S)
  BY ConcatProperties
<1>2. Append(q, e) = q \o <<e>> /\ Append(g \o q, e) = (g \o q) \o <<e>>
  BY <1>1, AppendIsConcat
<1> QED
  BY <1>1, <1>2, ConcatAssociative

LEMMA HostsInOrder ==
  ASSUME NEW a \in Nat \ {0}, NEW b \in Nat, a <= b + 1
  PROVE  /\ HostEvents(a, b) \in Seq(Notices)
         /\ Len(HostEvents(a, b)) = b + 1 - a
         /\ \A i \in 1..(b + 1 - a) : HostEvents(a, b)[i] = Event("host_result", a + i - 1)
<1>1. b + 1 - a \in Nat
  OBVIOUS
<1>2. \A i \in 1..(b + 1 - a) : Event("host_result", a + i - 1) \in Notices
  <2> SUFFICES ASSUME NEW i \in 1..(b + 1 - a)
               PROVE  Event("host_result", a + i - 1) \in Notices
    OBVIOUS
  <2>1. a + i - 1 \in Nat
    OBVIOUS
  <2> QED
    BY <2>1 DEF Event, Notices, Kinds
<1>3. HostEvents(a, b) \in [1..(b + 1 - a) -> Notices]
  BY <1>2 DEF HostEvents
<1>4. HostEvents(a, b) \in Seq(Notices) /\ Len(HostEvents(a, b)) = b + 1 - a
  BY <1>1, <1>3
<1> QED
  BY <1>4 DEF HostEvents

LEMMA OneMoreHost ==
  ASSUME NEW a \in Nat \ {0}, NEW b \in Nat, a <= b + 1
  PROVE  HostEvents(a, b + 1) = Append(HostEvents(a, b), Event("host_result", b + 1))
<1> DEFINE q == HostEvents(a, b)
           e == Event("host_result", b + 1)
           r == HostEvents(a, b + 1)
           n == b + 1 - a
<1>1. q \in Seq(Notices) /\ Len(q) = n /\ \A i \in 1..n : q[i] = Event("host_result", a + i - 1)
  BY HostsInOrder
<1>2. /\ r \in Seq(Notices) /\ Len(r) = n + 1
      /\ \A i \in 1..(n + 1) : r[i] = Event("host_result", a + i - 1)
  <2>1. b + 1 \in Nat /\ a <= (b + 1) + 1 /\ (b + 1) + 1 - a = n + 1
    OBVIOUS
  <2>2. /\ r \in Seq(Notices) /\ Len(r) = (b + 1) + 1 - a
        /\ \A i \in 1..((b + 1) + 1 - a) : r[i] = Event("host_result", a + i - 1)
    BY <2>1, HostsInOrder
  <2> QED
    BY <2>1, <2>2
<1>3. e \in Notices /\ n \in Nat /\ a + (n + 1) - 1 = b + 1
  BY DEF Event, Notices, Kinds
<1> HIDE DEF q, e, r, n
<1>4. /\ Append(q, e) \in Seq(Notices) /\ Len(Append(q, e)) = n + 1
      /\ \A i \in 1..n : Append(q, e)[i] = q[i]
      /\ Append(q, e)[n + 1] = e
  BY <1>1, <1>3, AppendProperties
<1>5. \A i \in 1..(n + 1) : r[i] = Append(q, e)[i]
  <2> SUFFICES ASSUME NEW i \in 1..(n + 1) PROVE r[i] = Append(q, e)[i]
    OBVIOUS
  <2>1. CASE i = n + 1
    <3>1. r[n + 1] = Event("host_result", a + (n + 1) - 1)
      BY <1>2, <1>3
    <3>2. r[n + 1] = e
      BY <1>3, <3>1 DEF e
    <3> QED
      BY <1>4, <2>1, <3>2
  <2>2. CASE i # n + 1
    <3>1. i \in 1..n
      BY <1>3, <2>2
    <3> QED
      BY <1>1, <1>2, <1>4, <3>1
  <2> QED
    BY <2>1, <2>2
<1>6. r = Append(q, e)
  <2>1. Len(r) = Len(Append(q, e)) /\ \A i \in 1..Len(r) : r[i] = Append(q, e)[i]
    BY <1>2, <1>4, <1>5
  <2> QED
    BY <1>2, <1>4, <2>1, SeqEqual
<1> QED
  BY <1>6 DEF q, e, r


---------------------------------------------------------------------------
(* The inductive invariant. *)

Stages == {"idle", "accepting", "replaying", "relaying", "closed", "gone"}

Typed ==
  /\ status \in Verdicts \union {"running"}
  /\ hosts \in 0..NumHosts
  /\ pc \in [Sockets -> Stages]
  /\ subs \subseteq Sockets
  /\ queue \in [Sockets -> Seq(Notices)]
  /\ out \in [Sockets -> Seq(Notices)]
  /\ hand \in [Sockets -> Seq(Notices)]
  /\ got \in [Sockets -> Seq(Notices)]
  /\ dropped \in [Sockets -> SUBSET Notices]
  /\ joined \in [Sockets -> Nat]

(* What a handler holds at each stage.                                     *)
Placed(s) ==
  /\ Len(hand[s]) <= 1 /\ joined[s] <= hosts
  /\ pc[s] = "idle" => s \notin subs /\ queue[s] = <<>>
  /\ pc[s] \in {"accepting", "replaying", "relaying"} => s \in subs
  /\ pc[s] \in {"idle", "accepting"} => got[s] = <<>>
  /\ pc[s] # "relaying" => hand[s] = <<>>

(* A sequence of notices names no verdict but the job's; none at all; none *)
(* before its end.                                                         *)
Truthful(q) == \A i \in 1..Len(q) : q[i].type \in Verdicts => q[i].type = status
Plain(q) == \A i \in 1..Len(q) : q[i].type \notin Verdicts
EndsIt(q) == \A i \in 1..Len(q) : q[i].type \in Verdicts => i = Len(q)

Honest(s) ==
  /\ Truthful(queue[s]) /\ Truthful(out[s]) /\ Truthful(hand[s]) /\ Truthful(got[s])
  /\ EndsIt(out[s]) /\ EndsIt(got[s])
  /\ pc[s] = "relaying" => Plain(got[s])
  /\ pc[s] = "replaying" => Plain(got[s]) \/ out[s] = <<>>

(* While nothing was dropped: the queue holds the hosts since subscribing, *)
(* the replay the hosts until it was made, and both make up the stream.    *)
Replayed(r) == <<StatusEvent>> \o HostEvents(1, r)
Backlog(s) == HostEvents(joined[s] + 1, hosts)

Gapless(s) == dropped[s] = {} =>
  /\ pc[s] \in {"accepting", "replaying"} /\ status = "running" => queue[s] = Backlog(s)
  /\ pc[s] = "replaying" /\ status = "running" =>
       \E r \in joined[s]..hosts : got[s] \o out[s] = Replayed(r)
  /\ pc[s] = "relaying" =>
       \E r \in joined[s]..hosts :
         (got[s] \o hand[s]) \o queue[s] = (Replayed(r) \o Backlog(s)) \o VerdictEvents

SocketInv(s) == Placed(s) /\ Honest(s) /\ Gapless(s)

TelemetryInv == Typed /\ \A s \in Sockets : SocketInv(s)

---------------------------------------------------------------------------
(* What the steps of the job and of a handler leave of it. *)

LEMMA VerdictKinds ==
  /\ "running" \notin Verdicts /\ "status" \notin Verdicts /\ "host_result" \notin Verdicts
  BY DEF Verdicts

(* A broadcast either appends or, to a full queue, drops.                  *)
LEMMA BroadcastAppends ==
  ASSUME Typed, NEW e \in Notices, Broadcast(e)
  PROVE  /\ queue' \in [Sockets -> Seq(Notices)]
         /\ dropped' \in [Sockets -> SUBSET Notices]
         /\ \A s \in Sockets :
              /\ queue'[s] \in {queue[s], Append(queue[s], e)}
              /\ s \notin subs => queue'[s] = queue[s]
              /\ dropped'[s] = {} /\ s \in subs =>
                   dropped[s] = {} /\ queue'[s] = Append(queue[s], e)
              /\ dropped'[s] = {} => dropped[s] = {}
<1> DEFINE full == {s \in subs : Len(queue[s]) >= QueueCap}
<1>1. /\ queue' = [s \in Sockets |-> IF s \in subs \ full THEN Append(queue[s], e) ELSE queue[s]]
      /\ dropped' = [s \in Sockets |-> IF s \in full THEN dropped[s] \union {e} ELSE dropped[s]]
  BY DEF Broadcast
<1> HIDE DEF full
<1>2. \A s \in Sockets : queue[s] \in Seq(Notices) /\ Append(queue[s], e) \in Seq(Notices)
                        /\ dropped[s] \in SUBSET Notices
  BY AppendProperties DEF Typed
<1>3. queue' \in [Sockets -> Seq(Notices)]
  BY <1>1, <1>2
<1>4. dropped' \in [Sockets -> SUBSET Notices]
  BY <1>1, <1>2
<1>5. \A s \in Sockets : dropped'[s] = {} => s \notin full /\ dropped[s] = {}
  BY <1>1
<1> QED
  BY <1>1, <1>3, <1>4, <1>5

LEMMA AppendedIsTruthful ==
  ASSUME NEW q \in Seq(Notices), NEW e \in Notices, Truthful(q),
         e.type \in Verdicts => e.type = status
  PROVE  Truthful(Append(q, e))
<1>1. /\ Len(Append(q, e)) = Len(q) + 1
      /\ \A i \in 1..Len(q) : Append(q, e)[i] = q[i]
      /\ Append(q, e)[Len(q) + 1] = e
  BY AppendProperties
<1>2. Len(q) \in Nat
  OBVIOUS
<1> SUFFICES ASSUME NEW i \in 1..(Len(q) + 1), Append(q, e)[i].type \in Verdicts
             PROVE  Append(q, e)[i].type = status
  BY <1>1 DEF Truthful
<1>3. CASE i = Len(q) + 1
  BY <1>1, <1>3
<1>4. CASE i \in 1..Len(q)
  BY <1>1, <1>4 DEF Truthful
<1> QED
  BY <1>2, <1>3, <1>4

LEMMA TruthfulWhileRunning ==
  ASSUME status = "running", NEW q, Truthful(q)
  PROVE  Plain(q)
  BY VerdictKinds DEF Truthful, Plain

LEMMA PartsAreSeqs ==
  ASSUME Typed, NEW s \in Sockets, joined[s] <= hosts, NEW r \in joined[s]..hosts
  PROVE  /\ Replayed(r) \in Seq(Notices) /\ Backlog(s) \in Seq(Notices)
         /\ Replayed(r) \o Backlog(s) \in Seq(Notices)
         /\ VerdictEvents \in Seq(Notices)
<1>1. joined[s] \in Nat /\ hosts \in Nat /\ r \in Nat
  BY HostsAssumption DEF Typed
<1>2. <<StatusEvent>> \in Seq(Notices)
  BY DEF StatusEvent, Event, Notices, Kinds
<1>3. HostEvents(1, r) \in Seq(Notices)
  <2>1. 1 \in Nat \ {0} /\ 1 <= r + 1
    BY <1>1
  <2> QED
    BY <1>1, <2>1, HostsInOrder
<1>4. Backlog(s) \in Seq(Notices)
  <2>1. joined[s] + 1 \in Nat \ {0} /\ joined[s] + 1 <= hosts + 1
    BY <1>1
  <2> QED
    BY <1>1, <2>1, HostsInOrder DEF Backlog
<1>5. VerdictEvents \in Seq(Notices)
  <2>1. CASE status = "running"
    BY <2>1, EmptySeq DEF VerdictEvents
  <2>2. CASE status # "running"
    <3>1. Event(status, 0) \in Notices
      BY <2>2 DEF Typed, Event, Notices, Kinds
    <3> QED
      BY <2>2, <3>1 DEF VerdictEvents
  <2> QED
    BY <2>1, <2>2
<1>6. Replayed(r) \in Seq(Notices)
  BY <1>2, <1>3, ConcatProperties DEF Replayed
<1> QED
  BY <1>4, <1>5, <1>6, ConcatProperties

LEMMA HostResultKeeps == TelemetryInv /\ HostResult => TelemetryInv'
<1> SUFFICES ASSUME TelemetryInv, HostResult PROVE TelemetryInv'
  OBVIOUS
<1> DEFINE e == Event("host_result", hosts + 1)
<1>1. /\ status = "running" /\ hosts < NumHosts /\ hosts' = hosts + 1 /\ Broadcast(e)
      /\ UNCHANGED <<status, pc, subs, out, hand, got, joined>>
  BY DEF HostResult
<1>2. Typed /\ hosts \in Nat /\ hosts' \in 0..NumHosts
  BY <1>1, HostsAssumption DEF TelemetryInv, Typed
<1>3. e \in Notices /\ e.type \notin Verdicts
  BY <1>2, VerdictKinds DEF Event, Notices, Kinds
<1> HIDE DEF e
<1>4. /\ queue' \in [Sockets -> Seq(Notices)]
      /\ dropped' \in [Sockets -> SUBSET Notices]
      /\ \A s \in Sockets :
           /\ queue'[s] \in {queue[s], Append(queue[s], e)}
           /\ s \notin subs => queue'[s] = queue[s]
           /\ dropped'[s] = {} /\ s \in subs =>
                dropped[s] = {} /\ queue'[s] = Append(queue[s], e)
           /\ dropped'[s] = {} => dropped[s] = {}
  BY <1>1, <1>2, <1>3, BroadcastAppends
<1>5. Typed'
  BY <1>1, <1>2, <1>4 DEF Typed
<1>6. ASSUME NEW s \in Sockets PROVE SocketInv(s)'
  <2>1. Placed(s) /\ Honest(s) /\ Gapless(s)
    BY DEF TelemetryInv, SocketInv
  <2>2. joined[s] \in Nat /\ joined[s] <= hosts
    BY <1>2, <2>1 DEF Typed, Placed
  <2>3. Placed(s)'
    <3>1. joined'[s] <= hosts'
      BY <1>1, <1>2, <2>2
    <3> QED
      BY <1>1, <1>4, <2>1, <3>1 DEF Placed
  <2>4. Honest(s)'
    <3>1. Truthful(queue'[s])
      <4>1. queue[s] \in Seq(Notices)
        BY <1>2 DEF Typed
      <4>2. Truthful(Append(queue[s], e))
        BY <1>3, <2>1, <4>1, AppendedIsTruthful DEF Honest
      <4> QED
        BY <1>4, <2>1, <4>2 DEF Honest
    <3>2. Truthful(queue[s])'
      BY <1>1, <3>1 DEF Truthful
    <3> QED
      BY <1>1, <2>1, <3>2 DEF Honest, Truthful, Plain, EndsIt
  <2>5. Gapless(s)'
    <3> SUFFICES ASSUME dropped'[s] = {} PROVE Gapless(s)'
      BY DEF Gapless
    <3>1. dropped[s] = {} /\ (s \in subs => queue'[s] = Append(queue[s], e))
      BY <1>4
    <3>2. Backlog(s)' = Append(Backlog(s), e)
      <4>1. joined[s] + 1 \in Nat \ {0} /\ joined[s] + 1 <= hosts + 1
        BY <1>2, <2>2
      <4>2. HostEvents(joined[s] + 1, hosts + 1) = Append(HostEvents(joined[s] + 1, hosts), e)
        BY <1>2, <4>1, OneMoreHost DEF e
      <4>3. Backlog(s)' = HostEvents(joined[s] + 1, hosts + 1)
        BY <1>1 DEF Backlog, HostEvents
      <4> QED
        BY <4>2, <4>3 DEF Backlog
    <3>3. \A r \in joined[s]..hosts : r \in joined'[s]..hosts' /\ Replayed(r)' = Replayed(r)
      <4>1. \A r \in joined[s]..hosts : r \in joined'[s]..hosts'
        BY <1>1, <1>2, <2>2
      <4> QED
        BY <4>1 DEF Replayed, StatusEvent, HostEvents
    <3>4. CASE pc[s] \in {"accepting", "replaying"}
      <4>1. queue'[s] = Backlog(s)'
        BY <1>1, <2>1, <3>1, <3>2, <3>4 DEF Gapless, Placed
      <4>2. pc[s] = "replaying" =>
              \E r \in joined'[s]..hosts' : got'[s] \o out'[s] = Replayed(r)'
        BY <1>1, <2>1, <3>1, <3>3 DEF Gapless
      <4> QED
        BY <1>1, <3>4, <4>1, <4>2 DEF Gapless
    <3>5. CASE pc[s] = "relaying"
      <4>1. PICK r \in joined[s]..hosts :
              (got[s] \o hand[s]) \o queue[s] = (Replayed(r) \o Backlog(s)) \o VerdictEvents
        BY <2>1, <3>1, <3>5 DEF Gapless
      <4>2. VerdictEvents = <<>> /\ VerdictEvents' = <<>>
        BY <1>1 DEF VerdictEvents
      <4>3. /\ Replayed(r) \in Seq(Notices) /\ Backlog(s) \in Seq(Notices)
            /\ Replayed(r) \o Backlog(s) \in Seq(Notices)
        BY <1>2, <2>2, PartsAreSeqs
      <4>4. got[s] \o hand[s] \in Seq(Notices) /\ queue[s] \in Seq(Notices)
        BY <1>2, ConcatProperties DEF Typed
      <4>5. (got[s] \o hand[s]) \o queue[s] = Replayed(r) \o Backlog(s)
        BY <4>1, <4>2, <4>3, ConcatEmptySeq
      <4>6. (got[s] \o hand[s]) \o Append(queue[s], e) = Replayed(r) \o Append(Backlog(s), e)
        <5>1. \A m, q \in Seq(Notices) : m \o Append(q, e) = Append(m \o q, e)
          BY <1>3, AppendedLast
        <5>2. (got[s] \o hand[s]) \o Append(queue[s], e) = Append((got[s] \o hand[s]) \o queue[s], e)
          BY <4>4, <5>1
        <5>3. Replayed(r) \o Append(Backlog(s), e) = Append(Replayed(r) \o Backlog(s), e)
          BY <4>3, <5>1
        <5> QED
          BY <4>5, <5>2, <5>3
      <4>7. Append(Backlog(s), e) \in Seq(Notices)
        BY <1>3, <4>3, AppendProperties
      <4>8. (got[s] \o hand[s]) \o Append(queue[s], e) = (Replayed(r) \o Append(Backlog(s), e)) \o <<>>
        BY <4>3, <4>6, <4>7, ConcatEmptySeq, ConcatProperties
      <4>9. (got'[s] \o hand'[s]) \o queue'[s] = (Replayed(r)' \o Backlog(s)') \o VerdictEvents'
        BY <1>1, <2>1, <3>1, <3>2, <3>3, <3>5, <4>2, <4>8 DEF Placed
      <4> QED
        BY <1>1, <3>3, <3>5, <4>9 DEF Gapless
    <3> QED
      BY <1>1, <3>4, <3>5 DEF Gapless
  <2> QED
    BY <2>3, <2>4, <2>5 DEF SocketInv
<1> QED
  BY <1>5, <1>6 DEF TelemetryInv

LEMMA FinishKeeps == TelemetryInv /\ Finish => TelemetryInv'
<1> SUFFICES ASSUME TelemetryInv, NEW verdict \in Verdicts,
                    status = "running", status' = verdict, Broadcast(Event(verdict, 0)),
                    UNCHANGED <<hosts, pc, subs, out, hand, got, joined>>
             PROVE  TelemetryInv'
  BY DEF Finish
<1> DEFINE e == Event(verdict, 0)
<1>1. e \in Notices /\ e.type = status' /\ verdict # "running"
  BY VerdictKinds DEF Event, Notices, Kinds
<1>2. VerdictEvents = <<>> /\ VerdictEvents' = <<e>>
  BY <1>1 DEF VerdictEvents, Event
<1>3. Broadcast(e)
  OBVIOUS
<1> HIDE DEF e
<1>4. Typed
  BY DEF TelemetryInv
<1>5. /\ queue' \in [Sockets -> Seq(Notices)]
      /\ dropped' \in [Sockets -> SUBSET Notices]
      /\ \A s \in Sockets :
           /\ queue'[s] \in {queue[s], Append(queue[s], e)}
           /\ s \notin subs => queue'[s] = queue[s]
           /\ dropped'[s] = {} /\ s \in subs =>
                dropped[s] = {} /\ queue'[s] = Append(queue[s], e)
           /\ dropped'[s] = {} => dropped[s] = {}
  BY <1>1, <1>3, <1>4, BroadcastAppends
<1>6. Typed'
  BY <1>4, <1>5 DEF Typed
<1>7. ASSUME NEW s \in Sockets PROVE SocketInv(s)'
  <2>1. Placed(s) /\ Honest(s) /\ Gapless(s)
    BY DEF TelemetryInv, SocketInv
  <2>2. Placed(s)'
    BY <1>5, <2>1 DEF Placed
  <2>3. Honest(s)'
    <3>1. /\ Plain(queue[s]) /\ Plain(out[s]) /\ Plain(hand[s]) /\ Plain(got[s])
          /\ Truthful(queue[s])
      BY <2>1, TruthfulWhileRunning DEF Honest
    <3>2. Truthful(queue[s])'
      <4>1. /\ queue[s] \in Seq(Notices)
            /\ Len(Append(queue[s], e)) = Len(queue[s]) + 1
            /\ \A i \in 1..Len(queue[s]) : Append(queue[s], e)[i] = queue[s][i]
            /\ Append(queue[s], e)[Len(queue[s]) + 1] = e
        BY <1>1, <1>4, AppendProperties DEF Typed
      <4>2. CASE queue'[s] = queue[s]
        BY <3>1, <4>2 DEF Truthful, Plain
      <4>3. CASE queue'[s] = Append(queue[s], e)
        <5> SUFFICES ASSUME NEW i \in 1..(Len(queue[s]) + 1), queue'[s][i].type \in Verdicts
                     PROVE  queue'[s][i].type = status'
          BY <4>1, <4>3 DEF Truthful
        <5>1. CASE i = Len(queue[s]) + 1
          BY <1>1, <4>1, <4>3, <5>1
        <5>2. CASE i # Len(queue[s]) + 1
          <6>1. i \in 1..Len(queue[s])
            BY <4>1, <5>2
          <6> QED
            BY <3>1, <4>1, <4>3, <6>1 DEF Plain
        <5> QED
          BY <5>1, <5>2
      <4> QED
        BY <1>5, <4>2, <4>3
    <3>3. Truthful(out[s])' /\ Truthful(hand[s])' /\ Truthful(got[s])'
      BY <3>1 DEF Truthful, Plain
    <3>4. EndsIt(out[s])' /\ EndsIt(got[s])' /\ Plain(got[s])'
      BY <3>1 DEF EndsIt, Plain
    <3> QED
      BY <3>2, <3>3, <3>4 DEF Honest
  <2>4. Gapless(s)'
    <3> SUFFICES ASSUME dropped'[s] = {}, pc[s] = "relaying" PROVE Gapless(s)'
      BY <1>1 DEF Gapless
    <3>1. dropped[s] = {} /\ queue'[s] = Append(queue[s], e)
      BY <1>5, <2>1 DEF Placed
    <3>2. PICK r \in joined[s]..hosts :
            (got[s] \o hand[s]) \o queue[s] = (Replayed(r) \o Backlog(s)) \o VerdictEvents
      BY <2>1, <3>1 DEF Gapless
    <3>3. joined[s] <= hosts /\ Replayed(r) \o Backlog(s) \in Seq(Notices)
      BY <1>4, <2>1, PartsAreSeqs DEF Placed
    <3>4. (got[s] \o hand[s]) \o queue[s] = Replayed(r) \o Backlog(s)
      BY <1>2, <3>2, <3>3, ConcatEmptySeq
    <3>5. (got[s] \o hand[s]) \o Append(queue[s], e) = Append((got[s] \o hand[s]) \o queue[s], e)
      <4>1. got[s] \o hand[s] \in Seq(Notices) /\ queue[s] \in Seq(Notices)
        BY <1>4, ConcatProperties DEF Typed
      <4>2. \A m, q \in Seq(Notices) : m \o Append(q, e) = Append(m \o q, e)
        BY <1>1, AppendedLast
      <4> QED
        BY <4>1, <4>2
    <3>6. Append(Replayed(r) \o Backlog(s), e) = (Replayed(r) \o Backlog(s)) \o <<e>>
      <4>1. \A q \in Seq(Notices) : Append(q, e) = q \o <<e>>
        BY <1>1, AppendIsConcat
      <4> QED
        BY <3>3, <4>1
    <3>7. Replayed(r)' = Replayed(r) /\ Backlog(s)' = Backlog(s)
      BY DEF Replayed, Backlog, StatusEvent, HostEvents
    <3>8. (got'[s] \o hand'[s]) \o queue'[s] = (Replayed(r)' \o Backlog(s)') \o VerdictEvents'
      BY <1>2, <3>1, <3>4, <3>5, <3>6, <3>7
    <3> QED
      BY <1>1, <3>8 DEF Gapless
  <2> QED
    BY <2>2, <2>3, <2>4 DEF SocketInv
<1> QED
  BY <1>6, <1>7 DEF TelemetryInv

(* A step of one handler does not show to the others.                      *)
Same(t) ==
  /\ pc'[t] = pc[t] /\ (t \in subs' <=> t \in subs)
  /\ queue'[t] = queue[t] /\ out'[t] = out[t] /\ hand'[t] = hand[t]
  /\ got'[t] = got[t] /\ dropped'[t] = dropped[t] /\ joined'[t] = joined[t]

LEMMA OthersKeep ==
  ASSUME NEW t, SocketInv(t), UNCHANGED job, Same(t)
  PROVE  SocketInv(t)'
<1>1. Placed(t)'
  BY DEF SocketInv, Same, Placed, job
<1>2. Honest(t)'
  BY DEF SocketInv, Same, Honest, job, Truthful, Plain, EndsIt
<1>3. Gapless(t)'
  <2>1. Backlog(t)' = Backlog(t) /\ VerdictEvents' = VerdictEvents
    BY DEF Backlog, HostEvents, VerdictEvents, Same, job
  <2>2. \A r : Replayed(r)' = Replayed(r)
    BY DEF Replayed, HostEvents, StatusEvent
  <2> QED
    BY <2>1, <2>2 DEF SocketInv, Same, Gapless, job
<1> QED
  BY <1>1, <1>2, <1>3 DEF SocketInv

LEMMA OneSocketMoves ==
  ASSUME TelemetryInv, NEW s \in Sockets, UNCHANGED job, Typed', SocketInv(s)',
         \A t \in Sockets \ {s} : Same(t)
  PROVE  TelemetryInv'
<1>1. ASSUME NEW t \in Sockets \ {s} PROVE SocketInv(t)'
  <2>1. SocketInv(t) /\ Same(t)
    BY DEF TelemetryInv
  <2> QED
    BY <2>1, OthersKeep
<1> QED
  BY <1>1 DEF TelemetryInv

LEMMA ConnectKeeps ==
  ASSUME TelemetryInv, NEW s \in Sockets, Connect(s)
  PROVE  TelemetryInv'
<1>1. /\ Typed /\ hosts \in Nat
      /\ pc[s] = "idle" /\ pc' = [pc EXCEPT ![s] = "accepting"]
      /\ subs' = subs \union {s} /\ joined' = [joined EXCEPT ![s] = hosts]
      /\ UNCHANGED <<job, status, hosts, queue, out, hand, got, dropped>>
  BY HostsAssumption DEF TelemetryInv, Typed, Connect, Moves, job
<1>2. Typed'
  BY <1>1 DEF Typed, Stages
<1>3. pc'[s] = "accepting" /\ joined'[s] = hosts
  BY <1>1 DEF Typed
<1>4. Placed(s) /\ Honest(s)
  BY DEF TelemetryInv, SocketInv
<1>5. Placed(s)'
  BY <1>1, <1>3, <1>4 DEF Placed
<1>6. Honest(s)'
  BY <1>1, <1>3, <1>4 DEF Honest, Truthful, Plain, EndsIt
<1>7. Gapless(s)'
  <2>1. queue'[s] = <<>>
    BY <1>1, <1>4 DEF Placed
  <2>2. HostEvents(hosts + 1, hosts) = <<>>
    <3>1. hosts + 1 \in Nat \ {0} /\ hosts + 1 <= hosts + 1
      BY <1>1
    <3>2. HostEvents(hosts + 1, hosts) \in Seq(Notices)
          /\ Len(HostEvents(hosts + 1, hosts)) = hosts + 1 - (hosts + 1)
      BY <1>1, <3>1, HostsInOrder
    <3> QED
      BY <1>1, <3>2, EmptySeq
  <2>3. Backlog(s)' = HostEvents(hosts + 1, hosts)
    BY <1>1, <1>3 DEF Backlog, HostEvents
  <2> QED
    BY <1>3, <2>1, <2>2, <2>3 DEF Gapless
<1>8. \A t \in Sockets \ {s} : Same(t)
  BY <1>1 DEF Same, Typed
<1> QED
  BY <1>1, <1>2, <1>5, <1>6, <1>7, <1>8, OneSocketMoves DEF SocketInv

(* The replay: no verdict before its end, and none but the job's.          *)
LEMMA ReplayIsHonest ==
  ASSUME Typed, hosts \in Nat
  PROVE  /\ Replayed(hosts) \o VerdictEvents \in Seq(Notices)
         /\ Truthful(Replayed(hosts) \o VerdictEvents)
         /\ EndsIt(Replayed(hosts) \o VerdictEvents)
<1> DEFINE H == HostEvents(1, hosts)
           R == Replayed(hosts)
           V == VerdictEvents
<1>1. <<StatusEvent>> \in Seq(Notices) /\ Len(<<StatusEvent>>) = 1
      /\ <<StatusEvent>>[1].type = "status"
  BY DEF StatusEvent, Event, Notices, Kinds
<1>2. H \in Seq(Notices) /\ \A i \in 1..Len(H) : H[i].type = "host_result"
  <2>1. 1 \in Nat \ {0} /\ 1 <= hosts + 1 /\ hosts + 1 - 1 = hosts
    OBVIOUS
  <2>2. H \in Seq(Notices) /\ Len(H) = hosts /\ \A i \in 1..hosts : H[i] = Event("host_result", 1 + i - 1)
    BY <2>1, HostsInOrder
  <2> HIDE DEF H
  <2>3. \A i \in 1..hosts : H[i].type = "host_result"
    BY <2>2 DEF Event
  <2> QED
    BY <2>2, <2>3
<1>3. V \in Seq(Notices) /\ Len(V) <= 1 /\ \A i \in 1..Len(V) : V[i].type = status
  <2>1. CASE status = "running"
    BY <2>1 DEF VerdictEvents
  <2>2. CASE status # "running"
    <3>1. Event(status, 0) \in Notices /\ Event(status, 0).type = status
      BY <2>2 DEF Typed, Event, Notices, Kinds
    <3>2. V = <<Event(status, 0)>>
      BY <2>2 DEF VerdictEvents
    <3> QED
      BY <3>1, <3>2
  <2> QED
    BY <2>1, <2>2
<1>4. R = <<StatusEvent>> \o H
  BY DEF Replayed
<1> HIDE DEF H, R, V
<1>5. /\ R \in Seq(Notices) /\ Len(R) = 1 + Len(H) /\ Len(H) \in Nat
      /\ \A i \in 1..(1 + Len(H)) : R[i] = IF i <= 1 THEN <<StatusEvent>>[i] ELSE H[i - 1]
  BY <1>1, <1>2, <1>4, ConcatProperties
<1>6. Plain(R)
  <2> SUFFICES ASSUME NEW i \in 1..(1 + Len(H)) PROVE R[i].type \notin Verdicts
    BY <1>5 DEF Plain
  <2>1. CASE i = 1
    BY <1>1, <1>5, <2>1, VerdictKinds
  <2>2. CASE i # 1
    <3>1. i - 1 \in 1..Len(H) /\ R[i] = H[i - 1]
      BY <1>5, <2>2
    <3> QED
      BY <1>2, <3>1, VerdictKinds
  <2> QED
    BY <2>1, <2>2
<1>7. /\ R \o V \in Seq(Notices) /\ Len(R \o V) = Len(R) + Len(V)
      /\ Len(R) \in Nat /\ Len(V) \in Nat /\ Len(V) <= 1
      /\ \A i \in 1..(Len(R) + Len(V)) : (R \o V)[i] = IF i <= Len(R) THEN R[i] ELSE V[i - Len(R)]
  <2>1. Len(R) \in Nat /\ Len(V) \in Nat
    BY <1>3, <1>5, LenProperties
  <2> QED
    BY <1>3, <1>5, <2>1, ConcatProperties
<1>8. ASSUME NEW i \in 1..(Len(R) + Len(V)), (R \o V)[i].type \in Verdicts
      PROVE  i = Len(R) + Len(V) /\ (R \o V)[i].type = status
  <2>1. CASE i <= Len(R)
    <3>1. i \in 1..Len(R) /\ (R \o V)[i] = R[i]
      BY <1>7, <2>1
    <3> QED
      BY <1>6, <1>8, <3>1 DEF Plain
  <2>2. CASE i > Len(R)
    <3>1. i - Len(R) \in 1..Len(V) /\ (R \o V)[i] = V[i - Len(R)] /\ i = Len(R) + Len(V)
      BY <1>7, <2>2
    <3> QED
      BY <1>3, <3>1
  <2> QED
    BY <1>7, <2>1, <2>2
<1>9. Truthful(R \o V) /\ EndsIt(R \o V)
  BY <1>7, <1>8 DEF Truthful, EndsIt
<1> QED
  BY <1>7, <1>9 DEF R, V

LEMMA AcceptKeeps ==
  ASSUME TelemetryInv, NEW s \in Sockets, Accept(s)
  PROVE  TelemetryInv'
<1>1. /\ Typed /\ hosts \in Nat
      /\ pc[s] = "accepting" /\ pc' = [pc EXCEPT ![s] = "replaying"]
      /\ out' = [out EXCEPT ![s] = Replayed(hosts) \o VerdictEvents]
      /\ UNCHANGED <<job, status, hosts, subs, queue, hand, got, dropped, joined>>
  BY HostsAssumption DEF TelemetryInv, Typed, Accept, Moves, job, Replayed
<1>2. /\ Replayed(hosts) \o VerdictEvents \in Seq(Notices)
      /\ Truthful(Replayed(hosts) \o VerdictEvents)
      /\ EndsIt(Replayed(hosts) \o VerdictEvents)
  BY <1>1, ReplayIsHonest
<1>3. Typed'
  BY <1>1, <1>2 DEF Typed, Stages
<1>4. pc'[s] = "replaying" /\ out'[s] = Replayed(hosts) \o VerdictEvents
  BY <1>1 DEF Typed
<1>5. Placed(s) /\ Honest(s) /\ Gapless(s)
  BY DEF TelemetryInv, SocketInv
<1>6. Placed(s)'
  BY <1>1, <1>4, <1>5 DEF Placed
<1>7. got[s] = <<>>
  BY <1>1, <1>5 DEF Placed
<1>8. Honest(s)'
  <2>1. Truthful(queue[s])' /\ Truthful(hand[s])' /\ Truthful(got[s])' /\ EndsIt(got[s])'
    BY <1>1, <1>5 DEF Honest, Truthful, EndsIt
  <2>2. Truthful(out[s])' /\ EndsIt(out[s])'
    BY <1>1, <1>2, <1>4 DEF Truthful, EndsIt
  <2>3. Plain(got[s])'
    BY <1>1, <1>7, EmptySeq DEF Plain
  <2> QED
    BY <1>4, <2>1, <2>2, <2>3 DEF Honest
<1>9. Gapless(s)'
  <2> SUFFICES ASSUME dropped[s] = {}, status = "running" PROVE Gapless(s)'
    BY <1>1, <1>4 DEF Gapless
  <2>1. queue[s] = Backlog(s) /\ Backlog(s)' = Backlog(s)
    BY <1>1, <1>5 DEF Gapless, Backlog, HostEvents
  <2>2. joined[s] \in Nat /\ joined[s] <= hosts
    BY <1>1, <1>5 DEF Typed, Placed
  <2>3. hosts \in joined[s]..hosts
    BY <1>1, <2>2
  <2>4. got[s] \o (Replayed(hosts) \o VerdictEvents) = Replayed(hosts)
    <3>1. Replayed(hosts) \in Seq(Notices)
      BY <1>1, <2>2, <2>3, PartsAreSeqs
    <3>2. VerdictEvents = <<>>
      BY DEF VerdictEvents
    <3> QED
      BY <1>7, <3>1, <3>2, ConcatEmptySeq
  <2>5. Replayed(hosts)' = Replayed(hosts)
    BY <1>1 DEF Replayed, StatusEvent, HostEvents
  <2> QED
    BY <1>1, <1>4, <2>1, <2>3, <2>4, <2>5 DEF Gapless
<1>10. \A t \in Sockets \ {s} : Same(t)
  BY <1>1 DEF Same, Typed
<1> QED
  BY <1>1, <1>3, <1>6, <1>8, <1>9, <1>10, OneSocketMoves DEF SocketInv

LEMMA SendReplayKeeps ==
  ASSUME TelemetryInv, NEW s \in Sockets, SendReplay(s)
  PROVE  TelemetryInv'
<1>1. /\ Typed /\ pc[s] = "replaying" /\ out[s] # <<>>
      /\ got[s] \in Seq(Notices) /\ out[s] \in Seq(Notices)
      /\ got' = [got EXCEPT ![s] = Append(got[s], Head(out[s]))]
      /\ out' = [out EXCEPT ![s] = Tail(out[s])]
      /\ UNCHANGED <<job, status, hosts, pc, subs, queue, hand, dropped, joined>>
  BY DEF TelemetryInv, Typed, SendReplay, job
<1>2. /\ Head(out[s]) \in Notices /\ Tail(out[s]) \in Seq(Notices)
      /\ Head(out[s]) = out[s][1] /\ 1 \in 1..Len(out[s])
      /\ Len(Tail(out[s])) = Len(out[s]) - 1 /\ Len(out[s]) \in Nat
      /\ \A i \in 1..Len(Tail(out[s])) : Tail(out[s])[i] = out[s][i + 1]
  BY <1>1, HeadAndTail
<1>3. /\ got'[s] = Append(got[s], out[s][1]) /\ out'[s] = Tail(out[s])
      /\ got'[s] \in Seq(Notices)
  BY <1>1, <1>2, AppendProperties DEF Typed
<1>4. Typed'
  BY <1>1, <1>2, <1>3 DEF Typed
<1>5. Placed(s) /\ Honest(s) /\ Gapless(s)
  BY DEF TelemetryInv, SocketInv
<1>6. Placed(s)'
  BY <1>1, <1>5 DEF Placed
<1>7. Plain(got[s])
  BY <1>1, <1>5 DEF Honest
<1>8. /\ Len(got[s]) \in Nat /\ Len(got'[s]) = Len(got[s]) + 1
      /\ \A i \in 1..Len(got[s]) : got'[s][i] = got[s][i]
      /\ got'[s][Len(got[s]) + 1] = out[s][1]
  BY <1>1, <1>2, <1>3, AppendProperties
<1>9. Honest(s)'
  <2>1. Truthful(got[s])' /\ EndsIt(got[s])'
    <3> SUFFICES ASSUME NEW i \in 1..(Len(got[s]) + 1), got'[s][i].type \in Verdicts
                 PROVE  i = Len(got[s]) + 1 /\ got'[s][i].type = status
      BY <1>1, <1>8 DEF Truthful, EndsIt
    <3>1. CASE i \in 1..Len(got[s])
      BY <1>7, <1>8, <3>1 DEF Plain
    <3>2. CASE i = Len(got[s]) + 1
      BY <1>2, <1>5, <1>8, <3>2 DEF Honest, Truthful
    <3> QED
      BY <1>8, <3>1, <3>2
  <2>2. Truthful(out[s])' /\ EndsIt(out[s])'
    <3> SUFFICES ASSUME NEW i \in 1..Len(Tail(out[s])), Tail(out[s])[i].type \in Verdicts
                 PROVE  i = Len(Tail(out[s])) /\ Tail(out[s])[i].type = status
      BY <1>1, <1>3 DEF Truthful, EndsIt
    <3>1. i + 1 \in 1..Len(out[s]) /\ out[s][i + 1].type \in Verdicts
      BY <1>2
    <3>2. i + 1 = Len(out[s]) /\ out[s][i + 1].type = status
      BY <1>5, <3>1 DEF Honest, Truthful, EndsIt
    <3> QED
      BY <1>2, <3>2
  <2>3. Plain(got[s])' \/ out'[s] = <<>>
    <3>1. CASE out[s][1].type \in Verdicts
      <4>1. Len(out[s]) = 1
        BY <1>2, <1>5, <3>1 DEF Honest, EndsIt
      <4>2. Len(Tail(out[s])) = 0
        BY <1>2, <4>1
      <4> QED
        BY <1>2, <1>3, <4>2, EmptySeq
    <3>2. CASE out[s][1].type \notin Verdicts
      <4> SUFFICES ASSUME NEW i \in 1..(Len(got[s]) + 1) PROVE got'[s][i].type \notin Verdicts
        BY <1>8 DEF Plain
      <4>1. CASE i \in 1..Len(got[s])
        BY <1>7, <1>8, <4>1 DEF Plain
      <4>2. CASE i = Len(got[s]) + 1
        BY <1>8, <3>2, <4>2
      <4> QED
        BY <1>8, <4>1, <4>2
    <3> QED
      BY <3>1, <3>2
  <2>4. Truthful(queue[s])' /\ Truthful(hand[s])'
    BY <1>1, <1>5 DEF Honest, Truthful
  <2> QED
    BY <1>1, <2>1, <2>2, <2>3, <2>4 DEF Honest
<1>10. Gapless(s)'
  <2> SUFFICES ASSUME dropped[s] = {}, status = "running" PROVE Gapless(s)'
    BY <1>1 DEF Gapless
  <2>1. queue[s] = Backlog(s) /\ Backlog(s)' = Backlog(s)
    BY <1>1, <1>5 DEF Gapless, Backlog, HostEvents
  <2>2. PICK r \in joined[s]..hosts : got[s] \o out[s] = Replayed(r)
    BY <1>1, <1>5 DEF Gapless
  <2>3. Append(got[s], Head(out[s])) \o Tail(out[s]) = got[s] \o out[s]
    <3>1. \A g, q \in Seq(Notices) : q # <<>> => Append(g, Head(q)) \o Tail(q) = g \o q
      BY SentIsMoved
    <3> QED
      BY <1>1, <3>1
  <2>4. Replayed(r)' = Replayed(r)
    BY DEF Replayed, StatusEvent, HostEvents
  <2> QED
    BY <1>1, <1>2, <1>3, <2>1, <2>2, <2>3, <2>4 DEF Gapless
<1>11. \A t \in Sockets \ {s} : Same(t)
  BY <1>1 DEF Same, Typed
<1> QED
  BY <1>1, <1>4, <1>6, <1>9, <1>10, <1>11, OneSocketMoves DEF SocketInv

LEMMA ReplayDoneKeeps ==
  ASSUME TelemetryInv, NEW s \in Sockets, ReplayDone(s)
  PROVE  TelemetryInv'
<1>1. /\ Typed /\ pc[s] = "replaying" /\ out[s] = <<>>
      /\ UNCHANGED <<job, status, hosts, queue, out, hand, got, dropped, joined>>
      /\ \/ status = "running" /\ pc' = [pc EXCEPT ![s] = "relaying"] /\ subs' = subs
         \/ status # "running" /\ pc' = [pc EXCEPT ![s] = "closed"] /\ subs' = subs \ {s}
  BY DEF TelemetryInv, Typed, ReplayDone, Moves, job
<1>2. Typed' /\ pc'[s] = (IF status = "running" THEN "relaying" ELSE "closed")
  BY <1>1 DEF Typed, Stages
<1>3. Placed(s) /\ Honest(s) /\ Gapless(s)
  BY DEF TelemetryInv, SocketInv
<1>4. Placed(s)'
  BY <1>1, <1>2, <1>3 DEF Placed
<1>5. Honest(s)'
  <2>1. status = "running" => Plain(got[s])
    BY <1>3, TruthfulWhileRunning DEF Honest
  <2> QED
    BY <1>1, <1>2, <1>3, <2>1 DEF Honest, Truthful, Plain, EndsIt
<1>6. Gapless(s)'
  <2> SUFFICES ASSUME dropped[s] = {}, status = "running" PROVE Gapless(s)'
    BY <1>1, <1>2 DEF Gapless
  <2>1. PICK r \in joined[s]..hosts : got[s] \o out[s] = Replayed(r)
    BY <1>1, <1>3 DEF Gapless
  <2>2. queue[s] = Backlog(s) /\ hand[s] = <<>> /\ joined[s] <= hosts
    BY <1>1, <1>3 DEF Gapless, Placed
  <2>3. got[s] \in Seq(Notices) /\ Replayed(r) \o Backlog(s) \in Seq(Notices)
    BY <1>1, <2>2, PartsAreSeqs DEF Typed
  <2>4. VerdictEvents = <<>>
    BY DEF VerdictEvents
  <2>5. got[s] \o <<>> = got[s] /\ (Replayed(r) \o Backlog(s)) \o <<>> = Replayed(r) \o Backlog(s)
    <3>1. \A q \in Seq(Notices) : q \o <<>> = q
      BY ConcatEmptySeq
    <3> QED
      BY <2>3, <3>1
  <2>6. (got[s] \o hand[s]) \o queue[s] = (Replayed(r) \o Backlog(s)) \o VerdictEvents
    BY <1>1, <2>1, <2>2, <2>4, <2>5
  <2>7. Replayed(r)' = Replayed(r) /\ Backlog(s)' = Backlog(s) /\ VerdictEvents' = VerdictEvents
    BY <1>1 DEF Replayed, Backlog, VerdictEvents, StatusEvent, HostEvents
  <2> QED
    BY <1>1, <1>2, <2>6, <2>7 DEF Gapless
<1>7. \A t \in Sockets \ {s} : Same(t)
  BY <1>1 DEF Same, Typed
<1> QED
  BY <1>1, <1>2, <1>4, <1>5, <1>6, <1>7, OneSocketMoves DEF SocketInv

LEMMA FetchKeeps ==
  ASSUME TelemetryInv, NEW s \in Sockets, Fetch(s)
  PROVE  TelemetryInv'
<1>1. /\ Typed /\ pc[s] = "relaying" /\ hand[s] = <<>> /\ queue[s] # <<>>
      /\ queue[s] \in Seq(Notices) /\ got[s] \in Seq(Notices)
      /\ hand' = [hand EXCEPT ![s] = <<Head(queue[s])>>]
      /\ queue' = [queue EXCEPT ![s] = Tail(queue[s])]
      /\ UNCHANGED <<job, status, hosts, pc, subs, out, got, dropped, joined>>
  BY DEF TelemetryInv, Typed, Fetch, job
<1>2. /\ Head(queue[s]) \in Notices /\ Tail(queue[s]) \in Seq(Notices)
      /\ Head(queue[s]) = queue[s][1] /\ 1 \in 1..Len(queue[s])
      /\ Len(Tail(queue[s])) = Len(queue[s]) - 1 /\ Len(queue[s]) \in Nat
      /\ \A i \in 1..Len(Tail(queue[s])) : Tail(queue[s])[i] = queue[s][i + 1]
      /\ queue[s] = <<Head(queue[s])>> \o Tail(queue[s])
  BY <1>1, HeadAndTail
<1>3. hand'[s] = <<Head(queue[s])>> /\ queue'[s] = Tail(queue[s])
  BY <1>1 DEF Typed
<1>4. <<Head(queue[s])>> \in Seq(Notices) /\ Len(<<Head(queue[s])>>) = 1
  BY <1>2
<1>5. Typed'
  BY <1>1, <1>2, <1>4 DEF Typed
<1>6. Placed(s) /\ Honest(s) /\ Gapless(s)
  BY DEF TelemetryInv, SocketInv
<1>7. Placed(s)'
  BY <1>1, <1>3, <1>4, <1>6 DEF Placed
<1>8. Honest(s)'
  <2>1. Truthful(hand[s])'
    BY <1>1, <1>2, <1>3, <1>4, <1>6 DEF Honest, Truthful
  <2>2. Truthful(queue[s])'
    <3> SUFFICES ASSUME NEW i \in 1..Len(Tail(queue[s])), Tail(queue[s])[i].type \in Verdicts
                 PROVE  Tail(queue[s])[i].type = status
      BY <1>1, <1>3 DEF Truthful
    <3>1. i + 1 \in 1..Len(queue[s]) /\ queue[s][i + 1].type \in Verdicts
      BY <1>2
    <3> QED
      BY <1>2, <1>6, <3>1 DEF Honest, Truthful
  <2> QED
    BY <1>1, <1>6, <2>1, <2>2 DEF Honest, Truthful, Plain, EndsIt
<1>9. Gapless(s)'
  <2> SUFFICES ASSUME dropped[s] = {} PROVE Gapless(s)'
    BY <1>1 DEF Gapless
  <2>1. PICK r \in joined[s]..hosts :
          (got[s] \o hand[s]) \o queue[s] = (Replayed(r) \o Backlog(s)) \o VerdictEvents
    BY <1>1, <1>6 DEF Gapless
  <2>2. got[s] \o <<>> = got[s]
    BY <1>1, ConcatEmptySeq
  <2>3. (got[s] \o <<Head(queue[s])>>) \o Tail(queue[s]) = got[s] \o queue[s]
    <3>1. \A g, h, q \in Seq(Notices) : (g \o h) \o q = g \o (h \o q)
      BY ConcatAssociative
    <3>2. (got[s] \o <<Head(queue[s])>>) \o Tail(queue[s])
            = got[s] \o (<<Head(queue[s])>> \o Tail(queue[s]))
      BY <1>1, <1>2, <1>4, <3>1
    <3> QED
      BY <1>2, <3>2
  <2>4. Replayed(r)' = Replayed(r) /\ Backlog(s)' = Backlog(s) /\ VerdictEvents' = VerdictEvents
    BY <1>1 DEF Replayed, Backlog, VerdictEvents, StatusEvent, HostEvents
  <2>5. (got'[s] \o hand'[s]) \o queue'[s] = (Replayed(r)' \o Backlog(s)') \o VerdictEvents'
    BY <1>1, <1>3, <2>1, <2>2, <2>3, <2>4
  <2> QED
    BY <1>1, <2>5 DEF Gapless
<1>10. \A t \in Sockets \ {s} : Same(t)
  BY <1>1 DEF Same, Typed
<1> QED
  BY <1>1, <1>5, <1>7, <1>8, <1>9, <1>10, OneSocketMoves DEF SocketInv

LEMMA SendKeeps ==
  ASSUME TelemetryInv, NEW s \in Sockets, Send(s)
  PROVE  TelemetryInv'
<1>1. Placed(s) /\ Honest(s) /\ Gapless(s)
  BY DEF TelemetryInv, SocketInv
<1>2. /\ Typed /\ pc[s] = "relaying" /\ hand[s] # <<>>
      /\ hand[s] \in Seq(Notices) /\ got[s] \in Seq(Notices)
      /\ hand' = [hand EXCEPT ![s] = <<>>]
      /\ got' = [got EXCEPT ![s] = got[s] \o hand[s]]
      /\ UNCHANGED <<job, status, hosts, queue, out, dropped, joined>>
      /\ \/ hand[s][1].type \in Verdicts /\ pc' = [pc EXCEPT ![s] = "closed"] /\ subs' = subs \ {s}
         \/ hand[s][1].type \notin Verdicts /\ pc' = pc /\ subs' = subs
  BY <1>1 DEF TelemetryInv, Typed, Send, Moves, job, Placed
<1>3. Len(hand[s]) = 1 /\ Len(got[s]) \in Nat
  <2>1. Len(hand[s]) \in Nat \ {0} /\ Len(got[s]) \in Nat
    BY <1>2, EmptySeq, LenProperties
  <2>2. Len(hand[s]) <= 1
    BY <1>1 DEF Placed
  <2> DEFINE n == Len(hand[s])
  <2> HIDE DEF n
  <2>3. n \in Nat /\ n # 0 /\ n <= 1
    BY <2>1, <2>2 DEF n
  <2>4. n = 1
    BY <2>3
  <2> QED
    BY <2>1, <2>4 DEF n
<1>4. /\ got'[s] = got[s] \o hand[s] /\ hand'[s] = <<>>
      /\ got'[s] \in Seq(Notices) /\ Len(got'[s]) = Len(got[s]) + 1
      /\ \A i \in 1..Len(got[s]) : got'[s][i] = got[s][i]
      /\ got'[s][Len(got[s]) + 1] = hand[s][1]
  <2>1. got'[s] = got[s] \o hand[s] /\ hand'[s] = <<>>
    BY <1>2 DEF Typed
  <2>2. /\ got[s] \o hand[s] \in Seq(Notices) /\ Len(got[s] \o hand[s]) = Len(got[s]) + Len(hand[s])
        /\ \A i \in 1..Len(got[s]) + Len(hand[s]) : (got[s] \o hand[s])[i] =
             IF i <= Len(got[s]) THEN got[s][i] ELSE hand[s][i - Len(got[s])]
    BY <1>2, ConcatProperties
  <2> DEFINE long == got[s] \o hand[s]
             n == Len(got[s])
  <2>3. /\ long \in Seq(Notices) /\ Len(long) = n + 1 /\ n \in Nat
        /\ \A i \in 1..(n + 1) : long[i] = IF i <= n THEN got[s][i] ELSE hand[s][i - n]
    BY <1>3, <2>2
  <2> HIDE DEF long, n
  <2>4. \A i \in 1..n : long[i] = got[s][i]
    BY <2>3
  <2>5. long[n + 1] = hand[s][1]
    <3>1. n + 1 \in 1..(n + 1) /\ ~ (n + 1 <= n) /\ (n + 1) - n = 1
      BY <2>3
    <3> QED
      BY <2>3, <3>1
  <2> QED
    BY <2>1, <2>3, <2>4, <2>5 DEF long, n
<1>5. Typed'
  BY <1>2, <1>4, EmptySeq DEF Typed, Stages
<1>6. pc'[s] = IF hand[s][1].type \in Verdicts THEN "closed" ELSE "relaying"
  BY <1>2 DEF Typed
<1>7. Placed(s)'
  BY <1>1, <1>2, <1>4, <1>6, EmptySeq DEF Placed
<1>8. Plain(got[s])
  BY <1>1, <1>2 DEF Honest
<1>9. Honest(s)'
  <2>1. Truthful(got[s])' /\ EndsIt(got[s])'
    <3> SUFFICES ASSUME NEW i \in 1..(Len(got[s]) + 1), got'[s][i].type \in Verdicts
                 PROVE  i = Len(got[s]) + 1 /\ got'[s][i].type = status
      BY <1>2, <1>4 DEF Truthful, EndsIt
    <3>1. CASE i \in 1..Len(got[s])
      BY <1>4, <1>8, <3>1 DEF Plain
    <3>2. CASE i = Len(got[s]) + 1
      <4>1. got'[s][i] = hand[s][1]
        BY <1>4, <3>2
      <4>2. 1 \in 1..Len(hand[s])
        BY <1>3
      <4> QED
        BY <1>1, <3>2, <4>1, <4>2 DEF Honest, Truthful
    <3> QED
      BY <1>3, <3>1, <3>2
  <2>2. hand[s][1].type \notin Verdicts => Plain(got[s])'
    <3> SUFFICES ASSUME hand[s][1].type \notin Verdicts, NEW i \in 1..(Len(got[s]) + 1)
                 PROVE  got'[s][i].type \notin Verdicts
      BY <1>4 DEF Plain
    <3>1. CASE i \in 1..Len(got[s])
      BY <1>4, <1>8, <3>1 DEF Plain
    <3>2. CASE i = Len(got[s]) + 1
      BY <1>4, <3>2
    <3> QED
      BY <1>3, <3>1, <3>2
  <2>3. Truthful(hand[s])'
    BY <1>4, EmptySeq DEF Truthful
  <2> QED
    BY <1>1, <1>2, <1>6, <2>1, <2>2, <2>3 DEF Honest, Truthful, EndsIt
<1>10. Gapless(s)'
  <2> SUFFICES ASSUME dropped[s] = {} PROVE Gapless(s)'
    BY <1>2 DEF Gapless
  <2>1. PICK r \in joined[s]..hosts :
          (got[s] \o hand[s]) \o queue[s] = (Replayed(r) \o Backlog(s)) \o VerdictEvents
    BY <1>1, <1>2 DEF Gapless
  <2>2. got'[s] \o hand'[s] = got[s] \o hand[s]
    <3>1. got'[s] \o <<>> = got'[s]
      BY <1>4, ConcatEmptySeq
    <3> QED
      BY <1>4, <3>1
  <2>3. Replayed(r)' = Replayed(r) /\ Backlog(s)' = Backlog(s) /\ VerdictEvents' = VerdictEvents
    BY <1>2 DEF Replayed, Backlog, VerdictEvents, StatusEvent, HostEvents
  <2>4. (got'[s] \o hand'[s]) \o queue'[s] = (Replayed(r)' \o Backlog(s)') \o VerdictEvents'
    BY <1>2, <2>1, <2>2, <2>3
  <2> QED
    BY <1>2, <1>6, <2>4 DEF Gapless
<1>11. \A t \in Sockets \ {s} : Same(t)
  BY <1>2 DEF Same, Typed
<1> QED
  BY <1>2, <1>5, <1>7, <1>9, <1>10, <1>11, OneSocketMoves DEF SocketInv

LEMMA LeaveKeeps ==
  ASSUME TelemetryInv, NEW s \in Sockets, Leave(s)
  PROVE  TelemetryInv'
<1>1. /\ Typed /\ pc' = [pc EXCEPT ![s] = "gone"]
      /\ subs' \in {subs, subs \ {s}}
      /\ hand' = [hand EXCEPT ![s] = <<>>]
      /\ UNCHANGED <<job, status, hosts, queue, out, got, dropped, joined>>
  BY DEF TelemetryInv, Typed, Leave, job
<1>2. Typed' /\ pc'[s] = "gone" /\ hand'[s] = <<>>
  BY <1>1, EmptySeq DEF Typed, Stages
<1>3. Placed(s) /\ Honest(s)
  BY DEF TelemetryInv, SocketInv
<1>4. Placed(s)'
  BY <1>1, <1>2, <1>3, EmptySeq DEF Placed
<1>5. Honest(s)'
  BY <1>1, <1>2, <1>3, EmptySeq DEF Honest, Truthful, EndsIt
<1>6. Gapless(s)'
  BY <1>2 DEF Gapless
<1>7. \A t \in Sockets \ {s} : Same(t)
  BY <1>1 DEF Same, Typed
<1> QED
  BY <1>1, <1>2, <1>4, <1>5, <1>6, <1>7, OneSocketMoves DEF SocketInv

LEMMA StepKeeps == TelemetryInv /\ [Next]_vars => TelemetryInv'
<1> SUFFICES ASSUME TelemetryInv, [Next]_vars PROVE TelemetryInv'
  OBVIOUS
<1>1. ASSUME UNCHANGED <<job, pc, subs, queue, out, hand, got, dropped, joined>>
      PROVE  TelemetryInv'
  <2>1. Typed'
    BY <1>1 DEF TelemetryInv, Typed, job
  <2>2. \A s \in Sockets : Same(s)
    BY <1>1 DEF Same
  <2>3. \A s \in Sockets : SocketInv(s)'
    BY <1>1, <2>2, OthersKeep DEF TelemetryInv
  <2> QED
    BY <2>1, <2>3 DEF TelemetryInv
<1>2. CASE HostResult
  BY <1>2, HostResultKeeps
<1>3. CASE Finish
  BY <1>3, FinishKeeps
<1>4. CASE Tick \/ UNCHANGED vars
  BY <1>1, <1>4 DEF Tick, vars, job
<1>5. ASSUME NEW a \in Addresses, Limited(a) \/ Denied(a)
      PROVE  TelemetryInv'
  BY <1>1, <1>5 DEF Limited, Denied
<1>6. ASSUME NEW s \in Sockets, Connect(s) \/ Handler(s) \/ Leave(s)
      PROVE  TelemetryInv'
  BY <1>6, ConnectKeeps, AcceptKeeps, SendReplayKeeps, ReplayDoneKeeps, FetchKeeps, SendKeeps,
     LeaveKeeps DEF Handler
<1> QED
  BY <1>2, <1>3, <1>4, <1>5, <1>6 DEF Next

LEMMA InitHolds == Init => TelemetryInv
<1> SUFFICES ASSUME Init PROVE TelemetryInv
  OBVIOUS
<1>1. Typed
  BY HostsAssumption, EmptySeq DEF Init, Typed, Stages
<1>2. ASSUME NEW s \in Sockets PROVE Placed(s) /\ Honest(s) /\ Gapless(s)
  BY EmptySeq DEF Init, Placed, Honest, Gapless, Truthful, EndsIt, Plain
<1> QED
  BY <1>1, <1>2 DEF TelemetryInv, SocketInv

LEMMA Invariance == Spec => []TelemetryInv
  BY InitHolds, StepKeeps, PTL DEF Spec

---------------------------------------------------------------------------
(* Theorems. *)

(* Safety: no client is sent anything after a verdict, nor a verdict that  *)
(* is not the job's (api/routes/telemetry.py, scan_telemetry).             *)
THEOREM VerdictComesLast == Spec => []VerdictIsLast
<1>1. TelemetryInv => VerdictIsLast
  <2> SUFFICES ASSUME TelemetryInv, NEW s \in Sockets, NEW i \in DOMAIN got[s],
                      got[s][i].type \in Verdicts
               PROVE  i = Len(got[s]) /\ got[s][i].type = status
    BY DEF VerdictIsLast
  <2>1. got[s] \in Seq(Notices) /\ Honest(s)
    BY DEF TelemetryInv, Typed, SocketInv
  <2>2. i \in 1..Len(got[s])
    BY <2>1, LenProperties
  <2> QED
    BY <2>1, <2>2 DEF Honest, Truthful, EndsIt
<1> QED
  BY <1>1, Invariance, PTL

(* Safety: a relaying client that lost no event was sent, or has on its    *)
(* way, every host in order, those of the handshake twice and no other     *)
(* (api/routes/telemetry.py, api/services.py).                             *)
THEOREM StreamIsWhole == Spec => []NoGapNoReorder
<1>1. TelemetryInv => NoGapNoReorder
  BY DEF TelemetryInv, SocketInv, Gapless, NoGapNoReorder, Replayed, Backlog
<1> QED
  BY <1>1, Invariance, PTL

---------------------------------------------------------------------------
(* The sliding window of an address. *)

(* What the limiter forgot is past every window to come: what it still     *)
(* holds agrees with all that ever passed, in any window from now on.      *)
WindowInv ==
  /\ clock \in 0..MaxClock
  /\ recent \in [Addresses -> Seq(Nat)]
  /\ passed \in [Addresses -> Seq(Nat)]
  /\ \A a \in Addresses : Len(recent[a]) <= WindowMax
  /\ \A a \in Addresses : \A c \in Nat :
       c >= clock => Chosen(recent[a], Within(c)) = Chosen(passed[a], Within(c))
  /\ WindowBounded

LEMMA LaterWithin ==
  ASSUME NEW b \in Nat, NEW c \in Nat, c >= b
  PROVE  Within(b) \intersect Within(c) = Within(c)
  BY WindowAssumption DEF Within

LEMMA ForgettingIsSafe ==
  ASSUME NEW list \in Seq(Nat), NEW b \in Nat, NEW c \in Nat, c >= b
  PROVE  Chosen(Chosen(list, Within(b)), Within(c)) = Chosen(list, Within(c))
  BY ChosenTwice, LaterWithin

LEMMA ChosenIsShorter ==
  ASSUME NEW S, NEW list \in Seq(S), NEW keep
  PROVE  Len(Chosen(list, keep)) <= Len(list)
<1>1. Len(list) \in Nat /\ Chosen(list, keep) \in Seq(S)
  BY ChosenEntries, LenProperties
<1>2. /\ IsFiniteSet({i \in 1..Len(list) : list[i] \in keep})
      /\ Len(Chosen(list, keep)) = Cardinality({i \in 1..Len(list) : list[i] \in keep})
  BY ChosenCount
<1>3. IsFiniteSet(1..Len(list)) /\ Cardinality(1..Len(list)) = Len(list)
  <2>1. 1 \in Int /\ Len(list) \in Int /\ Len(list) >= 0
    BY <1>1
  <2>2. IsFiniteSet(1..Len(list))
    BY <2>1, FS_Interval
  <2>3. Cardinality(1..Len(list)) = IF 1 > Len(list) THEN 0 ELSE Len(list) - 1 + 1
    BY <2>1, FS_Interval
  <2>4. Cardinality(1..Len(list)) = Len(list)
    BY <2>1, <2>3
  <2> QED
    BY <2>2, <2>4
<1>4. Cardinality({i \in 1..Len(list) : list[i] \in keep}) <= Cardinality(1..Len(list))
  BY <1>3, FS_Subset
<1> QED
  BY <1>2, <1>3, <1>4

Seen(q, t) == {i \in DOMAIN q : q[i] <= t /\ t - q[i] < Window}

(* One more passing, with fewer than the limit in the window that ends     *)
(* now, leaves every window within the limit.                              *)
LEMMA OneMorePasses ==
  ASSUME NEW list \in Seq(Nat), NEW now \in Nat, NEW t \in Nat,
         Len(Chosen(list, Within(now))) < WindowMax,
         Cardinality(Seen(list, t)) <= WindowMax
  PROVE  Cardinality(Seen(Append(list, now), t)) <= WindowMax
<1> DEFINE longer == Append(list, now)
           Held == {i \in 1..Len(list) : list[i] \in Within(now)}
<1>1. /\ longer \in Seq(Nat) /\ Len(list) \in Nat /\ Len(longer) = Len(list) + 1
      /\ longer[Len(list) + 1] = now
      /\ \A i \in 1..Len(list) : longer[i] = list[i]
  BY AppendProperties, LenProperties
<1>2. DOMAIN list = 1..Len(list) /\ DOMAIN longer = 1..(Len(list) + 1)
  BY <1>1, LenProperties
<1>3. \A i \in 1..Len(list) : list[i] \in Nat
  BY ElementOfSeq
<1>4. IsFiniteSet(Held) /\ Len(Chosen(list, Within(now))) = Cardinality(Held)
  BY ChosenCount
<1> HIDE DEF longer
<1>5. CASE t < now
  <2>1. Seen(longer, t) = Seen(list, t)
    BY <1>1, <1>2, <1>3, <1>5 DEF Seen
  <2> QED
    BY <2>1 DEF longer
<1>6. CASE t >= now
  <2>1. Seen(longer, t) \subseteq Held \union {Len(list) + 1}
    <3> SUFFICES ASSUME NEW i \in Seen(longer, t), i # Len(list) + 1
                 PROVE  i \in Held
      OBVIOUS
    <3>1. i \in 1..Len(list)
      BY <1>1, <1>2 DEF Seen
    <3>2. list[i] \in Nat /\ t - list[i] < Window
      BY <1>1, <1>3, <3>1 DEF Seen
    <3>3. list[i] \in Within(now)
      BY <1>6, <3>2, WindowAssumption DEF Within
    <3> QED
      BY <3>1, <3>3
  <2> HIDE DEF Held
  <2>2. /\ IsFiniteSet(Held \union {Len(list) + 1})
        /\ Cardinality(Held \union {Len(list) + 1}) \in {Cardinality(Held), Cardinality(Held) + 1}
    BY <1>4, FS_AddElement
  <2>3. Cardinality(Seen(longer, t)) <= Cardinality(Held \union {Len(list) + 1})
    BY <2>1, <2>2, FS_Subset
  <2>4. Cardinality(Held) \in Nat /\ Cardinality(Seen(longer, t)) \in Nat
    BY <1>4, <2>1, <2>2, FS_Subset, FS_CardinalityType
  <2>5. Cardinality(Seen(longer, t)) <= WindowMax
    BY <1>4, <2>2, <2>3, <2>4, WindowAssumption
  <2> QED
    BY <2>5 DEF longer
<1> QED
  BY <1>5, <1>6

LEMMA PassesKeeps ==
  ASSUME WindowInv, NEW a \in Addresses, Passes(a)
  PROVE  WindowInv'
<1>1. /\ clock \in Nat /\ clock' = clock
      /\ recent[a] \in Seq(Nat) /\ passed[a] \in Seq(Nat)
      /\ Len(Fresh(a)) < WindowMax
      /\ recent' = [recent EXCEPT ![a] = Append(Fresh(a), clock)]
      /\ passed' = [passed EXCEPT ![a] = Append(passed[a], clock)]
  BY WindowAssumption DEF WindowInv, Passes
<1>2. Fresh(a) \in Seq(Nat)
  BY <1>1, ChosenEntries DEF Fresh
<1>3. /\ Append(Fresh(a), clock) \in Seq(Nat) /\ Append(passed[a], clock) \in Seq(Nat)
      /\ Len(Append(Fresh(a), clock)) <= WindowMax
  BY <1>1, <1>2, AppendProperties, LenProperties, WindowAssumption
<1>4. /\ recent' \in [Addresses -> Seq(Nat)] /\ passed' \in [Addresses -> Seq(Nat)]
      /\ recent'[a] = Append(Fresh(a), clock) /\ passed'[a] = Append(passed[a], clock)
      /\ \A b \in Addresses \ {a} : recent'[b] = recent[b] /\ passed'[b] = passed[b]
  BY <1>1, <1>3 DEF WindowInv
<1>5. ASSUME NEW c \in Nat, c >= clock
      PROVE  Chosen(recent'[a], Within(c)) = Chosen(passed'[a], Within(c))
  <2>1. Chosen(Fresh(a), Within(c)) = Chosen(recent[a], Within(c))
    BY <1>1, <1>5, ForgettingIsSafe DEF Fresh
  <2>2. Chosen(recent[a], Within(c)) = Chosen(passed[a], Within(c))
    BY <1>5 DEF WindowInv
  <2>3. /\ Chosen(Append(Fresh(a), clock), Within(c)) =
             IF clock \in Within(c) THEN Append(Chosen(Fresh(a), Within(c)), clock)
             ELSE Chosen(Fresh(a), Within(c))
        /\ Chosen(Append(passed[a], clock), Within(c)) =
             IF clock \in Within(c) THEN Append(Chosen(passed[a], Within(c)), clock)
             ELSE Chosen(passed[a], Within(c))
    BY <1>1, <1>2, ChosenAppend
  <2> QED
    BY <1>4, <2>1, <2>2, <2>3
<1>6. Len(Chosen(passed[a], Within(clock))) < WindowMax
  <2>1. Chosen(recent[a], Within(clock)) = Chosen(passed[a], Within(clock))
    BY <1>1 DEF WindowInv
  <2> QED
    BY <1>1, <2>1 DEF Fresh
<1>7. WindowBounded'
  <2> SUFFICES ASSUME NEW b \in Addresses, NEW t \in 0..MaxClock
               PROVE  Cardinality(Seen(passed'[b], t)) <= WindowMax
    BY DEF WindowBounded, Seen
  <2>1. Cardinality(Seen(passed[b], t)) <= WindowMax
    BY DEF WindowInv, WindowBounded, Seen
  <2>2. CASE b = a
    <3>1. t \in Nat
      BY WindowAssumption
    <3> QED
      BY <1>1, <1>4, <1>6, <2>1, <2>2, <3>1, OneMorePasses
  <2>3. CASE b # a
    BY <1>4, <2>1, <2>3
  <2> QED
    BY <2>2, <2>3
<1>8. \A b \in Addresses : Len(recent'[b]) <= WindowMax
  BY <1>3, <1>4 DEF WindowInv
<1>9. \A b \in Addresses : \A c \in Nat :
        c >= clock' => Chosen(recent'[b], Within(c)) = Chosen(passed'[b], Within(c))
  BY <1>1, <1>4, <1>5 DEF WindowInv
<1>10. clock' \in 0..MaxClock
  BY <1>1 DEF WindowInv
<1> QED
  BY <1>4, <1>7, <1>8, <1>9, <1>10 DEF WindowInv, Within

LEMMA LimitedKeeps ==
  ASSUME WindowInv, NEW a \in Addresses, Limited(a)
  PROVE  WindowInv'
<1>1. /\ clock \in Nat /\ clock' = clock /\ passed' = passed
      /\ recent[a] \in Seq(Nat)
      /\ recent' = [recent EXCEPT ![a] = Fresh(a)]
  BY WindowAssumption DEF WindowInv, Limited
<1>2. Fresh(a) \in Seq(Nat) /\ Len(Fresh(a)) <= Len(recent[a])
  BY <1>1, ChosenEntries, ChosenIsShorter DEF Fresh
<1>3. /\ recent' \in [Addresses -> Seq(Nat)] /\ recent'[a] = Fresh(a)
      /\ \A b \in Addresses \ {a} : recent'[b] = recent[b]
  BY <1>1, <1>2 DEF WindowInv
<1>4. Len(Fresh(a)) <= WindowMax
  <2>1. Len(recent[a]) <= WindowMax
    BY DEF WindowInv
  <2> QED
    BY <1>1, <1>2, <2>1, LenProperties, WindowAssumption
<1>5. ASSUME NEW c \in Nat, c >= clock
      PROVE  Chosen(recent'[a], Within(c)) = Chosen(passed[a], Within(c))
  <2>1. Chosen(Fresh(a), Within(c)) = Chosen(recent[a], Within(c))
    BY <1>1, <1>5, ForgettingIsSafe DEF Fresh
  <2> QED
    BY <1>3, <1>5, <2>1 DEF WindowInv
<1>6. \A b \in Addresses : Len(recent'[b]) <= WindowMax
  BY <1>3, <1>4 DEF WindowInv
<1>7. \A b \in Addresses : \A c \in Nat :
        c >= clock' => Chosen(recent'[b], Within(c)) = Chosen(passed'[b], Within(c))
  BY <1>1, <1>3, <1>5 DEF WindowInv
<1> QED
  BY <1>1, <1>3, <1>6, <1>7 DEF WindowInv, Within, WindowBounded

LEMMA WindowStepKeeps == WindowInv /\ [Next]_vars => WindowInv'
<1> SUFFICES ASSUME WindowInv, [Next]_vars PROVE WindowInv'
  OBVIOUS
<1>1. ASSUME UNCHANGED gate PROVE WindowInv'
  BY <1>1 DEF gate, WindowInv, Within, WindowBounded
<1>2. CASE Tick
  <2>1. clock' \in 0..MaxClock /\ clock' >= clock /\ clock \in Nat
        /\ UNCHANGED <<recent, passed>>
    BY <1>2, WindowAssumption DEF Tick, WindowInv
  <2>2. \A a \in Addresses : \A c \in Nat : c >= clock' => c >= clock
    BY <2>1, WindowAssumption
  <2> QED
    BY <2>1, <2>2 DEF WindowInv, Within, WindowBounded
<1>3. CASE HostResult \/ Finish \/ UNCHANGED vars
  BY <1>1, <1>3 DEF HostResult, Finish, vars, gate
<1>4. ASSUME NEW a \in Addresses, Limited(a) \/ Denied(a)
      PROVE  WindowInv'
  BY <1>4, LimitedKeeps, PassesKeeps DEF Denied
<1>5. ASSUME NEW s \in Sockets, Connect(s)
      PROVE  WindowInv'
  <2>1. AddressOf[s] \in Addresses /\ Passes(AddressOf[s])
    BY <1>5 DEF Connect, Addresses
  <2> QED
    BY <2>1, PassesKeeps
<1>6. ASSUME NEW s \in Sockets, Handler(s) \/ Leave(s)
      PROVE  WindowInv'
  BY <1>1, <1>6 DEF Handler, Accept, SendReplay, ReplayDone, Fetch, Send, Leave
<1> QED
  BY <1>2, <1>3, <1>4, <1>5, <1>6 DEF Next

LEMMA WindowInitHolds == Init => WindowInv
<1> SUFFICES ASSUME Init PROVE WindowInv
  OBVIOUS
<1>1. /\ clock = 0 /\ <<>> \in Seq(Nat) /\ Len(<<>>) = 0
      /\ recent = [a \in Addresses |-> <<>>] /\ passed = [a \in Addresses |-> <<>>]
  BY EmptySeq DEF Init
<1>2. WindowBounded
  <2> SUFFICES ASSUME NEW a \in Addresses, NEW t \in 0..MaxClock
               PROVE  Cardinality(Seen(passed[a], t)) <= WindowMax
    BY DEF WindowBounded, Seen
  <2>1. Seen(passed[a], t) = {}
    BY <1>1 DEF Seen
  <2>2. Cardinality({}) = 0
    BY FS_EmptySet
  <2> QED
    BY <2>1, <2>2, WindowAssumption
<1> QED
  BY <1>1, <1>2, WindowAssumption DEF WindowInv

LEMMA WindowInvariance == Spec => []WindowInv
<1>1. Init => WindowInv
  BY WindowInitHolds
<1>2. WindowInv /\ [Next]_vars => WindowInv'
  BY WindowStepKeeps
<1> QED
  BY <1>1, <1>2, PTL DEF Spec

(* Safety: whatever the connections of an address do, and however often it *)
(* is refused, no window lets more of them pass than the limit             *)
(* (api/routes/telemetry.py, _check_ws_rate_limit).                        *)
THEOREM WindowIsBounded == Spec => []WindowBounded
<1>1. WindowInv => WindowBounded
  BY DEF WindowInv
<1> QED
  BY <1>1, WindowInvariance, PTL

---------------------------------------------------------------------------
(* What may be in a queue, a replay, a hand, or sent, and how much. *)

Contents ==
  /\ queue \in [Sockets -> Seq(Events)]
  /\ out \in [Sockets -> Seq(Events)]
  /\ hand \in [Sockets -> Seq(Events)]
  /\ got \in [Sockets -> Seq(Events)]
  /\ dropped \in [Sockets -> SUBSET Events]
  /\ \A s \in Sockets : Len(queue[s]) <= QueueCap

LEMMA EntriesOf ==
  ASSUME NEW S, NEW list \in Seq(S)
  PROVE  ToSet(list) \subseteq S
<1>1. DOMAIN list = 1..Len(list) /\ \A i \in 1..Len(list) : list[i] \in S
  BY LenProperties, ElementOfSeq
<1> QED
  BY <1>1 DEF ToSet

LEMMA BroadcastFits ==
  ASSUME Contents, NEW e \in Events, Broadcast(e), UNCHANGED <<out, hand, got>>
  PROVE  Contents'
<1> DEFINE full == {s \in subs : Len(queue[s]) >= QueueCap}
<1>1. /\ queue' = [s \in Sockets |-> IF s \in subs \ full THEN Append(queue[s], e) ELSE queue[s]]
      /\ dropped' = [s \in Sockets |-> IF s \in full THEN dropped[s] \union {e} ELSE dropped[s]]
  BY DEF Broadcast
<1>2. \A s \in Sockets :
        /\ queue[s] \in Seq(Events) /\ dropped[s] \in SUBSET Events /\ Len(queue[s]) <= QueueCap
  BY DEF Contents
<1>3. \A s \in Sockets :
        /\ Append(queue[s], e) \in Seq(Events)
        /\ s \in subs \ full => Len(Append(queue[s], e)) <= QueueCap
  BY <1>2, AppendProperties, LenProperties, QueueAssumption
<1> HIDE DEF full
<1>4. /\ queue' \in [Sockets -> Seq(Events)] /\ dropped' \in [Sockets -> SUBSET Events]
      /\ \A s \in Sockets : Len(queue'[s]) <= QueueCap
  BY <1>1, <1>2, <1>3
<1>5. Events' = Events
  BY DEF Events, StatusEvent, Event
<1> QED
  BY <1>4, <1>5 DEF Contents

LEMMA ReplayFits ==
  ASSUME Typed
  PROVE  <<StatusEvent>> \o HostEvents(1, hosts) \o VerdictEvents \in Seq(Events)
<1>1. hosts \in Nat /\ hosts <= NumHosts
  BY HostsAssumption DEF Typed
<1>2. <<StatusEvent>> \in Seq(Events)
  BY DEF Events
<1>3. HostEvents(1, hosts) \in Seq(Events)
  <2>1. \A i \in 1..hosts : Event("host_result", 1 + i - 1) \in Events
    <3> SUFFICES ASSUME NEW i \in 1..hosts PROVE Event("host_result", 1 + i - 1) \in Events
      OBVIOUS
    <3>1. 1 + i - 1 \in 1..NumHosts
      BY <1>1, HostsAssumption
    <3> QED
      BY <3>1 DEF Events
  <2>2. hosts + 1 - 1 = hosts
    BY <1>1
  <2>3. HostEvents(1, hosts) \in [1..hosts -> Events]
    BY <2>1, <2>2 DEF HostEvents
  <2> QED
    BY <1>1, <2>3
<1>4. VerdictEvents \in Seq(Events)
  <2>1. CASE status = "running"
    BY <2>1, EmptySeq DEF VerdictEvents
  <2>2. CASE status # "running"
    <3>1. Event(status, 0) \in Events
      BY <2>2 DEF Typed, Events
    <3> QED
      BY <2>2, <3>1 DEF VerdictEvents
  <2> QED
    BY <2>1, <2>2
<1>5. HostEvents(1, hosts) \o VerdictEvents \in Seq(Events)
  BY <1>3, <1>4, ConcatProperties
<1>6. <<StatusEvent>> \o HostEvents(1, hosts) \in Seq(Events)
  BY <1>2, <1>3, ConcatProperties
<1> QED
  BY <1>4, <1>6, ConcatProperties

LEMMA HandlerFits ==
  ASSUME Typed, Contents, NEW s \in Sockets, Handler(s) \/ Leave(s)
  PROVE  Contents'
<1>1. /\ queue[s] \in Seq(Events) /\ out[s] \in Seq(Events) /\ hand[s] \in Seq(Events)
      /\ got[s] \in Seq(Events) /\ Len(queue[s]) <= QueueCap
  BY DEF Contents
<1>2. Events' = Events
  BY DEF Events, StatusEvent, Event
<1>3. CASE Accept(s)
  <2>1. /\ out' = [out EXCEPT ![s] = <<StatusEvent>> \o HostEvents(1, hosts) \o VerdictEvents]
        /\ UNCHANGED <<queue, hand, got, dropped>>
    BY <1>3 DEF Accept
  <2>2. out' \in [Sockets -> Seq(Events)]
    BY <2>1, ReplayFits DEF Contents
  <2> QED
    BY <1>2, <2>1, <2>2 DEF Contents
<1>4. CASE SendReplay(s)
  <2>1. /\ out[s] # <<>> /\ out' = [out EXCEPT ![s] = Tail(out[s])]
        /\ got' = [got EXCEPT ![s] = Append(got[s], Head(out[s]))]
        /\ UNCHANGED <<queue, hand, dropped>>
    BY <1>4 DEF SendReplay
  <2>2. Head(out[s]) \in Events /\ Tail(out[s]) \in Seq(Events)
    BY <1>1, <2>1, HeadAndTail
  <2>3. Append(got[s], Head(out[s])) \in Seq(Events)
    BY <1>1, <2>2, AppendProperties
  <2>4. out' \in [Sockets -> Seq(Events)] /\ got' \in [Sockets -> Seq(Events)]
    BY <2>1, <2>2, <2>3 DEF Contents
  <2> QED
    BY <1>2, <2>1, <2>4 DEF Contents
<1>5. CASE ReplayDone(s)
  BY <1>2, <1>5 DEF ReplayDone, Contents
<1>6. CASE Fetch(s)
  <2>1. /\ queue[s] # <<>> /\ queue' = [queue EXCEPT ![s] = Tail(queue[s])]
        /\ hand' = [hand EXCEPT ![s] = <<Head(queue[s])>>]
        /\ UNCHANGED <<out, got, dropped>>
    BY <1>6 DEF Fetch
  <2>2. /\ Head(queue[s]) \in Events /\ Tail(queue[s]) \in Seq(Events)
        /\ Len(Tail(queue[s])) = Len(queue[s]) - 1
    BY <1>1, <2>1, HeadAndTail
  <2>3. Len(Tail(queue[s])) <= QueueCap
    BY <1>1, <2>2, LenProperties, QueueAssumption
  <2>4. /\ queue' \in [Sockets -> Seq(Events)] /\ hand' \in [Sockets -> Seq(Events)]
        /\ \A t \in Sockets : Len(queue'[t]) <= QueueCap
    BY <2>1, <2>2, <2>3 DEF Contents
  <2> QED
    BY <1>2, <2>1, <2>4 DEF Contents
<1>7. CASE Send(s)
  <2>1. /\ got' = [got EXCEPT ![s] = got[s] \o hand[s]] /\ hand' = [hand EXCEPT ![s] = <<>>]
        /\ UNCHANGED <<queue, out, dropped>>
    BY <1>7 DEF Send
  <2>2. got[s] \o hand[s] \in Seq(Events)
    BY <1>1, ConcatProperties
  <2>3. got' \in [Sockets -> Seq(Events)] /\ hand' \in [Sockets -> Seq(Events)]
    BY <2>1, <2>2, EmptySeq DEF Contents
  <2> QED
    BY <1>2, <2>1, <2>3 DEF Contents
<1>8. CASE Leave(s)
  <2>1. hand' = [hand EXCEPT ![s] = <<>>] /\ UNCHANGED <<queue, out, got, dropped>>
    BY <1>8 DEF Leave
  <2>2. hand' \in [Sockets -> Seq(Events)]
    BY <2>1, EmptySeq DEF Contents
  <2> QED
    BY <1>2, <2>1, <2>2 DEF Contents
<1> QED
  BY <1>3, <1>4, <1>5, <1>6, <1>7, <1>8 DEF Handler

LEMMA StepFits == Typed /\ Contents /\ [Next]_vars => Contents'
<1> SUFFICES ASSUME Typed, Contents, [Next]_vars PROVE Contents'
  OBVIOUS
<1>1. ASSUME UNCHANGED <<queue, out, hand, got, dropped>> PROVE Contents'
  BY <1>1 DEF Contents, Events, StatusEvent, Event
<1>2. CASE HostResult
  <2>1. hosts + 1 \in 1..NumHosts
    BY <1>2, HostsAssumption DEF Typed, HostResult
  <2>2. Event("host_result", hosts + 1) \in Events
    BY <2>1 DEF Events
  <2> QED
    BY <1>2, <2>2, BroadcastFits DEF HostResult
<1>3. CASE Finish
  <2>1. PICK v \in Verdicts : Broadcast(Event(v, 0))
    BY <1>3 DEF Finish
  <2>2. Event(v, 0) \in Events
    BY DEF Events
  <2> QED
    BY <1>3, <2>1, <2>2, BroadcastFits DEF Finish
<1>4. CASE Tick \/ UNCHANGED vars
  BY <1>1, <1>4 DEF Tick, vars
<1>5. ASSUME NEW a \in Addresses, Limited(a) \/ Denied(a)
      PROVE  Contents'
  BY <1>1, <1>5 DEF Limited, Denied
<1>6. ASSUME NEW s \in Sockets, Connect(s)
      PROVE  Contents'
  BY <1>1, <1>6 DEF Connect
<1>7. ASSUME NEW s \in Sockets, Handler(s) \/ Leave(s)
      PROVE  Contents'
  BY <1>7, HandlerFits
<1> QED
  BY <1>2, <1>3, <1>4, <1>5, <1>6, <1>7 DEF Next

LEMMA ContentsInvariance == Spec => []Contents
<1>1. Init => Contents
  BY EmptySeq, QueueAssumption DEF Init, Contents
<1>2. TelemetryInv => Typed
  BY DEF TelemetryInv
<1>3. Typed /\ Contents /\ [Next]_vars => Contents'
  BY StepFits
<1> QED
  BY <1>1, <1>2, <1>3, Invariance, PTL DEF Spec

(* Type correctness: no queue exceeds its capacity, no entry of the        *)
(* limiter its limit, and a client is sent events of its scan only         *)
(* (api/services.py, api/routes/telemetry.py).                             *)
THEOREM TypeCorrect == Spec => []TypeOK
<1>1. TelemetryInv /\ WindowInv /\ Contents => TypeOK
  <2> SUFFICES ASSUME TelemetryInv, WindowInv, Contents PROVE TypeOK
    OBVIOUS
  <2>1. ASSUME NEW s \in Sockets
        PROVE  /\ Len(queue[s]) <= QueueCap /\ Len(hand[s]) <= 1
               /\ ToSet(queue[s] \o out[s] \o hand[s] \o got[s]) \union dropped[s] \subseteq Events
    <3>1. Len(queue[s]) <= QueueCap /\ Len(hand[s]) <= 1 /\ dropped[s] \subseteq Events
      BY DEF Contents, TelemetryInv, SocketInv, Placed
    <3>2. queue[s] \o out[s] \o hand[s] \o got[s] \in Seq(Events)
      BY ConcatProperties DEF Contents
    <3>3. ToSet(queue[s] \o out[s] \o hand[s] \o got[s]) \subseteq Events
      BY <3>2, EntriesOf
    <3> QED
      BY <3>1, <3>3
  <2>2. /\ status \in Verdicts \union {"running"} /\ hosts \in 0..NumHosts
        /\ pc \in [Sockets -> {"idle", "accepting", "replaying", "relaying", "closed", "gone"}]
        /\ subs \subseteq Sockets
    BY DEF TelemetryInv, Typed, Stages
  <2>3. clock \in 0..MaxClock /\ \A a \in Addresses : Len(recent[a]) <= WindowMax
    BY DEF WindowInv
  <2> QED
    BY <2>1, <2>2, <2>3 DEF TypeOK
<1> QED
  BY <1>1, Invariance, WindowInvariance, ContentsInvariance, PTL

---------------------------------------------------------------------------
(* The promise of a stream. *)

(* Events wait in the order of the log, and while none was lost they are   *)
(* its end.                                                                *)
Ordered(w, lossless) ==
  /\ \A i \in 1..Len(w) :
       Position(w[i]) \in 2..LogLength /\ w[i] = Stream!EventAt(Position(w[i]))
  /\ \A i \in 1..(Len(w) - 1) : Position(w[i]) < Position(w[i + 1])
  /\ lossless => \A i \in 1..Len(w) : Position(w[i]) = LogLength - Len(w) + i

(* A queue begins where its client joined, until it is relayed; a replay   *)
(* goes on where the client stands and reaches past where it joined.       *)
StartsAt(s) ==
  IF queue[s] = <<>> THEN hosts = joined[s]
                     ELSE Position(queue[s][1]) = joined[s] + 2
GoesOn(s) ==
  /\ \A i \in 1..Len(out[s]) : out[s][i] = Stream!EventAt(Len(got[s]) + i)
  /\ Len(got[s]) + Len(out[s]) \in (joined[s] + 1)..LogLength

Open == {"accepting", "replaying", "relaying"}
StreamInv(s) ==
  /\ pc[s] = "closed" => s \notin subs
  /\ pc[s] \in Open => Ordered(Waiting(s), dropped[s] = {})
  /\ pc[s] \in {"accepting", "replaying"} /\ status = "running" => StartsAt(s)
  /\ pc[s] = "replaying" => GoesOn(s)

PromiseInv == TelemetryInv /\ \A s \in Sockets : StreamInv(s)

(* An event of the log is found at its position, which does not move when  *)
(* the log grows.                                                          *)
LogReads ==
  \A p \in 1..LogLength :
    /\ Stream!EventAt(p) \in Notices
    /\ \A e : e = Stream!EventAt(p) => Position(e) = p
    /\ Stream!EventAt(p).type \in Verdicts <=> status # "running" /\ p = LogLength

LEMMA LogIsRead == Typed => LogReads
<1> SUFFICES ASSUME Typed, NEW p \in 1..LogLength
             PROVE  /\ Stream!EventAt(p) \in Notices
                    /\ \A e : e = Stream!EventAt(p) => Position(e) = p
                    /\ Stream!EventAt(p).type \in Verdicts <=> status # "running" /\ p = LogLength
  BY DEF LogReads
<1>1. hosts \in Nat /\ status \in Verdicts \union {"running"}
  BY HostsAssumption DEF Typed
<1>2. p \in Nat /\ p >= 1 /\ LogLength \in Nat
  BY <1>1 DEF LogLength
<1>3. CASE p = 1
  BY <1>1, <1>2, <1>3, VerdictKinds DEF LogLength, Stream!EventAt, Position, Notices, Kinds
<1>4. CASE p \in 2..(hosts + 1)
  <2>1. Stream!EventAt(p) = [type |-> "host_result", host |-> p - 1] /\ p - 1 \in Nat
    BY <1>1, <1>2, <1>4 DEF Stream!EventAt
  <2> QED
    BY <1>1, <1>2, <1>4, <2>1, VerdictKinds DEF LogLength, Position, Notices, Kinds
<1>5. CASE p # 1 /\ p \notin 2..(hosts + 1)
  <2>1. p = hosts + 2 /\ status \in Verdicts /\ p = LogLength
    BY <1>1, <1>2, <1>5 DEF LogLength
  <2>2. Stream!EventAt(p) = [type |-> status, host |-> 0]
    BY <1>5 DEF Stream!EventAt
  <2> QED
    BY <1>1, <2>1, <2>2, VerdictKinds DEF Position, Notices, Kinds
<1> QED
  BY <1>3, <1>4, <1>5

LEMMA LogIsReadNext == Typed' => LogReads'
<1>1. (Typed => LogReads)'
  BY LogIsRead, PTL
<1> QED
  BY <1>1

(* A step of the job adds one event to the log.                            *)
LogGrows(e) ==
  /\ LogLength' = LogLength + 1
  /\ \A p \in 1..LogLength : Stream!EventAt(p)' = Stream!EventAt(p)
  /\ Stream!EventAt(LogLength)' = e
  /\ Broadcast(e) /\ e \in Notices
  /\ status = "running" /\ LogLength = hosts + 1
  /\ UNCHANGED <<pc, subs, out, hand, got, joined>>

LEMMA JobWrites ==
  ASSUME Typed, HostResult \/ Finish
  PROVE  \E e \in Notices : LogGrows(e)
<1>1. hosts \in Nat /\ status = "running" /\ LogLength = hosts + 1
      /\ UNCHANGED <<pc, subs, out, hand, got, joined>>
  BY HostsAssumption DEF Typed, HostResult, Finish, LogLength
<1>2. CASE HostResult
  <2>1. hosts' = hosts + 1 /\ status' = "running" /\ Broadcast(Event("host_result", hosts + 1))
    BY <1>1, <1>2 DEF HostResult
  <2>2. LogLength' = hosts + 2
    BY <1>1, <2>1 DEF LogLength
  <2>3. ASSUME NEW p \in 1..LogLength PROVE Stream!EventAt(p)' = Stream!EventAt(p)
    BY <1>1, <2>1 DEF Stream!EventAt
  <2>4. Stream!EventAt(LogLength)' = Event("host_result", hosts + 1)
    BY <1>1, <2>1, <2>2 DEF Stream!EventAt, Event
  <2>5. Event("host_result", hosts + 1) \in Notices
    BY <1>1 DEF Event, Notices, Kinds
  <2> QED
    BY <1>1, <2>1, <2>2, <2>3, <2>4, <2>5 DEF LogGrows
<1>3. CASE Finish
  <2>1. PICK v \in Verdicts : status' = v /\ Broadcast(Event(v, 0)) /\ hosts' = hosts
    BY <1>3 DEF Finish
  <2>2. LogLength' = hosts + 2 /\ v # "running"
    BY <1>1, <2>1, VerdictKinds DEF LogLength
  <2>3. ASSUME NEW p \in 1..LogLength PROVE Stream!EventAt(p)' = Stream!EventAt(p)
    BY <1>1, <2>1 DEF Stream!EventAt
  <2>4. Stream!EventAt(LogLength)' = Event(v, 0)
    BY <1>1, <2>1, <2>2 DEF Stream!EventAt, Event
  <2>5. Event(v, 0) \in Notices
    BY DEF Event, Notices, Kinds
  <2> QED
    BY <1>1, <2>1, <2>2, <2>3, <2>4, <2>5 DEF LogGrows
<1> QED
  BY <1>2, <1>3

(* Who is subscribed gets an event unless the queue is full.               *)
LEMMA BroadcastReaches ==
  ASSUME Typed, NEW e \in Notices, Broadcast(e), NEW s \in Sockets
  PROVE  /\ queue'[s] \in {queue[s], Append(queue[s], e)}
         /\ s \in subs /\ queue[s] = <<>> => queue'[s] = Append(queue[s], e)
         /\ s \in subs /\ dropped'[s] = {} => queue'[s] = Append(queue[s], e)
         /\ dropped[s] \subseteq dropped'[s]
         /\ s \notin subs => dropped'[s] = dropped[s]
<1> DEFINE full == {t \in subs : Len(queue[t]) >= QueueCap}
<1>1. /\ queue' = [t \in Sockets |-> IF t \in subs \ full THEN Append(queue[t], e) ELSE queue[t]]
      /\ dropped' = [t \in Sockets |-> IF t \in full THEN dropped[t] \union {e} ELSE dropped[t]]
  BY DEF Broadcast
<1>2. queue[s] = <<>> => s \notin full
  BY QueueAssumption, EmptySeq
<1>3. s \in full => s \in subs
  OBVIOUS
<1> HIDE DEF full
<1>4. /\ queue'[s] = IF s \in subs \ full THEN Append(queue[s], e) ELSE queue[s]
      /\ dropped'[s] = IF s \in full THEN dropped[s] \union {e} ELSE dropped[s]
  BY <1>1
<1> QED
  BY <1>2, <1>3, <1>4

(* A waiting line keeps its order when the log grows, whether the new      *)
(* event joins it or not.                                                  *)
LEMMA OrderedStill ==
  ASSUME Typed, Typed', NEW e \in Notices, LogGrows(e),
         NEW w \in Seq(Notices), Ordered(w, FALSE)
  PROVE  /\ \A i \in 1..Len(w) : Position(w[i])' = Position(w[i])
         /\ Ordered(w, FALSE)'
<1>1. LogLength \in Nat /\ LogLength' = LogLength + 1 /\ Len(w) \in Nat
  BY HostsAssumption DEF LogGrows, Typed
<1>2. ASSUME NEW i \in 1..Len(w)
      PROVE  /\ Position(w[i])' = Position(w[i])
             /\ Position(w[i]) \in 2..LogLength /\ Position(w[i])' \in 2..LogLength'
             /\ w[i] = Stream!EventAt(Position(w[i]))'
  <2> DEFINE p == Position(w[i])
  <2>1. p \in 2..LogLength /\ w[i] = Stream!EventAt(p)
    BY DEF Ordered
  <2> HIDE DEF p
  <2>2. PICK n \in 2..LogLength : n = p
    BY <2>1
  <2>3. w[i] = Stream!EventAt(n) /\ n \in 1..LogLength /\ n \in 1..LogLength' /\ n \in 2..LogLength'
    BY <1>1, <2>1, <2>2
  <2>4. w[i] = Stream!EventAt(n)'
    BY <2>3 DEF LogGrows
  <2>5. \A x : x = Stream!EventAt(n)' => Position(x)' = n
    BY <2>3, LogIsReadNext DEF LogReads
  <2>6. Position(w[i])' = n
    BY <2>4, <2>5
  <2> QED
    BY <2>1, <2>2, <2>3, <2>4, <2>6 DEF p
<1>3. \A i \in 1..(Len(w) - 1) : i \in 1..Len(w) /\ i + 1 \in 1..Len(w)
  BY <1>1
<1>4. \A i \in 1..(Len(w) - 1) : Position(w[i])' < Position(w[i + 1])'
  BY <1>2, <1>3 DEF Ordered
<1> QED
  BY <1>2, <1>4 DEF Ordered

LEMMA NewIsLast ==
  ASSUME Typed, Typed', NEW e \in Notices, LogGrows(e)
  PROVE  e = Stream!EventAt(LogLength)' /\ Position(e)' = LogLength + 1
<1>0. LogLength \in Nat /\ LogLength' = LogLength + 1 /\ LogLength >= 1
  BY HostsAssumption DEF LogGrows, Typed
<1>1. e = Stream!EventAt(LogLength)'
  BY DEF LogGrows
<1>2. PICK m \in 1..LogLength' : m = LogLength'
  BY <1>0
<1>3. \A x : x = Stream!EventAt(m)' => Position(x)' = m
  BY LogIsReadNext DEF LogReads
<1>4. Stream!EventAt(m)' = Stream!EventAt(LogLength)'
  BY <1>2 DEF Stream!EventAt
<1> QED
  BY <1>0, <1>1, <1>2, <1>3, <1>4

LEMMA OrderedWithOneMore ==
  ASSUME Typed, Typed', NEW e \in Notices, LogGrows(e),
         NEW w \in Seq(Notices), NEW lossless \in BOOLEAN, Ordered(w, lossless)
  PROVE  Ordered(Append(w, e), lossless)'
<1> DEFINE v == Append(w, e)
           n == Len(w)
<1>1. /\ v \in Seq(Notices) /\ n \in Nat /\ Len(v) = n + 1
      /\ \A i \in 1..n : v[i] = w[i]
      /\ v[n + 1] = e
  BY AppendProperties
<1>2. LogLength \in Nat /\ LogLength' = LogLength + 1 /\ LogLength >= 1
  BY HostsAssumption DEF LogGrows, Typed
<1>3. /\ \A i \in 1..n : Position(w[i])' = Position(w[i])
      /\ Ordered(w, FALSE)'
  BY OrderedStill DEF Ordered
<1>4. e = Stream!EventAt(LogLength)' /\ Position(e)' = LogLength + 1
  BY NewIsLast
<1> HIDE DEF v, n
<1>5. ASSUME NEW i \in 1..(n + 1)
      PROVE  Position(v[i])' \in 2..LogLength' /\ v[i] = Stream!EventAt(Position(v[i]))'
  <2>1. CASE i = n + 1
    BY <1>1, <1>2, <1>4, <2>1 DEF Stream!EventAt
  <2>2. CASE i # n + 1
    <3>1. i \in 1..n /\ v[i] = w[i]
      BY <1>1, <2>2
    <3> QED
      BY <1>3, <3>1 DEF Ordered, n
  <2> QED
    BY <2>1, <2>2
<1>6. ASSUME NEW i \in 1..n PROVE Position(v[i])' < Position(v[i + 1])'
  <2>1. Position(w[i])' = Position(w[i]) /\ Position(w[i]) \in 2..LogLength /\ v[i] = w[i]
    BY <1>1, <1>3 DEF Ordered, n
  <2>2. CASE i = n
    BY <1>1, <1>2, <1>4, <2>1, <2>2
  <2>3. CASE i # n
    <3>1. i \in 1..(n - 1) /\ i + 1 \in 1..n
      BY <1>1, <2>3
    <3> QED
      BY <1>1, <1>3, <3>1 DEF Ordered, n
  <2> QED
    BY <2>2, <2>3
<1>7. ASSUME lossless, NEW i \in 1..(n + 1)
      PROVE  Position(v[i])' = LogLength' - (n + 1) + i
  <2>1. CASE i = n + 1
    BY <1>1, <1>2, <1>4, <2>1
  <2>2. CASE i # n + 1
    <3>1. i \in 1..n
      BY <1>1, <2>2
    <3>2. Position(w[i]) = LogLength - n + i /\ Position(w[i])' = Position(w[i]) /\ v[i] = w[i]
      BY <1>1, <1>3, <1>7, <3>1 DEF Ordered, n
    <3> QED
      BY <1>1, <1>2, <3>1, <3>2
  <2> QED
    BY <2>1, <2>2
<1>8. (n + 1) - 1 = n
  BY <1>1
<1> QED
  BY <1>1, <1>5, <1>6, <1>7, <1>8 DEF Ordered, v

(* Waiting events are a sequence, and a client that listens is subscribed. *)
LEMMA LinesAreSeqs ==
  ASSUME TelemetryInv, NEW s \in Sockets
  PROVE  /\ hand[s] \in Seq(Notices) /\ queue[s] \in Seq(Notices)
         /\ Waiting(s) \in Seq(Notices)
         /\ hand[s] = <<>> => Waiting(s) = queue[s]
         /\ pc[s] # "relaying" => hand[s] = <<>>
         /\ pc[s] \in Open => s \in subs
         /\ pc[s] = "idle" => s \notin subs /\ queue[s] = <<>>
         /\ pc[s] \in {"idle", "accepting"} => got[s] = <<>>
         /\ got[s] \in Seq(Notices) /\ out[s] \in Seq(Notices)
         /\ joined[s] \in Nat /\ joined[s] <= hosts /\ hosts \in Nat
         /\ Len(hand[s]) <= 1 /\ pc[s] \in Stages
<1>1. Typed /\ Placed(s)
  BY DEF TelemetryInv, SocketInv
<1>2. hand[s] \in Seq(Notices) /\ queue[s] \in Seq(Notices)
  BY <1>1 DEF Typed
<1>3. Waiting(s) \in Seq(Notices)
  BY <1>2, ConcatProperties DEF Waiting
<1>4. hand[s] = <<>> => Waiting(s) = queue[s]
  BY <1>2, ConcatEmptySeq DEF Waiting
<1> QED
  BY <1>1, <1>2, <1>3, <1>4, HostsAssumption DEF Typed, Placed, Open

LEMMA JobKeepsStream ==
  ASSUME PromiseInv, TelemetryInv', NEW e \in Notices, LogGrows(e), NEW s \in Sockets
  PROVE  StreamInv(s)' /\ Standing(s)' = Standing(s)
<1>1. Typed /\ Typed' /\ StreamInv(s) /\ TelemetryInv
  BY DEF PromiseInv, TelemetryInv
<1>2. /\ pc' = pc /\ subs' = subs /\ out' = out /\ hand' = hand /\ got' = got /\ joined' = joined
      /\ LogLength' = LogLength + 1 /\ LogLength \in Nat /\ LogLength = hosts + 1
  BY <1>1, LinesAreSeqs DEF LogGrows
<1>3. /\ queue'[s] \in {queue[s], Append(queue[s], e)}
      /\ s \in subs /\ queue[s] = <<>> => queue'[s] = Append(queue[s], e)
      /\ s \in subs /\ dropped'[s] = {} => queue'[s] = Append(queue[s], e)
      /\ dropped'[s] = {} => dropped[s] = {}
  BY <1>1, BroadcastReaches DEF LogGrows
<1>4. /\ hand[s] \in Seq(Notices) /\ queue[s] \in Seq(Notices) /\ Waiting(s) \in Seq(Notices)
      /\ hand[s] = <<>> => Waiting(s) = queue[s]
      /\ pc[s] # "relaying" => hand[s] = <<>>
      /\ pc[s] \in Open => s \in subs
      /\ joined[s] \in Nat /\ got[s] \in Seq(Notices) /\ out[s] \in Seq(Notices)
  BY <1>1, LinesAreSeqs
<1>5. hand[s] \o Append(queue[s], e) = Append(Waiting(s), e)
  <2>1. \A m, q \in Seq(Notices) : m \o Append(q, e) = Append(m \o q, e)
    BY AppendedLast
  <2> QED
    BY <1>4, <2>1 DEF Waiting
<1>6. Waiting(s)' \in {Waiting(s), Append(Waiting(s), e)}
      /\ (queue'[s] = Append(queue[s], e) => Waiting(s)' = Append(Waiting(s), e))
  BY <1>2, <1>3, <1>5 DEF Waiting
<1>7. /\ Append(Waiting(s), e) \in Seq(Notices)
      /\ Append(Waiting(s), e) # <<>>
      /\ Waiting(s) # <<>> => Append(Waiting(s), e)[1] = Waiting(s)[1] /\ 1 \in 1..Len(Waiting(s))
      /\ Waiting(s) = <<>> => Append(Waiting(s), e)[1] = e
  BY <1>4, AppendProperties, EmptySeq
<1>8. Position(e)' = LogLength + 1
  BY <1>1, NewIsLast
<1>9. CASE pc[s] \in Open
  <2>1. Ordered(Waiting(s), dropped[s] = {})
    BY <1>1, <1>9 DEF StreamInv
  <2>2. Ordered(Waiting(s), FALSE)
    BY <2>1 DEF Ordered
  <2> DEFINE w == Waiting(s)
  <2>3. PICK x \in Seq(Notices) : x = w
    BY <1>4
  <2>4. \A i \in 1..Len(x) : Position(x[i])' = Position(x[i])
    BY <1>1, <2>2, <2>3, OrderedStill
  <2>5. Ordered(x, FALSE)'
    BY <1>1, <2>2, <2>3, OrderedStill
  <2>6. PICK b \in BOOLEAN : b = (dropped[s] = {})
    OBVIOUS
  <2>7. Ordered(Append(x, e), b)'
    BY <1>1, <2>1, <2>3, <2>6, OrderedWithOneMore
  <2>8. Ordered(Waiting(s), dropped[s] = {})'
    <3>1. CASE queue'[s] = Append(queue[s], e)
      <4>1. Waiting(s)' = Append(x, e)
        BY <1>6, <2>3, <3>1
      <4>2. dropped'[s] = {} => b
        BY <1>3, <2>6
      <4> QED
        BY <2>7, <4>1, <4>2 DEF Ordered
    <3>2. CASE queue'[s] # Append(queue[s], e)
      <4>1. Waiting(s)' = x /\ dropped'[s] # {}
        BY <1>2, <1>3, <1>4, <1>9, <2>3, <3>2 DEF Waiting
      <4> QED
        BY <2>5, <4>1 DEF Ordered
    <3> QED
      BY <3>1, <3>2
  <2>9. ASSUME pc[s] \in {"accepting", "replaying"}, status' = "running" PROVE StartsAt(s)'
    <3>1. hand[s] = <<>> /\ Waiting(s) = queue[s] /\ StartsAt(s) /\ s \in subs
      BY <1>1, <1>4, <1>9, <2>9 DEF StreamInv, LogGrows
    <3>2. CASE queue[s] = <<>>
      <4>1. queue'[s] = Append(Waiting(s), e) /\ queue'[s] # <<>> /\ queue'[s][1] = e
        BY <1>3, <1>7, <3>1, <3>2
      <4>2. hosts = joined[s]
        BY <3>1, <3>2 DEF StartsAt
      <4> QED
        BY <1>2, <1>4, <1>8, <4>1, <4>2 DEF StartsAt
    <3>3. CASE queue[s] # <<>>
      <4>1. queue'[s] # <<>> /\ queue'[s][1] = x[1] /\ 1 \in 1..Len(x) /\ x = queue[s]
        BY <1>3, <1>7, <2>3, <3>1, <3>3
      <4>2. Position(x[1]) = joined[s] + 2
        BY <3>1, <3>3, <4>1 DEF StartsAt
      <4>3. Position(x[1])' = joined[s] + 2
        BY <2>4, <4>1, <4>2
      <4> QED
        BY <1>2, <4>1, <4>3 DEF StartsAt
    <3> QED
      BY <3>2, <3>3
  <2>10. ASSUME pc[s] = "replaying" PROVE GoesOn(s)'
    <3>1. GoesOn(s)
      BY <1>1, <2>10 DEF StreamInv
    <3> DEFINE g == Len(got[s])
               o == Len(out[s])
               n == LogLength
               j == joined[s]
    <3>2. g \in Nat /\ o \in Nat /\ n \in Nat /\ j \in Nat /\ g + o \in (j + 1)..n
      <4>1. got[s] \in Seq(Notices) /\ out[s] \in Seq(Notices) /\ j \in Nat
        BY <1>4
      <4>2. g \in Nat /\ o \in Nat
        BY <4>1
      <4>3. g + o \in (j + 1)..n /\ n \in Nat
        BY <1>2, <3>1 DEF GoesOn
      <4> QED
        BY <4>1, <4>2, <4>3
    <3> HIDE DEF g, o, n, j
    <3>3. ASSUME NEW i \in 1..o
          PROVE  out[s][i] = Stream!EventAt(Len(got[s]) + i)'
      <4>1. PICK p \in Nat : p = g + i
        BY <3>2
      <4>2. p \in 1..n
        BY <3>2, <4>1
      <4>3. out[s][i] = Stream!EventAt(p)
        BY <3>1, <4>1 DEF GoesOn, g, o
      <4>4. Stream!EventAt(p)' = Stream!EventAt(p)
        BY <4>2 DEF LogGrows, n
      <4>5. Stream!EventAt(Len(got[s]) + i)' = Stream!EventAt(p)'
        BY <1>2, <4>1 DEF Stream!EventAt, g
      <4> QED
        BY <4>3, <4>4, <4>5
    <3>4. g + o \in (j + 1)..(n + 1)
      BY <3>2
    <3> QED
      BY <1>2, <3>3, <3>4 DEF GoesOn, g, o, n, j
  <2>11. Standing(s)' = Standing(s)
    <3>1. CASE pc[s] \in {"accepting", "replaying"}
      BY <1>2, <3>1 DEF Standing
    <3>2. CASE pc[s] = "relaying" /\ Waiting(s) = <<>>
      <4>1. queue[s] = <<>>
        BY <1>4, <3>2, ConcatProperties, EmptySeq DEF Waiting
      <4>2. Waiting(s)' = Append(Waiting(s), e) /\ Waiting(s)' # <<>> /\ Head(Waiting(s)') = e
        BY <1>3, <1>4, <1>6, <1>7, <1>9, <3>2, <4>1
      <4> QED
        BY <1>2, <1>8, <3>2, <4>2 DEF Standing
    <3>3. CASE pc[s] = "relaying" /\ Waiting(s) # <<>>
      <4>1. Waiting(s)' # <<>> /\ Head(Waiting(s)') = x[1] /\ Head(Waiting(s)) = x[1] /\ 1 \in 1..Len(x)
        BY <1>6, <1>7, <2>3, <3>3
      <4>2. Position(x[1])' = Position(x[1])
        BY <2>4, <4>1
      <4> QED
        BY <1>2, <3>3, <4>1, <4>2 DEF Standing
    <3> QED
      BY <1>9, <3>1, <3>2, <3>3 DEF Open
  <2> QED
    BY <1>2, <1>9, <2>8, <2>9, <2>10, <2>11 DEF StreamInv, Open
<1>10. CASE pc[s] \notin Open
  BY <1>1, <1>2, <1>10 DEF StreamInv, Standing, Open
<1> QED
  BY <1>9, <1>10

(* A step of one handler leaves the job and the other sockets alone.       *)
LEMMA OneAtATime ==
  ASSUME Typed, NEW s \in Sockets, Connect(s) \/ Handler(s) \/ Leave(s)
  PROVE  UNCHANGED <<job, status, hosts, dropped>> /\ \A t \in Sockets \ {s} : Same(t)
<1>1. UNCHANGED <<job, status, hosts, dropped>>
  BY DEF Connect, Handler, Accept, SendReplay, ReplayDone, Fetch, Send, Leave, job
<1>2. CASE Connect(s)
  BY <1>2 DEF Typed, Connect, Moves, Same, job
<1>3. CASE Accept(s)
  BY <1>3 DEF Typed, Accept, Moves, Same, job
<1>4. CASE SendReplay(s)
  BY <1>4 DEF Typed, SendReplay, Same, job
<1>5. CASE ReplayDone(s)
  BY <1>5 DEF Typed, ReplayDone, Moves, Same, job
<1>6. CASE Fetch(s)
  BY <1>6 DEF Typed, Fetch, Same, job
<1>7. CASE Send(s)
  BY <1>7 DEF Typed, Send, Moves, Same, job
<1>8. CASE Leave(s)
  BY <1>8 DEF Typed, Leave, Same, job
<1> QED
  BY <1>1, <1>2, <1>3, <1>4, <1>5, <1>6, <1>7, <1>8 DEF Handler

LEMMA OrderedSame ==
  ASSUME UNCHANGED job, NEW w, NEW b, Ordered(w, b)
  PROVE  Ordered(w, b)' /\ \A e : Position(e)' = Position(e)
  BY DEF Ordered, Position, LogLength, Stream!EventAt, job

LEMMA OthersStand ==
  ASSUME UNCHANGED job, NEW t, StreamInv(t), Same(t)
  PROVE  StreamInv(t)' /\ Standing(t)' = Standing(t)
<1>1. /\ status' = status /\ hosts' = hosts /\ LogLength' = LogLength
      /\ \A e : Position(e)' = Position(e)
      /\ \A p : Stream!EventAt(p)' = Stream!EventAt(p)
  BY DEF job, LogLength, Position, Stream!EventAt
<1>2. Waiting(t)' = Waiting(t)
  BY DEF Waiting, Same
<1>3. Standing(t)' = Standing(t)
  BY <1>1, <1>2 DEF Standing, Same
<1>4. Ordered(Waiting(t), dropped[t] = {})' <=> Ordered(Waiting(t), dropped[t] = {})
  BY <1>1, <1>2 DEF Ordered, Same
<1>5. StartsAt(t)' <=> StartsAt(t)
  BY <1>1 DEF StartsAt, Same
<1>6. GoesOn(t)' <=> GoesOn(t)
  BY <1>1 DEF GoesOn, Same, Stream!EventAt
<1> QED
  BY <1>1, <1>3, <1>4, <1>5, <1>6 DEF StreamInv, Same

(* What a step of one handler is for the promise.                          *)
LEMMA StreamMoves ==
  ASSUME NEW s \in Sockets, UNCHANGED job, \A t \in Sockets \ {s} : StreamInv(t) /\ Same(t),
         NEW from, NEW to, NEW next,
         from = Phase[pc[s]], to = Phase[pc'[s]], Standing(s)' = next
  PROVE  Stream!Moves(s, from, to, next)
<1> DEFINE P == [t \in Sockets |-> Phase[pc[t]]]
           A == [t \in Sockets |-> Standing(t)]
<1>1. P' = [P EXCEPT ![s] = Phase[pc'[s]]]
  <2>1. \A t \in Sockets \ {s} : pc'[t] = pc[t]
    BY DEF Same
  <2> QED
    BY <2>1
<1>2. A' = [A EXCEPT ![s] = next]
  <2>1. \A t \in Sockets \ {s} : Standing(t)' = Standing(t)
    BY OthersStand
  <2> QED
    BY <2>1
<1>3. P[s] = Phase[pc[s]]
  OBVIOUS
<1> QED
  BY <1>1, <1>2, <1>3 DEF Stream!Moves

LEMMA Phases ==
  /\ Phase["idle"] = "away" /\ Phase["accepting"] = "replay" /\ Phase["replaying"] = "replay"
  /\ Phase["relaying"] = "live" /\ Phase["closed"] = "closed" /\ Phase["gone"] = "gone"
  BY DEF Phase

LEMMA ConnectJoins ==
  ASSUME PromiseInv, NEW s \in Sockets, Connect(s)
  PROVE  StreamInv(s)' /\ Stream!Join(s)
<1>1. /\ TelemetryInv /\ Typed /\ pc[s] = "idle" /\ pc' = [pc EXCEPT ![s] = "accepting"]
      /\ joined' = [joined EXCEPT ![s] = hosts]
      /\ UNCHANGED <<queue, hand, got, dropped>>
  BY DEF PromiseInv, TelemetryInv, Connect, Moves
<1>2. UNCHANGED <<job, status, hosts, dropped>> /\ \A t \in Sockets \ {s} : Same(t)
  BY <1>1, OneAtATime
<1>3. pc'[s] = "accepting" /\ joined'[s] = hosts
  BY <1>1 DEF Typed
<1>4. queue[s] = <<>> /\ hand[s] = <<>> /\ Waiting(s) = <<>> /\ got[s] = <<>>
  BY <1>1, LinesAreSeqs
<1>5. Waiting(s)' = <<>> /\ queue'[s] = <<>>
  BY <1>1, <1>4 DEF Waiting
<1>6. Ordered(Waiting(s), dropped[s] = {})'
  BY <1>5, EmptySeq DEF Ordered
<1>7. StartsAt(s)'
  BY <1>2, <1>3, <1>5 DEF StartsAt
<1>8. StreamInv(s)'
  BY <1>3, <1>6, <1>7 DEF StreamInv
<1>9. Standing(s)' = 1
  BY <1>1, <1>3, <1>4, EmptySeq DEF Standing
<1>10. Stream!Moves(s, "away", "replay", 1)
  BY <1>1, <1>2, <1>3, <1>9, StreamMoves, Phases DEF PromiseInv
<1> QED
  BY <1>1, <1>2, <1>8, <1>10 DEF Stream!Join

LEMMA ReplayIsLog ==
  ASSUME Typed
  PROVE  /\ Len(Replayed(hosts) \o VerdictEvents) = LogLength
         /\ \A i \in 1..LogLength : (Replayed(hosts) \o VerdictEvents)[i] = Stream!EventAt(i)
<1> DEFINE H == HostEvents(1, hosts)
           R == Replayed(hosts)
           V == VerdictEvents
<1>1. hosts \in Nat /\ status \in Verdicts \union {"running"}
  BY HostsAssumption DEF Typed
<1>2. H \in Seq(Notices) /\ Len(H) = hosts /\ \A i \in 1..hosts : H[i] = Event("host_result", i)
  <2>1. 1 \in Nat \ {0} /\ 1 <= hosts + 1 /\ hosts + 1 - 1 = hosts
    BY <1>1
  <2>2. /\ H \in Seq(Notices) /\ Len(H) = hosts + 1 - 1
        /\ \A i \in 1..(hosts + 1 - 1) : H[i] = Event("host_result", 1 + i - 1)
    BY <1>1, <2>1, HostsInOrder
  <2>3. \A i \in 1..hosts : 1 + i - 1 = i
    BY <1>1
  <2> QED
    BY <2>1, <2>2, <2>3
<1>3. <<StatusEvent>> \in Seq(Notices) /\ Len(<<StatusEvent>>) = 1 /\ <<StatusEvent>>[1] = StatusEvent
  BY DEF StatusEvent, Event, Notices, Kinds
<1> HIDE DEF H
<1>4. /\ R \in Seq(Notices) /\ Len(R) = hosts + 1
      /\ \A i \in 1..(hosts + 1) : R[i] = IF i <= 1 THEN StatusEvent ELSE H[i - 1]
  <2>1. /\ <<StatusEvent>> \o H \in Seq(Notices) /\ Len(<<StatusEvent>> \o H) = 1 + hosts
        /\ \A i \in 1..(1 + hosts) : (<<StatusEvent>> \o H)[i]
              = IF i <= 1 THEN <<StatusEvent>>[i] ELSE H[i - 1]
    BY <1>2, <1>3, ConcatProperties
  <2>2. R = <<StatusEvent>> \o H /\ 1 + hosts = hosts + 1
    BY <1>1 DEF Replayed, H
  <2>3. \A i \in 1..(hosts + 1) : i <= 1 => i = 1
    BY <1>1
  <2> QED
    BY <1>3, <2>1, <2>2, <2>3
<1> HIDE DEF R
<1>5. ASSUME NEW i \in 1..(hosts + 1) PROVE R[i] = Stream!EventAt(i)
  <2>1. CASE i = 1
    BY <1>1, <1>4, <2>1 DEF Stream!EventAt, StatusEvent, Event
  <2>2. CASE i # 1
    <3>1. i \in 2..(hosts + 1) /\ i - 1 \in 1..hosts /\ ~(i <= 1)
      BY <1>1, <2>2
    <3>2. R[i] = Event("host_result", i - 1)
      BY <1>2, <1>4, <3>1
    <3> QED
      BY <2>2, <3>1, <3>2 DEF Stream!EventAt, Event
  <2> QED
    BY <2>1, <2>2
<1>6. CASE status = "running"
  <2>1. V = <<>> /\ R \o V = R /\ LogLength = hosts + 1
    BY <1>4, <1>6, ConcatEmptySeq DEF VerdictEvents, LogLength
  <2> QED
    BY <1>4, <1>5, <2>1 DEF R, V
<1>7. CASE status # "running"
  <2>1. V = <<Event(status, 0)>> /\ LogLength = hosts + 2
    BY <1>7 DEF VerdictEvents, LogLength
  <2>2. V \in Seq(Notices) /\ Len(V) = 1 /\ V[1] = Event(status, 0)
    BY <1>1, <1>7, <2>1 DEF Event, Notices, Kinds
  <2> HIDE DEF V
  <2>3. /\ Len(R \o V) = hosts + 2
        /\ \A i \in 1..(hosts + 2) : (R \o V)[i] = IF i <= hosts + 1 THEN R[i] ELSE V[i - (hosts + 1)]
    <3>1. /\ Len(R \o V) = (hosts + 1) + 1
          /\ \A i \in 1..((hosts + 1) + 1) : (R \o V)[i] = IF i <= hosts + 1 THEN R[i] ELSE V[i - (hosts + 1)]
      <4>1. /\ Len(R \o V) = Len(R) + Len(V)
            /\ \A i \in 1..(Len(R) + Len(V)) :
                 (R \o V)[i] = IF i <= Len(R) THEN R[i] ELSE V[i - Len(R)]
        BY <1>4, <2>2, ConcatProperties
      <4> QED
        BY <1>4, <2>2, <4>1
    <3>2. (hosts + 1) + 1 = hosts + 2
      BY <1>1
    <3> QED
      BY <3>1, <3>2
  <2>4. ASSUME NEW i \in 1..(hosts + 2) PROVE (R \o V)[i] = Stream!EventAt(i)
    <3>1. CASE i <= hosts + 1
      <4>1. i \in 1..(hosts + 1)
        BY <1>1, <3>1
      <4> QED
        BY <1>5, <2>3, <3>1, <4>1
    <3>2. CASE ~(i <= hosts + 1)
      <4>1. i - (hosts + 1) = 1 /\ i # 1 /\ i \notin 2..(hosts + 1)
        BY <1>1, <3>2
      <4>2. (R \o V)[i] = Event(status, 0)
        BY <2>2, <2>3, <3>2, <4>1
      <4> QED
        BY <4>1, <4>2 DEF Stream!EventAt, Event
    <3> QED
      BY <3>1, <3>2
  <2> QED
    BY <2>1, <2>3, <2>4 DEF R, V
<1> QED
  BY <1>6, <1>7

LEMMA AcceptStands ==
  ASSUME PromiseInv, NEW s \in Sockets, Accept(s)
  PROVE  StreamInv(s)' /\ Standing(s)' = Standing(s) /\ Phase[pc'[s]] = Phase[pc[s]]
<1>1. /\ TelemetryInv /\ Typed /\ StreamInv(s) /\ pc[s] = "accepting" /\ pc' = [pc EXCEPT ![s] = "replaying"]
      /\ out' = [out EXCEPT ![s] = Replayed(hosts) \o VerdictEvents]
      /\ UNCHANGED <<job, status, hosts, subs, queue, hand, got, dropped, joined>>
  BY DEF PromiseInv, TelemetryInv, Accept, Moves, Replayed, job
<1>2. pc'[s] = "replaying" /\ out'[s] = Replayed(hosts) \o VerdictEvents
  BY <1>1 DEF Typed
<1>3. got[s] = <<>> /\ joined[s] \in Nat /\ joined[s] <= hosts /\ hosts \in Nat
  BY <1>1, LinesAreSeqs
<1>4. Len(out'[s]) = LogLength /\ \A i \in 1..LogLength : out'[s][i] = Stream!EventAt(i)
  BY <1>1, <1>2, ReplayIsLog
<1>5. Len(got[s]) = 0 /\ LogLength \in Nat /\ LogLength' = LogLength /\ hosts + 1 <= LogLength
  BY <1>1, <1>3, EmptySeq DEF LogLength
<1>6. GoesOn(s)'
  <2>1. \A i \in 1..LogLength : 0 + i = i
    BY <1>5
  <2>2. \A p : Stream!EventAt(p)' = Stream!EventAt(p)
    BY <1>1 DEF Stream!EventAt
  <2>3. 0 + LogLength \in (joined[s] + 1)..LogLength
    BY <1>3, <1>5
  <2>4. Len(got'[s]) = 0 /\ joined'[s] = joined[s] /\ status' = status /\ hosts' = hosts
    BY <1>1, <1>5
  <2>5. ASSUME NEW i \in 1..LogLength PROVE out'[s][i] = Stream!EventAt(Len(got[s]) + i)'
    BY <1>4, <2>1, <2>4 DEF Stream!EventAt
  <2> QED
    BY <1>4, <1>5, <2>3, <2>4, <2>5 DEF GoesOn
<1>7. Ordered(Waiting(s), dropped[s] = {})' /\ (StartsAt(s) => StartsAt(s)')
  <2>1. Ordered(Waiting(s), dropped[s] = {})
    BY <1>1 DEF StreamInv, Open
  <2>2. Waiting(s)' = Waiting(s) /\ dropped' = dropped
    BY <1>1 DEF Waiting
  <2> QED
    BY <1>1, <2>1, <2>2 DEF Ordered, StartsAt, Position, LogLength, Stream!EventAt
<1>8. StreamInv(s)'
  BY <1>1, <1>2, <1>6, <1>7 DEF StreamInv
<1>9. Standing(s)' = Standing(s)
  BY <1>1, <1>2 DEF Standing
<1> QED
  BY <1>1, <1>2, <1>8, <1>9, Phases

LEMMA ReplayIsTold ==
  ASSUME PromiseInv, NEW s \in Sockets, SendReplay(s)
  PROVE  StreamInv(s)' /\ Stream!Replay(s)
<1>1. /\ TelemetryInv /\ Typed /\ StreamInv(s) /\ pc[s] = "replaying" /\ out[s] # <<>>
      /\ got' = [got EXCEPT ![s] = Append(got[s], Head(out[s]))]
      /\ out' = [out EXCEPT ![s] = Tail(out[s])]
      /\ UNCHANGED <<job, status, hosts, pc, subs, queue, hand, dropped, joined>>
  BY DEF PromiseInv, TelemetryInv, SendReplay, job
<1>2. UNCHANGED job /\ \A t \in Sockets \ {s} : Same(t)
  BY <1>1, OneAtATime DEF Handler
<1>3. /\ got[s] \in Seq(Notices) /\ out[s] \in Seq(Notices)
      /\ joined[s] \in Nat /\ hosts \in Nat
  BY <1>1, LinesAreSeqs
<1>4. /\ Head(out[s]) \in Notices /\ Tail(out[s]) \in Seq(Notices)
      /\ Head(out[s]) = out[s][1] /\ 1 \in 1..Len(out[s])
      /\ Len(Tail(out[s])) = Len(out[s]) - 1
      /\ \A i \in 1..Len(Tail(out[s])) : Tail(out[s])[i] = out[s][i + 1]
  BY <1>1, <1>3, HeadAndTail
<1> DEFINE g == Len(got[s])
           o == Len(out[s])
           n == LogLength
           j == joined[s]
<1>5. GoesOn(s)
  BY <1>1 DEF StreamInv
<1>6. g \in Nat /\ o \in Nat /\ o >= 1 /\ n \in Nat /\ j \in Nat /\ g + o \in (j + 1)..n
  <2>1. g \in Nat /\ o \in Nat
    BY <1>3
  <2>2. g + o \in (j + 1)..n
    BY <1>5 DEF GoesOn
  <2>4. n \in Nat
    BY <1>3 DEF LogLength
  <2>3. o >= 1
    BY <1>4, <2>1
  <2> QED
    BY <1>3, <2>1, <2>2, <2>3, <2>4
<1>7. \A i \in 1..o : out[s][i] = Stream!EventAt(g + i)
  BY <1>5 DEF GoesOn
<1>8. /\ got'[s] = Append(got[s], Head(out[s])) /\ out'[s] = Tail(out[s])
      /\ Len(got'[s]) = g + 1 /\ Len(out'[s]) = o - 1
  BY <1>1, <1>3, <1>4, AppendProperties DEF Typed
<1> HIDE DEF g, o, n, j
<1>9. g + 1 \in 1..n /\ (g + 1) + (o - 1) = g + o /\ o - 1 \in Nat
  BY <1>6
<1>10. Head(out[s]) = Stream!EventAt(g + 1)
  BY <1>4, <1>7 DEF o
<1>11. GoesOn(s)'
  <2>1. ASSUME NEW i \in 1..(o - 1) PROVE out'[s][i] = Stream!EventAt(Len(got[s]) + i)'
    <3>1. i + 1 \in 1..o /\ (g + 1) + i = g + (i + 1)
      BY <1>6
    <3>2. out'[s][i] = Stream!EventAt(g + (i + 1))
      BY <1>4, <1>7, <1>8, <3>1 DEF o
    <3>3. Len(got'[s]) + i = g + (i + 1) /\ status' = status /\ hosts' = hosts
      BY <1>1, <1>8, <3>1
    <3> QED
      BY <3>2, <3>3 DEF Stream!EventAt
  <2>2. LogLength' = n /\ joined'[s] = j
    BY <1>1 DEF LogLength, n, j
  <2>3. Len(got'[s]) + Len(out'[s]) \in (j + 1)..n
    BY <1>6, <1>8, <1>9
  <2> QED
    BY <1>8, <2>1, <2>2, <2>3 DEF GoesOn
<1>12. Ordered(Waiting(s), dropped[s] = {})' /\ (StartsAt(s) => StartsAt(s)')
  <2>1. Ordered(Waiting(s), dropped[s] = {})
    BY <1>1 DEF StreamInv, Open
  <2>2. Waiting(s)' = Waiting(s) /\ dropped' = dropped
    BY <1>1 DEF Waiting
  <2> QED
    BY <1>1, <2>1, <2>2 DEF Ordered, StartsAt, Position, LogLength, Stream!EventAt
<1>13. StreamInv(s)'
  BY <1>1, <1>11, <1>12 DEF StreamInv
<1>14. Standing(s) = g + 1 /\ Standing(s)' = g + 1 + 1
  BY <1>1, <1>8 DEF Standing, g
<1>15. Stream!Moves(s, "replay", "replay", g + 1 + 1)
  <2>1. PICK m \in Nat : m = g + 1 + 1
    BY <1>6
  <2>2. Phase[pc[s]] = "replay" /\ Phase[pc'[s]] = "replay"
    BY <1>1, Phases
  <2>3. Stream!Moves(s, "replay", "replay", m)
    BY <1>2, <1>14, <2>1, <2>2, StreamMoves DEF PromiseInv
  <2> QED
    BY <2>1, <2>3 DEF Stream!Moves
<1>16. n = Stream!Length
  BY DEF n, LogLength, Stream!Length
<1>17. [t \in Sockets |-> Standing(t)][s] = g + 1
  BY <1>14
<1>18. Stream!Tell(s)
  BY <1>1, <1>9, <1>10, <1>16, <1>17 DEF Stream!Tell
<1>19. Stream!Moves(s, "replay", "replay", [t \in Sockets |-> Standing(t)][s] + 1)
  BY <1>15, <1>17 DEF Stream!Moves
<1> QED
  BY <1>13, <1>18, <1>19 DEF Stream!Replay, Stream!Moves

LEMMA ReplayDoneEnds ==
  ASSUME PromiseInv, NEW s \in Sockets, ReplayDone(s)
  PROVE  StreamInv(s)' /\ Stream!ReplayEnds(s)
<1>1. /\ TelemetryInv /\ Typed /\ StreamInv(s) /\ pc[s] = "replaying" /\ out[s] = <<>>
      /\ UNCHANGED <<job, status, hosts, queue, out, hand, got, dropped, joined>>
      /\ \/ status = "running" /\ pc' = [pc EXCEPT ![s] = "relaying"] /\ subs' = subs
         \/ status # "running" /\ pc' = [pc EXCEPT ![s] = "closed"] /\ subs' = subs \ {s}
  BY DEF PromiseInv, TelemetryInv, ReplayDone, Moves, job
<1>2. UNCHANGED job /\ \A t \in Sockets \ {s} : Same(t)
  BY <1>1, OneAtATime DEF Handler
<1>3. pc'[s] = (IF status = "running" THEN "relaying" ELSE "closed")
  BY <1>1 DEF Typed
<1>4. /\ Waiting(s) = queue[s] /\ Waiting(s)' = Waiting(s)
      /\ joined[s] \in Nat /\ hosts \in Nat /\ got[s] \in Seq(Notices) /\ queue[s] \in Seq(Notices)
  BY <1>1, LinesAreSeqs DEF Waiting
<1>5. Ordered(Waiting(s), dropped[s] = {})'
  <2>1. Ordered(Waiting(s), dropped[s] = {})
    BY <1>1 DEF StreamInv, Open
  <2> QED
    BY <1>1, <1>4, <2>1 DEF Ordered, Position, LogLength, Stream!EventAt
<1>6. StreamInv(s)'
  BY <1>1, <1>3, <1>5 DEF StreamInv
<1>7. Standing(s) >= joined[s] + 2
  <2>1. Len(got[s]) + Len(out[s]) \in (joined[s] + 1)..LogLength
    BY <1>1 DEF StreamInv, GoesOn
  <2>2. Len(out[s]) = 0 /\ Len(got[s]) \in Nat
    BY <1>1, <1>4, EmptySeq
  <2>3. LogLength \in Nat
    BY <1>4 DEF LogLength
  <2>4. Standing(s) = Len(got[s]) + 1
    BY <1>1 DEF Standing
  <2> QED
    BY <1>4, <2>1, <2>2, <2>3, <2>4
<1>8. [t \in Sockets |-> Standing(t)][s] >= joined[s] + 2
  BY <1>7
<1>9. CASE status = "running"
  <2>1. StartsAt(s)
    BY <1>1, <1>9 DEF StreamInv
  <2>2. Standing(s)' = joined[s] + 2
    <3>1. CASE queue[s] = <<>>
      <4>1. Standing(s)' = (LogLength + 1)'
        BY <1>3, <1>4, <1>9, <3>1 DEF Standing
      <4>2. LogLength' = hosts + 1 /\ hosts = joined[s]
        BY <1>1, <1>9, <2>1, <3>1 DEF LogLength, StartsAt
      <4> QED
        BY <1>4, <4>1, <4>2
    <3>2. CASE queue[s] # <<>>
      <4>1. Head(queue[s]) = queue[s][1]
        BY <1>4, <3>2, HeadAndTail
      <4>2. Standing(s)' = Position(queue[s][1])'
        BY <1>1, <1>3, <1>4, <1>9, <3>2, <4>1 DEF Standing
      <4>3. Position(queue[s][1])' = Position(queue[s][1])
        BY <1>1 DEF Position
      <4>4. Position(queue[s][1]) = joined[s] + 2
        BY <2>1, <3>2 DEF StartsAt
      <4> QED
        BY <4>2, <4>3, <4>4
    <3> QED
      BY <3>1, <3>2
  <2>3. PICK m \in Nat : m = joined[s] + 2
    BY <1>4
  <2>4. Phase[pc[s]] = "replay" /\ Phase[pc'[s]] = "live"
    BY <1>1, <1>3, <1>9, Phases
  <2>5. Stream!Moves(s, "replay", "live", m)
    BY <1>2, <2>2, <2>3, <2>4, StreamMoves DEF PromiseInv
  <2>6. Stream!Moves(s, "replay", "live", joined[s] + 2)
    BY <2>3, <2>5 DEF Stream!Moves
  <2> QED
    BY <1>1, <1>6, <1>8, <1>9, <2>6 DEF Stream!ReplayEnds
<1>10. CASE status # "running"
  <2>1. Standing(s)' = 0
    BY <1>3, <1>10 DEF Standing
  <2>2. Phase[pc[s]] = "replay" /\ Phase[pc'[s]] = "closed"
    BY <1>1, <1>3, <1>10, Phases
  <2>3. Stream!Moves(s, "replay", "closed", 0)
    BY <1>2, <2>1, <2>2, StreamMoves DEF PromiseInv
  <2> QED
    BY <1>1, <1>6, <1>8, <1>10, <2>3 DEF Stream!ReplayEnds
<1> QED
  BY <1>9, <1>10

LEMMA FetchStands ==
  ASSUME PromiseInv, NEW s \in Sockets, Fetch(s)
  PROVE  StreamInv(s)' /\ Standing(s)' = Standing(s) /\ pc' = pc
<1>1. /\ TelemetryInv /\ Typed /\ StreamInv(s) /\ pc[s] = "relaying" /\ hand[s] = <<>> /\ queue[s] # <<>>
      /\ hand' = [hand EXCEPT ![s] = <<Head(queue[s])>>]
      /\ queue' = [queue EXCEPT ![s] = Tail(queue[s])]
      /\ UNCHANGED <<job, status, hosts, pc, subs, out, got, dropped, joined>>
  BY DEF PromiseInv, TelemetryInv, Fetch, job
<1>2. Waiting(s) = queue[s] /\ queue[s] \in Seq(Notices)
  BY <1>1, LinesAreSeqs
<1>3. queue[s] = <<Head(queue[s])>> \o Tail(queue[s])
  BY <1>1, <1>2, HeadAndTail
<1>4. hand'[s] = <<Head(queue[s])>> /\ queue'[s] = Tail(queue[s])
  BY <1>1 DEF Typed
<1>5. Waiting(s)' = Waiting(s)
  BY <1>2, <1>3, <1>4 DEF Waiting
<1>6. Ordered(Waiting(s), dropped[s] = {})
  BY <1>1 DEF StreamInv, Open
<1>7. Ordered(Waiting(s), dropped[s] = {})'
  BY <1>1, <1>5, <1>6 DEF Ordered, Position, LogLength, Stream!EventAt
<1>8. Standing(s)' = Standing(s)
  BY <1>1, <1>5 DEF Standing, Position, LogLength
<1> QED
  BY <1>1, <1>7, <1>8 DEF StreamInv

(* What is behind the first that waits is further on in the log, and next  *)
(* to it while nothing was lost.                                           *)
LEMMA OrderedRest ==
  ASSUME Typed, NEW w \in Seq(Notices), w # <<>>, NEW b \in BOOLEAN, Ordered(w, b)
  PROVE  /\ Ordered(Tail(w), b)
         /\ Position(w[1]) \in 2..LogLength /\ w[1] = Stream!EventAt(Position(w[1]))
         /\ Tail(w) # <<>> => /\ Position(Tail(w)[1]) \in 2..LogLength
                             /\ Position(w[1]) < Position(Tail(w)[1])
                             /\ (b => Position(Tail(w)[1]) = Position(w[1]) + 1)
         /\ Tail(w) = <<>> /\ b => Position(w[1]) = LogLength
<1> DEFINE r == Tail(w)
           n == Len(w)
<1>1. /\ r \in Seq(Notices) /\ 1 \in 1..n /\ Len(r) = n - 1 /\ n \in Nat
      /\ \A i \in 1..Len(r) : r[i] = w[i + 1]
  BY HeadAndTail
<1>2. LogLength \in Nat
  BY HostsAssumption DEF Typed, LogLength
<1>3. /\ \A i \in 1..n : Position(w[i]) \in 2..LogLength /\ w[i] = Stream!EventAt(Position(w[i]))
      /\ \A i \in 1..(n - 1) : Position(w[i]) < Position(w[i + 1])
      /\ b => \A i \in 1..n : Position(w[i]) = LogLength - n + i
  BY DEF Ordered
<1> HIDE DEF r, n
<1>4. \A i \in 1..(n - 1) : i \in 1..n /\ i + 1 \in 1..n /\ r[i] = w[i + 1]
  BY <1>1
<1>5. Ordered(r, b)
  <2>1. \A i \in 1..(n - 1) : Position(r[i]) \in 2..LogLength /\ r[i] = Stream!EventAt(Position(r[i]))
    BY <1>3, <1>4
  <2>2. ASSUME NEW i \in 1..(n - 1 - 1) PROVE Position(r[i]) < Position(r[i + 1])
    <3>1. i \in 1..(n - 1) /\ i + 1 \in 1..(n - 1)
      BY <1>1
    <3> QED
      BY <1>3, <1>4, <3>1
  <2>3. ASSUME b, NEW i \in 1..(n - 1) PROVE Position(r[i]) = LogLength - (n - 1) + i
    <3>1. Position(r[i]) = LogLength - n + (i + 1)
      BY <1>3, <1>4, <2>3
    <3> QED
      BY <1>1, <1>2, <3>1
  <2> QED
    BY <1>1, <2>1, <2>2, <2>3 DEF Ordered
<1>6. Position(w[1]) \in 2..LogLength /\ w[1] = Stream!EventAt(Position(w[1]))
  BY <1>1, <1>3
<1>7. ASSUME r # <<>>
      PROVE  /\ Position(r[1]) \in 2..LogLength /\ Position(w[1]) < Position(r[1])
             /\ b => Position(r[1]) = Position(w[1]) + 1
  <2>1. n - 1 # 0
    BY <1>1, <1>7, EmptySeq
  <2>2. 1 \in 1..(n - 1) /\ 1 + 1 \in 1..n /\ r[1] = w[1 + 1]
    BY <1>1, <1>4, <2>1
  <2>3. b => Position(w[1]) = LogLength - n + 1 /\ Position(w[1 + 1]) = LogLength - n + (1 + 1)
    BY <1>1, <1>3, <2>2
  <2> QED
    BY <1>1, <1>2, <1>3, <2>2, <2>3
<1>8. r = <<>> /\ b => Position(w[1]) = LogLength
  <2>1. r = <<>> => n = 1
    BY <1>1, EmptySeq
  <2> QED
    BY <1>1, <1>2, <1>3, <2>1
<1> QED
  BY <1>5, <1>6, <1>7, <1>8 DEF r

LEMMA SendTells ==
  ASSUME PromiseInv, NEW s \in Sockets, Send(s)
  PROVE  StreamInv(s)' /\ (Stream!Relay(s) \/ Stream!TellVerdict(s))
<1>1. TelemetryInv /\ Typed /\ StreamInv(s)
  BY DEF PromiseInv, TelemetryInv
<1>2. /\ pc[s] = "relaying" /\ hand[s] # <<>>
      /\ hand[s] \in Seq(Notices) /\ queue[s] \in Seq(Notices) /\ got[s] \in Seq(Notices)
      /\ Len(hand[s]) <= 1
  BY <1>1, LinesAreSeqs DEF Send
<1>3. /\ got' = [got EXCEPT ![s] = got[s] \o hand[s]]
      /\ hand' = [hand EXCEPT ![s] = <<>>]
      /\ UNCHANGED <<job, status, hosts, queue, out, dropped, joined>>
      /\ \/ hand[s][1].type \in Verdicts /\ pc' = [pc EXCEPT ![s] = "closed"] /\ subs' = subs \ {s}
         \/ hand[s][1].type \notin Verdicts /\ pc' = pc /\ subs' = subs
  BY DEF Send, Moves, job
<1>4. UNCHANGED job /\ \A t \in Sockets \ {s} : Same(t)
  BY <1>1, OneAtATime DEF Handler
<1> DEFINE e == hand[s][1]
           w == Waiting(s)
           p == Position(e)
<1>5. hand[s] = <<e>> /\ e \in Notices
  <2>1. Len(hand[s]) = 1 /\ e \in Notices
    <3>1. Len(hand[s]) \in Nat /\ Len(hand[s]) # 0
      BY <1>2, EmptySeq
    <3>2. Len(hand[s]) = 1
      <4>1. \A l \in Nat : l # 0 /\ l <= 1 => l = 1
        OBVIOUS
      <4>2. Len(hand[s]) <= 1
        BY <1>2
      <4> QED
        BY <3>1, <4>1, <4>2
    <3> QED
      BY <1>2, <3>2, ElementOfSeq
  <2>2. <<e>> \in Seq(Notices) /\ Len(<<e>>) = 1 /\ <<e>>[1] = e
    BY <2>1
  <2>3. \A i \in 1..1 : hand[s][i] = <<e>>[i]
    BY <2>2
  <2> QED
    BY <1>2, <2>1, <2>2, <2>3, SeqEqual
<1>6. got' = [got EXCEPT ![s] = Append(got[s], e)]
  BY <1>2, <1>3, <1>5, AppendIsConcat
<1>7. w \in Seq(Notices) /\ w # <<>> /\ w[1] = e /\ Head(w) = e /\ Tail(w) = queue[s]
  <2>1. w = <<e>> \o queue[s]
    BY <1>5 DEF Waiting
  <2>2. /\ w \in Seq(Notices) /\ Len(w) = 1 + Len(queue[s])
        /\ \A i \in 1..(1 + Len(queue[s])) : w[i] = IF i <= 1 THEN <<e>>[i] ELSE queue[s][i - 1]
    BY <1>2, <1>5, <2>1, ConcatProperties
  <2>3. Len(queue[s]) \in Nat /\ Len(w) # 0
    BY <1>2, <2>2
  <2>4. w # <<>> /\ w[1] = e
    BY <2>2, <2>3, EmptySeq
  <2>5. /\ Tail(w) \in Seq(Notices) /\ Len(Tail(w)) = Len(w) - 1 /\ Head(w) = w[1]
        /\ \A i \in 1..Len(Tail(w)) : Tail(w)[i] = w[i + 1]
    BY <2>2, <2>4, HeadAndTail
  <2>6. \A i \in 1..Len(queue[s]) : Tail(w)[i] = queue[s][i]
    <3> SUFFICES ASSUME NEW i \in 1..Len(queue[s]) PROVE Tail(w)[i] = queue[s][i]
      OBVIOUS
    <3>1. i \in 1..Len(Tail(w)) /\ i + 1 \in 1..(1 + Len(queue[s])) /\ ~(i + 1 <= 1) /\ (i + 1) - 1 = i
      BY <2>2, <2>3, <2>5
    <3> QED
      BY <2>2, <2>5, <3>1
  <2>7. Len(Tail(w)) = Len(queue[s])
    BY <2>2, <2>3, <2>5
  <2> QED
    BY <1>2, <2>2, <2>4, <2>5, <2>6, <2>7, SeqEqual
<1>8. PICK b \in BOOLEAN : b = (dropped[s] = {})
  OBVIOUS
<1>9. Ordered(w, b)
  BY <1>1, <1>2, <1>8 DEF StreamInv, Open
<1> HIDE DEF e, w
<1>10. /\ Ordered(queue[s], b)
       /\ p \in 2..LogLength /\ e = Stream!EventAt(p)
       /\ queue[s] # <<>> => /\ Position(queue[s][1]) \in 2..LogLength
                             /\ p < Position(queue[s][1])
                             /\ (b => Position(queue[s][1]) = p + 1)
       /\ queue[s] = <<>> /\ b => p = LogLength
  BY <1>1, <1>7, <1>9, OrderedRest
<1>11. LogLength \in Nat /\ LogLength' = LogLength /\ LogLength = Stream!Length
  BY <1>1, <1>3, LinesAreSeqs DEF LogLength, Stream!Length
<1>12. Waiting(s)' = queue[s]
  <2>1. hand'[s] = <<>> /\ queue'[s] = queue[s]
    BY <1>1, <1>3 DEF Typed
  <2> QED
    BY <1>2, <2>1, ConcatEmptySeq DEF Waiting
<1>13. Ordered(Waiting(s), dropped[s] = {})'
  BY <1>3, <1>8, <1>10, <1>12 DEF Ordered, Position, LogLength, Stream!EventAt
<1>14. Standing(s) = p
  BY <1>2, <1>7 DEF Standing, w
<1> HIDE DEF p
<1>15. [t \in Sockets |-> Standing(t)][s] = p
  BY <1>14
<1>16. Stream!Tell(s)
  <2>1. p \in 1..Stream!Length
    BY <1>10, <1>11
  <2> QED
    BY <1>3, <1>6, <1>10, <1>15, <2>1 DEF Stream!Tell
<1>17. CASE e.type \in Verdicts
  <2>1. pc' = [pc EXCEPT ![s] = "closed"] /\ subs' = subs \ {s} /\ pc'[s] = "closed"
    BY <1>1, <1>3, <1>17 DEF e, Typed
  <2>2. StreamInv(s)'
    BY <2>1 DEF StreamInv, Open
  <2>3. Standing(s)' = 0
    BY <2>1 DEF Standing
  <2>4. Phase[pc[s]] = "live" /\ Phase[pc'[s]] = "closed"
    BY <1>2, <2>1, Phases
  <2>5. Stream!Moves(s, "live", "closed", 0)
    BY <1>4, <2>3, <2>4, StreamMoves DEF PromiseInv
  <2>6. Stream!EventAt([t \in Sockets |-> Standing(t)][s]).type \in Verdicts
    BY <1>10, <1>15, <1>17
  <2>7. Stream!Verdicts = Verdicts
    BY DEF Stream!Verdicts, Verdicts
  <2> QED
    BY <1>10, <1>15, <1>16, <1>17, <2>2, <2>5, <2>6, <2>7 DEF Stream!TellVerdict
<1>18. CASE e.type \notin Verdicts
  <2>1. pc' = pc /\ subs' = subs
    BY <1>3, <1>18 DEF e
  <2>2. StreamInv(s)'
    BY <1>2, <1>13, <2>1 DEF StreamInv
  <2>3. PICK m \in Nat : /\ m = Standing(s)' /\ m \in (p + 1)..(LogLength + 1)
                         /\ m = p + 1 \/ dropped[s] # {}
    <3>1. CASE queue[s] = <<>>
      <4>1. Standing(s)' = LogLength + 1
        BY <1>2, <1>11, <1>12, <2>1, <3>1 DEF Standing
      <4>2. LogLength + 1 \in (p + 1)..(LogLength + 1) /\ (b => LogLength + 1 = p + 1)
        BY <1>10, <1>11, <3>1
      <4>3. LogLength + 1 \in Nat
        <5>1. \A l \in Nat : l + 1 \in Nat
          OBVIOUS
        <5> QED
          BY <1>11, <5>1
      <4>4. LogLength + 1 = p + 1 \/ dropped[s] # {}
        BY <1>8, <4>2
      <4> QED
        BY <4>1, <4>2, <4>3, <4>4
    <3>2. CASE queue[s] # <<>>
      <4>1. Head(queue[s]) = queue[s][1]
        BY <1>2, <3>2, HeadAndTail
      <4>2. Waiting(s)' # <<>> /\ Head(Waiting(s)') = queue[s][1] /\ pc'[s] = "relaying"
        BY <1>2, <1>12, <2>1, <3>2, <4>1
      <4>3. Standing(s)' = Position(queue[s][1])
        BY <1>3, <4>2 DEF Standing, Position
      <4>4. Position(queue[s][1]) \in (p + 1)..(LogLength + 1)
            /\ (b => Position(queue[s][1]) = p + 1) /\ Position(queue[s][1]) \in Nat
        BY <1>10, <1>11, <3>2
      <4> QED
        BY <1>8, <4>3, <4>4
    <3> QED
      BY <3>1, <3>2
  <2>4. Phase[pc[s]] = "live" /\ Phase[pc'[s]] = "live"
    BY <1>2, <2>1, Phases
  <2>5. Stream!Moves(s, "live", "live", m)
    BY <1>4, <2>3, <2>4, StreamMoves DEF PromiseInv
  <2>6. m = p + 1 \/ s \in {t \in Sockets : dropped[t] # {}}
    BY <2>3
  <2>7. m \in (p + 1)..(Stream!Length + 1)
    BY <1>11, <2>3
  <2>8. Stream!EventAt(p).type \notin Stream!Verdicts
    BY <1>10, <1>18 DEF Stream!Verdicts, Verdicts
  <2>9. Stream!Relay(s)
    BY <1>15, <1>16, <2>5, <2>6, <2>7, <2>8 DEF Stream!Relay
  <2> QED
    BY <2>2, <2>9
<1> QED
  BY <1>17, <1>18

LEMMA LeaveLeaves ==
  ASSUME PromiseInv, NEW s \in Sockets, Leave(s)
  PROVE  StreamInv(s)' /\ Stream!Leave(s)
<1>1. /\ Typed /\ pc[s] \in {"accepting", "replaying", "relaying"} /\ pc' = [pc EXCEPT ![s] = "gone"]
      /\ UNCHANGED <<job, status, hosts, queue, out, got, dropped, joined>>
  BY DEF PromiseInv, TelemetryInv, Leave, job
<1>2. UNCHANGED job /\ \A t \in Sockets \ {s} : Same(t)
  BY <1>1, OneAtATime
<1>3. pc'[s] = "gone"
  BY <1>1 DEF Typed
<1>4. StreamInv(s)' /\ Standing(s)' = 0
  BY <1>3 DEF StreamInv, Standing, Open
<1>5. PICK from \in {"replay", "live"} : from = Phase[pc[s]]
  BY <1>1, Phases
<1>6. "gone" = Phase[pc'[s]]
  BY <1>3, Phases
<1>7. Stream!Moves(s, from, "gone", 0)
  BY <1>2, <1>4, <1>5, <1>6, StreamMoves DEF PromiseInv
<1> QED
  BY <1>1, <1>4, <1>7 DEF Stream!Leave

LEMMA JobHappens ==
  ASSUME PromiseInv, TelemetryInv', HostResult \/ Finish
  PROVE  (\A s \in Sockets : StreamInv(s)') /\ Stream!Happens
<1>1. TelemetryInv /\ Typed /\ hosts \in Nat
  BY HostsAssumption DEF PromiseInv, TelemetryInv, Typed
<1>2. PICK e \in Notices : LogGrows(e)
  BY <1>1, JobWrites
<1>3. \A s \in Sockets : StreamInv(s)' /\ Standing(s)' = Standing(s)
  BY <1>2, JobKeepsStream
<1>4. /\ [s \in Sockets |-> Standing(s)]' = [s \in Sockets |-> Standing(s)]
      /\ pc' = pc /\ joined' = joined /\ got' = got
  BY <1>2, <1>3 DEF LogGrows
<1>5. /\ status = "running"
      /\ \/ hosts < NumHosts /\ hosts' = hosts + 1 /\ status' = status
         \/ /\ status' \in Verdicts /\ hosts' = hosts
            /\ status' = "complete" => hosts = NumHosts
  BY DEF HostResult, Finish
<1>6. ASSUME NEW s \in Sockets
      PROVE  /\ dropped[s] # {} => dropped'[s] # {}
             /\ dropped[s] = {} /\ dropped'[s] # {} => Phase[pc[s]] \notin {"away", "closed"}
  <2>1. dropped[s] \subseteq dropped'[s] /\ (s \notin subs => dropped'[s] = dropped[s])
    BY <1>1, <1>2, BroadcastReaches DEF LogGrows
  <2>2. /\ pc[s] \in Stages
        /\ pc[s] = "idle" => s \notin subs
        /\ pc[s] = "closed" => s \notin subs
    BY <1>1, LinesAreSeqs DEF PromiseInv, StreamInv
  <2>3. s \in subs => Phase[pc[s]] \notin {"away", "closed"}
    BY <2>2, Phases DEF Stages
  <2> QED
    BY <2>1, <2>3
<1> DEFINE L == {s \in Sockets : dropped[s] # {}}
           P == [s \in Sockets |-> Phase[pc[s]]]
<1>7. L \subseteq L' /\ L' \ L \subseteq {c \in Sockets : P[c] \notin {"away", "closed"}}
  BY <1>6
<1>8. Stream!Verdicts = Verdicts
  BY DEF Stream!Verdicts, Verdicts
<1> QED
  BY <1>3, <1>4, <1>5, <1>7, <1>8 DEF Stream!Happens

LEMMA PromiseStep ==
  PromiseInv /\ [Next]_vars => PromiseInv' /\ [Stream!Next]_Stream!vars
<1> SUFFICES ASSUME PromiseInv, [Next]_vars
             PROVE  PromiseInv' /\ [Stream!Next]_Stream!vars
  OBVIOUS
<1>1. TelemetryInv' /\ Typed
  BY StepKeeps DEF PromiseInv, TelemetryInv
<1>2. CASE HostResult \/ Finish
  BY <1>1, <1>2, JobHappens DEF PromiseInv, Stream!Next
<1>3. ASSUME UNCHANGED <<job, pc, subs, queue, out, hand, got, dropped, joined>>
      PROVE  PromiseInv' /\ UNCHANGED Stream!vars
  <2>1. UNCHANGED job /\ \A s \in Sockets : Same(s)
    BY <1>3 DEF Same
  <2>2. \A s \in Sockets : StreamInv(s)' /\ Standing(s)' = Standing(s)
    BY <2>1, OthersStand DEF PromiseInv
  <2> QED
    BY <1>1, <1>3, <2>2 DEF PromiseInv, Stream!vars, job
<1>4. CASE UNCHANGED vars \/ Tick \/ \E a \in Addresses : Limited(a) \/ Denied(a)
  BY <1>3, <1>4 DEF vars, job, Tick, Limited, Denied
<1>5. ASSUME NEW s \in Sockets, Connect(s) \/ Handler(s) \/ Leave(s)
      PROVE  PromiseInv' /\ [Stream!Next]_Stream!vars
  <2>1. UNCHANGED <<job, status, hosts, dropped>> /\ \A t \in Sockets \ {s} : Same(t)
    BY <1>1, <1>5, OneAtATime
  <2>2. \A t \in Sockets \ {s} : StreamInv(t)' /\ Standing(t)' = Standing(t)
    BY <2>1, OthersStand DEF PromiseInv
  <2>3. StreamInv(s)' => PromiseInv'
    BY <1>1, <2>2 DEF PromiseInv
  <2>4. CASE Connect(s)
    BY <2>3, <2>4, ConnectJoins DEF Stream!Next
  <2>5. CASE SendReplay(s)
    BY <2>3, <2>5, ReplayIsTold DEF Stream!Next
  <2>6. CASE ReplayDone(s)
    BY <2>3, <2>6, ReplayDoneEnds DEF Stream!Next
  <2>7. CASE Send(s)
    BY <2>3, <2>7, SendTells DEF Stream!Next
  <2>8. CASE Leave(s)
    BY <2>3, <2>8, LeaveLeaves DEF Stream!Next
  <2>9. CASE Accept(s) \/ Fetch(s)
    <3>1. StreamInv(s)' /\ Standing(s)' = Standing(s) /\ Phase[pc'[s]] = Phase[pc[s]]
      BY <2>9, AcceptStands, FetchStands
    <3>2. [t \in Sockets |-> Standing(t)]' = [t \in Sockets |-> Standing(t)]
      BY <2>2, <3>1
    <3>3. [t \in Sockets |-> Phase[pc[t]]]' = [t \in Sockets |-> Phase[pc[t]]]
      BY <2>1, <3>1 DEF Same
    <3>4. joined' = joined /\ got' = got
      BY <2>9 DEF Accept, Fetch
    <3> QED
      BY <2>1, <2>3, <3>1, <3>2, <3>3, <3>4 DEF Stream!vars
  <2> QED
    BY <1>5, <2>4, <2>5, <2>6, <2>7, <2>8, <2>9 DEF Handler
<1> QED
  BY <1>2, <1>4, <1>5 DEF Next

LEMMA PromiseStarts == Init => PromiseInv /\ Stream!Init
<1> SUFFICES ASSUME Init PROVE PromiseInv /\ Stream!Init
  OBVIOUS
<1>1. PromiseInv
  BY InitHolds DEF Init, PromiseInv, StreamInv, Open
<1>2. \A s \in Sockets : Standing(s) = 0 /\ Phase[pc[s]] = "away"
  BY Phases DEF Init, Standing
<1> QED
  BY <1>1, <1>2 DEF Init, Stream!Init

(* Refinement: overflow or not, every client is told the log of the scan   *)
(* in order, from its start and then live from where it joined, skipping   *)
(* only what was lost to it (api/services.py replay and _broadcast,        *)
(* api/routes/telemetry.py telemetry_socket).                              *)
THEOREM StreamIsPromised == Spec => ImplementsStream
  BY PromiseStarts, PromiseStep, PTL DEF Spec, ImplementsStream, Stream!Spec

=============================================================================
