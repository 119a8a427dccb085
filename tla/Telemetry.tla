----------------------------- MODULE Telemetry -----------------------------
(***************************************************************************)
(* The telemetry of one scan: the task of the job broadcasts its events    *)
(* (api/services.py) into one bounded queue per WebSocket, and the handler *)
(* of each WebSocket (api/routes/telemetry.py) replays what happened, then *)
(* relays its queue.  Before that the handler admits the connection: a     *)
(* sliding window per address, the API key, the scan.                      *)
(*                                                                         *)
(* The job is kept by the memory store and known to its clients, that is,  *)
(* already running.  Handshake, each send and each read of a queue is a    *)
(* suspension point: other handlers and the job run in between.            *)
(***************************************************************************)
EXTENDS SequencesExt, Filter

CONSTANTS
  Sockets,   \* WebSockets that may open on the scan
  NumHosts,  \* hosts of the scan
  QueueCap,  \* _QUEUE_MAX_SIZE
  AddressOf, \* socket -> the address it comes from
  Window,    \* _WS_RATE_LIMIT_WINDOW
  WindowMax, \* _WS_RATE_LIMIT_MAX
  MaxClock   \* bound on the clock

ASSUME HostsAssumption == NumHosts \in Nat
ASSUME QueueAssumption == QueueCap \in Nat \ {0}
ASSUME WindowAssumption == Window \in Nat /\ WindowMax \in Nat /\ MaxClock \in Nat

VARIABLES
  status,    \* job.status: "running", or the type of its last event
  hosts,     \* how many hosts job.hosts holds, in order of completion
  pc,        \* socket -> where its handler stands
  subs,      \* sockets whose queue is in job._subscribers
  queue,     \* socket -> its queue
  out,       \* socket -> events of the replay still to be sent
  hand,      \* socket -> the event its getter task took, at most one
  got,       \* socket -> events sent to the client (history)
  dropped,   \* socket -> events its full queue refused (history)
  joined,    \* socket -> hosts when it subscribed (history)
  clock,     \* time.time()
  recent,    \* address -> its entry of _WS_RATE_LIMITER
  passed     \* address -> the times it let one pass (history)

job == <<status, hosts>>
gate == <<clock, recent, passed>>
vars == <<status, hosts, pc, subs, queue, out, hand, got, dropped, joined, gate>>

Addresses == {AddressOf[s] : s \in Sockets}

Verdicts == {"complete", "failed", "cancelled"}

Event(type, host) == [type |-> type, host |-> host]
StatusEvent == Event("status", 0)
HostEvents(first, last) ==
  [i \in 1..(last + 1 - first) |-> Event("host_result", first + i - 1)]
VerdictEvents == IF status = "running" THEN <<>> ELSE <<Event(status, 0)>>

(* Events a socket may be sent, its queue refusing some or not.            *)
Events ==
  {StatusEvent} \union {Event(v, 0) : v \in Verdicts}
    \union {Event("host_result", h) : h \in 1..NumHosts}

---------------------------------------------------------------------------
(* The task of the job. *)

(* Broken: a queue that takes one event too many.                          *)
OverfullBroadcast(event) ==
  LET full == {s \in subs : Len(queue[s]) > QueueCap} IN
  /\ queue' = [s \in Sockets |->
                 IF s \in subs \ full THEN Append(queue[s], event) ELSE queue[s]]
  /\ dropped' = [s \in Sockets |->
                   IF s \in full THEN dropped[s] \union {event} ELSE dropped[s]]

(* put_nowait on every subscriber; a full queue drops the event.           *)
Broadcast(event) ==
  LET full == {s \in subs : Len(queue[s]) >= QueueCap} IN
  /\ queue' = [s \in Sockets |->
                 IF s \in subs \ full THEN Append(queue[s], event) ELSE queue[s]]
  /\ dropped' = [s \in Sockets |->
                   IF s \in full THEN dropped[s] \union {event} ELSE dropped[s]]

HostResult ==
  /\ status = "running"
  /\ hosts < NumHosts
  /\ hosts' = hosts + 1
  /\ Broadcast(Event("host_result", hosts + 1))
  /\ UNCHANGED <<status, pc, subs, out, hand, got, joined, gate>>

Finish ==
  /\ status = "running"
  /\ \E verdict \in Verdicts :
       /\ verdict = "complete" => hosts = NumHosts
       /\ status' = verdict
       /\ Broadcast(Event(verdict, 0))
  /\ UNCHANGED <<hosts, pc, subs, out, hand, got, joined, gate>>

---------------------------------------------------------------------------
(* The handler of a WebSocket. *)

Moves(s, from, to) ==
  /\ pc[s] = from
  /\ pc' = [pc EXCEPT ![s] = to]

Tick ==
  /\ clock < MaxClock
  /\ clock' = clock + 1
  /\ UNCHANGED <<job, pc, subs, queue, out, hand, got, dropped, joined, recent, passed>>

(* Broken: the window is a moment too short.                               *)
ShortFresh(a) == Chosen(recent[a], {t \in Nat : clock - t < Window - 1})

Within(now) == {t \in Nat : now - t < Window}
Fresh(a) == Chosen(recent[a], Within(clock))

(* _check_ws_rate_limit: what is past the window is forgotten; a refused   *)
(* connection does not count.                                              *)
Passes(a) ==
  /\ Len(Fresh(a)) < WindowMax
  /\ recent' = [recent EXCEPT ![a] = Append(Fresh(a), clock)]
  /\ passed' = [passed EXCEPT ![a] = Append(@, clock)]
  /\ UNCHANGED clock

(* A client turned away may try again.                                     *)
Limited(a) ==
  /\ Len(Fresh(a)) >= WindowMax
  /\ recent' = [recent EXCEPT ![a] = Fresh(a)]
  /\ UNCHANGED <<job, pc, subs, queue, out, hand, got, dropped, joined, clock, passed>>

(* No key, a wrong one, or a scan nobody knows.                            *)
Denied(a) ==
  /\ Passes(a)
  /\ UNCHANGED <<job, pc, subs, queue, out, hand, got, dropped, joined>>

(* get and subscribe find the job; then the handshake is awaited.          *)
Connect(s) ==
  /\ Moves(s, "idle", "accepting")
  /\ Passes(AddressOf[s])
  /\ subs' = subs \union {s}
  /\ joined' = [joined EXCEPT ![s] = hosts]
  /\ UNCHANGED <<job, queue, out, hand, got, dropped>>

(* replay: the list is made once, before its first event is sent.          *)
Accept(s) ==
  /\ Moves(s, "accepting", "replaying")
  /\ out' = [out EXCEPT ![s] =
               <<StatusEvent>> \o HostEvents(1, hosts) \o VerdictEvents]
  /\ UNCHANGED <<job, subs, queue, hand, got, dropped, joined, gate>>

SendReplay(s) ==
  /\ pc[s] = "replaying"
  /\ out[s] # <<>>
  /\ got' = [got EXCEPT ![s] = Append(@, Head(out[s]))]
  /\ out' = [out EXCEPT ![s] = Tail(@)]
  /\ UNCHANGED <<job, pc, subs, queue, hand, dropped, joined, gate>>

(* Broken: the client is subscribed only once its replay was sent.         *)
LateSubscription(s) ==
  /\ out[s] = <<>>
  /\ IF status = "running"
     THEN Moves(s, "replaying", "relaying") /\ UNCHANGED subs
     ELSE Moves(s, "replaying", "closed") /\ subs' = subs \ {s}
  /\ queue' = [queue EXCEPT ![s] = <<>>]
  /\ UNCHANGED <<job, out, hand, got, dropped, joined, gate>>

(* Broken: the job is not asked again after the replay.                    *)
AlwaysRelay(s) ==
  /\ out[s] = <<>>
  /\ Moves(s, "replaying", "relaying")
  /\ UNCHANGED <<job, subs, queue, out, hand, got, dropped, joined, gate>>

(* Unsubscribe and close when the job is over by now, else start relaying. *)
ReplayDone(s) ==
  /\ out[s] = <<>>
  /\ IF status = "running"
     THEN Moves(s, "replaying", "relaying") /\ UNCHANGED subs
     ELSE Moves(s, "replaying", "closed") /\ subs' = subs \ {s}
  /\ UNCHANGED <<job, queue, out, hand, got, dropped, joined, gate>>

(* Broken: a cancelled scan does not end the stream.                       *)
SendPastCancelled(s) ==
  /\ hand[s] # <<>>
  /\ got' = [got EXCEPT ![s] = @ \o hand[s]]
  /\ hand' = [hand EXCEPT ![s] = <<>>]
  /\ IF hand[s][1].type \in {"complete", "failed"}
     THEN Moves(s, "relaying", "closed") /\ subs' = subs \ {s}
     ELSE pc[s] = "relaying" /\ UNCHANGED <<pc, subs>>
  /\ UNCHANGED <<job, queue, out, dropped, joined, gate>>

(* The getter task, one at a time, takes an event; then it is sent, and a  *)
(* verdict ends the handler, whose finally clause unsubscribes.            *)
Fetch(s) ==
  /\ pc[s] = "relaying"
  /\ hand[s] = <<>>
  /\ queue[s] # <<>>
  /\ hand' = [hand EXCEPT ![s] = <<Head(queue[s])>>]
  /\ queue' = [queue EXCEPT ![s] = Tail(@)]
  /\ UNCHANGED <<job, pc, subs, out, got, dropped, joined, gate>>

Send(s) ==
  /\ hand[s] # <<>>
  /\ got' = [got EXCEPT ![s] = @ \o hand[s]]
  /\ hand' = [hand EXCEPT ![s] = <<>>]
  /\ IF hand[s][1].type \in Verdicts
     THEN Moves(s, "relaying", "closed") /\ subs' = subs \ {s}
     ELSE pc[s] = "relaying" /\ UNCHANGED <<pc, subs>>
  /\ UNCHANGED <<job, queue, out, dropped, joined, gate>>

(* The client leaves, or sends any text: while relaying the receiver task  *)
(* ends and the handler unsubscribes.  Before that only a failing send     *)
(* tells, outside the try block, and the subscription stays.               *)
Leave(s) ==
  /\ pc[s] \in {"accepting", "replaying", "relaying"}
  /\ pc' = [pc EXCEPT ![s] = "gone"]
  /\ subs' = IF pc[s] = "relaying" THEN subs \ {s} ELSE subs
  /\ hand' = [hand EXCEPT ![s] = <<>>]
  /\ UNCHANGED <<job, queue, out, got, dropped, joined, gate>>

Handler(s) == Accept(s) \/ SendReplay(s) \/ ReplayDone(s) \/ Fetch(s) \/ Send(s)

---------------------------------------------------------------------------
Init ==
  /\ status = "running"
  /\ hosts = 0
  /\ pc = [s \in Sockets |-> "idle"]
  /\ subs = {}
  /\ queue = [s \in Sockets |-> <<>>]
  /\ out = [s \in Sockets |-> <<>>]
  /\ hand = [s \in Sockets |-> <<>>]
  /\ got = [s \in Sockets |-> <<>>]
  /\ dropped = [s \in Sockets |-> {}]
  /\ joined = [s \in Sockets |-> 0]
  /\ clock = 0
  /\ recent = [a \in Addresses |-> <<>>]
  /\ passed = [a \in Addresses |-> <<>>]

Next ==
  \/ HostResult
  \/ Finish
  \/ Tick
  \/ \E a \in Addresses : Limited(a) \/ Denied(a)
  \/ \E s \in Sockets : Connect(s) \/ Handler(s) \/ Leave(s)

Spec == Init /\ [][Next]_vars

(* The event loop runs ready handlers, a send ends or fails by the server's *)
(* ping timeout, and a scan ends by its deadlines.                          *)
Fairness ==
  /\ \A s \in Sockets : WF_vars(Handler(s))
  /\ WF_vars(Finish)

FairSpec == Spec /\ Fairness

---------------------------------------------------------------------------
(* Properties. *)

TypeOK ==
  /\ status \in Verdicts \union {"running"}
  /\ hosts \in 0..NumHosts
  /\ pc \in [Sockets -> {"idle", "accepting", "replaying", "relaying", "closed", "gone"}]
  /\ subs \subseteq Sockets
  /\ clock \in 0..MaxClock
  /\ \A a \in Addresses : Len(recent[a]) <= WindowMax
  /\ \A s \in Sockets :
       /\ Len(queue[s]) <= QueueCap
       /\ Len(hand[s]) <= 1
       /\ ToSet(queue[s] \o out[s] \o hand[s] \o got[s]) \union dropped[s] \subseteq Events

(* A relaying client that lost no event was sent, or has on its way, every *)
(* host exactly as replayed and then every host since it subscribed: none  *)
(* falls between the replay and the queue, and the ones that completed     *)
(* during the handshake, and only those, come twice.                       *)
NoGapNoReorder ==
  \A s \in Sockets : pc[s] = "relaying" /\ dropped[s] = {} =>
    \E r \in joined[s]..hosts :
      got[s] \o hand[s] \o queue[s] =
        <<StatusEvent>> \o HostEvents(1, r) \o HostEvents(joined[s] + 1, hosts) \o VerdictEvents

(* No client is sent anything after a verdict, or two verdicts, although a *)
(* verdict broadcast during the handshake is in the replay and the queue.  *)
VerdictIsLast ==
  \A s \in Sockets : \A i \in DOMAIN got[s] :
    got[s][i].type \in Verdicts => i = Len(got[s]) /\ got[s][i].type = status

(* Every client that stays connected is told the verdict before the server *)
(* closes its stream.                                                      *)
ClosedMeansTold ==
  \A s \in Sockets : pc[s] = "closed" => got[s] # <<>> /\ Last(got[s]).type \in Verdicts

(* Once the scan is over every open stream ends.                           *)
StreamEnds ==
  \A s \in Sockets :
    status # "running" /\ pc[s] # "idle" ~> pc[s] \in {"closed", "gone"}

(* Once the scan is over every open stream ends, unless a full queue       *)
(* dropped the verdict itself.                                             *)
StreamEndsUnlessDropped ==
  \A s \in Sockets :
    status # "running" /\ pc[s] # "idle" ~>
      pc[s] \in {"closed", "gone"} \/ \E e \in dropped[s] : e.type \in Verdicts

(* The handlers keep what is promised of a stream, overflow or not: in the *)
(* log of the scan a client stands where its next event is, the one in its *)
(* hand or else the first of its queue.                                    *)
Waiting(s) == hand[s] \o queue[s]
Position(event) ==
  CASE event.type = "status"      -> 1
    [] event.type = "host_result" -> event.host + 1
    [] OTHER                      -> hosts + 2
LogLength == IF status = "running" THEN hosts + 1 ELSE hosts + 2
Standing(s) ==
  CASE pc[s] \in {"accepting", "replaying"} -> Len(got[s]) + 1
    [] pc[s] = "relaying" -> IF Waiting(s) = <<>> THEN LogLength + 1
                                                 ELSE Position(Head(Waiting(s)))
    [] OTHER -> 0

Phase == [idle |-> "away", accepting |-> "replay", replaying |-> "replay",
          relaying |-> "live", closed |-> "closed", gone |-> "gone"]

Stream == INSTANCE StreamPromise WITH
  Clients <- Sockets,
  phase <- [s \in Sockets |-> Phase[pc[s]]],
  at    <- [s \in Sockets |-> Standing(s)],
  sent  <- got,
  lossy <- {s \in Sockets : dropped[s] # {}}
ImplementsStream == Stream!Spec

(* However connections fall, denied ones among them, no stretch of time as *)
(* long as the window lets more of one address pass than the limit.        *)
WindowBounded ==
  \A a \in Addresses, t \in 0..MaxClock :
    Cardinality({i \in DOMAIN passed[a] : passed[a][i] <= t /\ t - passed[a][i] < Window})
      <= WindowMax

=============================================================================
