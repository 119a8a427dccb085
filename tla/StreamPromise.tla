--------------------------- MODULE StreamPromise ---------------------------
(***************************************************************************)
(* What the telemetry of a scan promises to those who listen, whether or   *)
(* not their queues overflow.  The scan writes a log: its start, its hosts *)
(* as they complete, its verdict.  A client is told the log from the start *)
(* and past the point where it joined, then live from that point on: in    *)
(* order, nothing twice in the live part, nothing skipped unless an event  *)
(* was lost to this client, and nothing after the verdict.                 *)
(***************************************************************************)
EXTENDS Naturals, Sequences

CONSTANTS Clients, NumHosts

VARIABLES
  status,  \* "running", or the verdict
  hosts,   \* how many hosts the log holds
  phase,   \* client -> "away", "replay", "live", "closed" or "gone"
  joined,  \* client -> hosts when it joined
  at,      \* client -> where in the log its next event is, 0 without one
  sent,    \* client -> what it was told
  lossy    \* clients to whom an event was lost

vars == <<status, hosts, phase, joined, at, sent, lossy>>

Verdicts == {"complete", "failed", "cancelled"}

Length == IF status = "running" THEN hosts + 1 ELSE hosts + 2
EventAt(i) ==
  CASE i = 1             -> [type |-> "status", host |-> 0]
    [] i \in 2..hosts + 1 -> [type |-> "host_result", host |-> i - 1]
    [] OTHER             -> [type |-> status, host |-> 0]

Init ==
  /\ status = "running"
  /\ hosts = 0
  /\ phase = [c \in Clients |-> "away"]
  /\ joined = [c \in Clients |-> 0]
  /\ at = [c \in Clients |-> 0]
  /\ sent = [c \in Clients |-> <<>>]
  /\ lossy = {}

(* The log grows; the new event may be lost to some of those who joined.   *)
Happens ==
  /\ status = "running"
  /\ \/ hosts < NumHosts /\ hosts' = hosts + 1 /\ status' = status
     \/ /\ status' \in Verdicts /\ hosts' = hosts
        /\ status' = "complete" => hosts = NumHosts
  /\ lossy \subseteq lossy'
  /\ lossy' \ lossy \subseteq {c \in Clients : phase[c] \notin {"away", "closed"}}
  /\ UNCHANGED <<phase, joined, at, sent>>

Moves(c, from, to, next) ==
  /\ phase[c] = from
  /\ phase' = [phase EXCEPT ![c] = to]
  /\ at' = [at EXCEPT ![c] = next]

Join(c) ==
  /\ Moves(c, "away", "replay", 1)
  /\ joined' = [joined EXCEPT ![c] = hosts]
  /\ UNCHANGED <<status, hosts, sent, lossy>>

Tell(c) ==
  /\ at[c] \in 1..Length
  /\ sent' = [sent EXCEPT ![c] = Append(@, EventAt(at[c]))]
  /\ UNCHANGED <<status, hosts, joined, lossy>>

Replay(c) == Tell(c) /\ Moves(c, "replay", "replay", at[c] + 1)

Relay(c) ==
  /\ Tell(c)
  /\ EventAt(at[c]).type \notin Verdicts
  /\ \E next \in at[c] + 1 .. Length + 1 :
       /\ next = at[c] + 1 \/ c \in lossy
       /\ Moves(c, "live", "live", next)

TellVerdict(c) ==
  /\ Tell(c)
  /\ EventAt(at[c]).type \in Verdicts
  /\ Moves(c, "live", "closed", 0)

(* The replay ends only past the point where the client joined.            *)
ReplayEnds(c) ==
  /\ at[c] >= joined[c] + 2
  /\ IF status = "running" THEN Moves(c, "replay", "live", joined[c] + 2)
                           ELSE Moves(c, "replay", "closed", 0)
  /\ UNCHANGED <<status, hosts, joined, sent, lossy>>

Leave(c) ==
  /\ \E from \in {"replay", "live"} : Moves(c, from, "gone", 0)
  /\ UNCHANGED <<status, hosts, joined, sent, lossy>>

Next ==
  \/ Happens
  \/ \E c \in Clients :
       Join(c) \/ Replay(c) \/ Relay(c) \/ TellVerdict(c) \/ ReplayEnds(c) \/ Leave(c)

Spec == Init /\ [][Next]_vars

=============================================================================
