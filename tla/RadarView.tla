----------------------------- MODULE RadarView -----------------------------
(***************************************************************************)
(* The radar (ThreatRadar.tsx): hosts of the scan reports or, while there  *)
(* are none, the peers of live connections, drawn by an animation loop     *)
(* that is restarted whenever what it draws changes.                       *)
(***************************************************************************)
EXTENDS Naturals, FiniteSetsExt

CONSTANTS
  Peers,     \* targets live connections can have
  Scanned,   \* targets of the report that may arrive, maybe none
  SweepCap   \* connections of an answer that are looked at, 12 in the code

VARIABLES
  hosts,     \* targets of all reports; App holds them
  live,      \* targets of the last sweep that found any
  sweeping,  \* a sweep is under way, its button disabled
  selectedHost,  \* the target selected, or NoHost
  loops      \* animation loops that go on requesting frames

mountedVars == <<live, sweeping, selectedHost, loops>>
radarVars == <<hosts, mountedVars>>

NoHost == "none"

displayHosts == IF hosts # {} THEN hosts ELSE live

(* Broken: the cleanup knows the loop's first frame only, fired long ago.  *)
LeakyRestarted(n) == n + 1

(* The cleanup cancels the frame the loop requested last, which ends it,   *)
(* and the effect starts the next loop.                                    *)
Restarted(n) == (IF n > 0 THEN n - 1 ELSE 0) + 1

loadLiveConnections ==
  /\ ~ sweeping
  /\ sweeping' = TRUE
  /\ loops' = Restarted(loops)
  /\ UNCHANGED <<hosts, live, selectedHost>>

(* The targets of an answer's first connections; none without an answer.   *)
getConnections == UNION {kSubset(n, Peers) : n \in 0 .. Min({SweepCap, Cardinality(Peers)})}

SweepAnswered ==
  /\ sweeping
  /\ sweeping' = FALSE
  /\ \E found \in getConnections : live' = IF found # {} THEN found ELSE live
  /\ loops' = Restarted(loops)
  /\ UNCHANGED <<hosts, selectedHost>>

(* A selection stays when what is displayed changes.                       *)
SelectHost ==
  /\ selectedHost' \in displayHosts
  /\ UNCHANGED <<hosts, live, sweeping, loops>>

(* A scan whose view was left behind completes while the radar is open.    *)
(* The sweep is for radars without hosts: none is started.                 *)
ReportArrives ==
  /\ hosts' = hosts \union Scanned
  /\ loops' = Restarted(loops)
  /\ UNCHANGED <<live, sweeping, selectedHost>>

RadarInit ==
  /\ hosts \in {{}, Scanned}
  /\ live = {} /\ sweeping = FALSE /\ selectedHost = NoHost /\ loops = 0

RadarMount ==
  /\ sweeping' = (hosts = {})
  /\ loops' = Restarted(loops)
  /\ UNCHANGED <<hosts, live, selectedHost>>

(* The answer of a sweep left behind finds no view.                        *)
RadarUnmount ==
  /\ live' = {} /\ sweeping' = FALSE /\ selectedHost' = NoHost
  /\ loops' = loops - 1
  /\ UNCHANGED hosts

RadarNext == loadLiveConnections \/ SweepAnswered \/ SelectHost \/ ReportArrives

---------------------------------------------------------------------------
(* Properties. *)

(* One loop draws while the radar is on screen and none afterwards, however *)
(* often sweeps and reports restart it (ThreatRadar.tsx, the canvas effect).*)
OneBeam(open) == loops = IF open THEN 1 ELSE 0

=============================================================================
