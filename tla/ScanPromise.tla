---------------------------- MODULE ScanPromise ----------------------------
(***************************************************************************)
(* What the dashboard promises of a scan, whatever tabs are opened and     *)
(* closed meanwhile: a launch settles once, with a report or an error; a   *)
(* report is put on top of the vault in that same step; and reports leave  *)
(* the vault only all together, when the user clears it.                   *)
(***************************************************************************)
EXTENDS Naturals, Sequences

CONSTANT MaxLaunches

VARIABLES
  phase,  \* launch -> "idle", "pending", "report" or "error"
  vault   \* the reports kept, newest first

Launches == 1..MaxLaunches
vars == <<phase, vault>>

Init ==
  /\ phase = [l \in Launches |-> "idle"]
  /\ vault = <<>>

Start(l) ==
  /\ phase[l] = "idle"
  /\ phase' = [phase EXCEPT ![l] = "pending"]
  /\ UNCHANGED vault

Report(l) ==
  /\ phase[l] = "pending"
  /\ phase' = [phase EXCEPT ![l] = "report"]
  /\ vault' = <<l>> \o vault

Error(l) ==
  /\ phase[l] = "pending"
  /\ phase' = [phase EXCEPT ![l] = "error"]
  /\ UNCHANGED vault

Clear ==
  /\ vault' = <<>>
  /\ UNCHANGED phase

Next ==
  \/ \E l \in Launches : Start(l) \/ Report(l) \/ Error(l)
  \/ Clear

Spec == Init /\ [][Next]_vars

=============================================================================
