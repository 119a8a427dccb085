---------------------------- MODULE ScanHistory ----------------------------
(***************************************************************************)
(* What the scan service promises of its history, whatever the store and   *)
(* the tasks behind it: a job is accepted only below the limit of active   *)
(* jobs, goes once from pending to running to one verdict, and is          *)
(* forgotten only after its verdict, oldest first, when HistorySize        *)
(* finished jobs are younger - or with the whole process.                  *)
(***************************************************************************)
EXTENDS Naturals, FiniteSets

CONSTANTS MaxJobs, MaxConcurrent, HistorySize

VARIABLE life  \* job -> "unborn", "forgotten", or the status on record

Jobs == 1..MaxJobs
Active == {"pending", "running"}
Terminal == {"completed", "failed", "cancelled"}

Having(states) == {j \in Jobs : life[j] \in states}

Forgettable ==
  {j \in Having(Terminal) :
     Cardinality({k \in Having(Terminal) : k > j}) >= HistorySize}

Trimmed == [j \in Jobs |-> IF j \in Forgettable THEN "forgotten" ELSE life[j]]

Accept(j) ==
  /\ life[j] = "unborn"
  /\ \A k \in Jobs : k < j => life[k] # "unborn"
  /\ Cardinality(Having(Active)) < MaxConcurrent
  /\ life' = [Trimmed EXCEPT ![j] = "pending"]

Refuse ==
  /\ Cardinality(Having(Active)) >= MaxConcurrent
  /\ life' = Trimmed

Begin(j) ==
  /\ life[j] = "pending"
  /\ life' = [life EXCEPT ![j] = "running"]

Conclude(j) ==
  /\ life[j] = "running"
  /\ \E verdict \in Terminal : life' = [life EXCEPT ![j] = verdict]

Lose == life' = [j \in Jobs |-> IF life[j] = "unborn" THEN "unborn" ELSE "forgotten"]

Init == life = [j \in Jobs |-> "unborn"]

Next ==
  \/ \E j \in Jobs : Accept(j) \/ Begin(j) \/ Conclude(j)
  \/ Refuse
  \/ Lose

Spec == Init /\ [][Next]_life
=============================================================================
