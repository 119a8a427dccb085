------------------------- MODULE ScanHistoryProofs -------------------------
(***************************************************************************)
(* Over the memory store the scan service implements ScanHistory: every    *)
(* step of tasks, registry and store maps to a step of the promised        *)
(* history or to none.                                                     *)
(***************************************************************************)
EXTENDS ScanServiceProofs

(* The history the service's state stands for, as ScanService maps it.     *)
Life == [j \in Jobs |-> IF j > submitted THEN "unborn"
                        ELSE IF row[j] = "none" THEN "forgotten" ELSE row[j]]

(* The record of a job at work tells where its task stands.                *)
RecordFollowsTask ==
  \A j \in Live : row[j] = IF task[j] = "new" THEN "pending" ELSE "running"

(* A rank not yet reached has neither a record nor a task.                 *)
NothingBeforeBirth ==
  \A j \in Jobs : j > submitted => row[j] = "none" /\ task[j] = "none"

RInv == IInv /\ RecordFollowsTask /\ NothingBeforeBirth

---------------------------------------------------------------------------
LEMMA RInit == Init => RInv
  BY InitInv DEF Init, RInv, RecordFollowsTask, NothingBeforeBirth, Live, Running

LEMMA SubmitFollows ==
  ASSUME RInv, NEW j \in Jobs, Submit(j)
  PROVE  RecordFollowsTask' /\ NothingBeforeBirth'
<1> USE DEF RInv, IInv
<1>1. /\ task' = [task EXCEPT ![j] = "new"]
      /\ row' = [KeptRow EXCEPT ![j] = "pending"]
      /\ submitted' = j /\ j = submitted + 1
  BY DEF Submit, Create
<1>2. submitted \in Nat /\ \A k \in Jobs : k \in Nat
  BY BoundAssumption DEF TypeOK, Jobs
<1>3. \A k \in Jobs \ {j} : row'[k] = KeptRow[k] /\ task'[k] = task[k]
  BY <1>1, EvictionSparesActive DEF TypeOK
<1>4. row'[j] = "pending" /\ task'[j] = "new"
  BY <1>1, EvictionSparesActive DEF TypeOK
<1>5. RecordFollowsTask'
  BY <1>3, <1>4, EvictionSparesActive
     DEF RecordFollowsTask, LiveIsOnRecord, Live, Running
<1>6. NothingBeforeBirth'
  BY <1>1, <1>2, <1>3, EvictionSparesActive DEF NothingBeforeBirth
<1> QED
  BY <1>5, <1>6

LEMMA UnsavedFollows ==
  ASSUME RInv, NEW j \in Jobs, SubmitUnsaved(j)
  PROVE  RecordFollowsTask' /\ NothingBeforeBirth'
<1> USE DEF RInv, IInv
<1>1. /\ row' = KeptRow
      /\ UNCHANGED task
      /\ submitted' = j /\ j = submitted + 1
  BY DEF SubmitUnsaved, Create
<1>2. submitted \in Nat /\ \A k \in Jobs : k \in Nat
  BY BoundAssumption DEF TypeOK, Jobs
<1>3. RecordFollowsTask'
  BY <1>1, EvictionSparesActive DEF RecordFollowsTask, LiveIsOnRecord, Live
<1>4. NothingBeforeBirth'
  BY <1>1, <1>2, EvictionSparesActive DEF NothingBeforeBirth
<1> QED
  BY <1>3, <1>4

LEMMA BusyFollows ==
  ASSUME RInv, SubmitBusy
  PROVE  RecordFollowsTask' /\ NothingBeforeBirth'
<1> USE DEF RInv, IInv
<1>1. row' = KeptRow /\ UNCHANGED <<task, submitted>>
  BY DEF SubmitBusy
<1> QED
  BY <1>1, EvictionSparesActive
     DEF RecordFollowsTask, NothingBeforeBirth, LiveIsOnRecord, Live

LEMMA TaskStepFollows ==
  ASSUME RInv, NEW j \in Jobs, TaskStep(j)
  PROVE  RecordFollowsTask' /\ NothingBeforeBirth'
<1> USE DEF RInv, IInv
<1>1. /\ j \in Live
      /\ UNCHANGED submitted
      /\ j <= submitted
  <2>1. j \in Live /\ task[j] # "none"
    BY TaskStepEffect DEF Live, Running
  <2>2. UNCHANGED submitted
    BY DEF TaskStep, TaskStart, PrepareDone, PrepareFails, Complete, CancelInPrep,
           Unwind, Drained, HostError, Escape, Settle, Goes
  <2>3. j \in Nat /\ submitted \in Nat
    BY BoundAssumption DEF TypeOK, Jobs
  <2> QED
    BY <2>1, <2>2, <2>3 DEF NothingBeforeBirth
<1>2. \A k \in Jobs \ {j} : row'[k] = row[k] /\ task'[k] = task[k]
  BY TaskStepEffect DEF TypeOK
<1>3. task'[j] \in Running => task'[j] # "new" /\ row'[j] = "running"
  <2> USE DEF Goes, Save, SaveFails, TypeOK, Running
  <2>1. CASE TaskStart(j)
    BY <2>1 DEF TaskStart
  <2>2. CASE PrepareDone(j) \/ Unwind(j) \/ HostError(j)
    BY <2>2, <1>1 DEF PrepareDone, Unwind, HostError, RecordFollowsTask
  <2>3. CASE PrepareFails(j) \/ Complete(j) \/ CancelInPrep(j) \/ Drained(j) \/ Escape(j)
    BY <2>3 DEF PrepareFails, Complete, CancelInPrep, Drained, Escape, Settle
  <2> QED
    BY <2>1, <2>2, <2>3 DEF TaskStep
<1>4. RecordFollowsTask'
  BY <1>2, <1>3 DEF RecordFollowsTask, Live
<1>5. NothingBeforeBirth'
  <2>1. ASSUME NEW k \in Jobs, k > submitted
        PROVE  k # j
    BY <2>1, <1>1, BoundAssumption DEF TypeOK, Jobs
  <2> QED
    BY <2>1, <1>1, <1>2 DEF NothingBeforeBirth
<1> QED
  BY <1>4, <1>5

LEMMA RStep == RInv /\ [Next]_vars => RInv'
<1> SUFFICES ASSUME RInv, [Next]_vars PROVE RecordFollowsTask' /\ NothingBeforeBirth'
  BY StepInv DEF RInv
<1>1. ASSUME NEW j \in Jobs, Submit(j)
      PROVE  RecordFollowsTask' /\ NothingBeforeBirth'
  BY <1>1, SubmitFollows
<1>2. ASSUME NEW j \in Jobs, SubmitUnsaved(j)
      PROVE  RecordFollowsTask' /\ NothingBeforeBirth'
  BY <1>2, UnsavedFollows
<1>3. ASSUME NEW j \in Jobs, TaskStep(j)
      PROVE  RecordFollowsTask' /\ NothingBeforeBirth'
  BY <1>3, TaskStepFollows
<1>4. CASE SubmitBusy
  BY <1>4, BusyFollows
<1>5. CASE Exit \/ Kill
  BY <1>5, BoundAssumption
     DEF Exit, Kill, ProcessEnds, RInv, RecordFollowsTask, NothingBeforeBirth, Live, Running
<1>6. CASE UNCHANGED <<submitted, row, task>>
  BY <1>6 DEF RInv, RecordFollowsTask, NothingBeforeBirth, Live
<1>7. ASSUME NEW j \in Jobs, Cancel(j)
      PROVE  UNCHANGED <<submitted, row, task>>
  BY <1>7 DEF Cancel, store
<1>8. List \/ ShutdownBegin \/ ShutdownEnd \/ Boot \/ UNCHANGED vars
        => UNCHANGED <<submitted, row, task>>
  BY DEF List, ShutdownBegin, ShutdownEnd, Boot, store, vars
<1> QED
  BY <1>1, <1>2, <1>3, <1>4, <1>5, <1>6, <1>7, <1>8 DEF Next

---------------------------------------------------------------------------
(* The mapping: active and finished jobs of the history are those on       *)
(* record, and an eviction of the memory store is the history's trimming.  *)

(* The abstract module counts with the same Cardinality.                   *)
LEMMA SameCardinality == \A S : History!Cardinality(S) = Cardinality(S)
  BY DEF History!Cardinality, Cardinality

LEMMA HavingIsRecord ==
  ASSUME RInv, NEW S \in SUBSET Status
  PROVE  {j \in Jobs : Life[j] \in S} = {j \in Jobs : row[j] \in S}
  BY DEF RInv, NothingBeforeBirth, Life, Status, Active, Terminal

TrimmedLife == [j \in Jobs |-> IF j \in Surplus THEN "forgotten" ELSE Life[j]]

LEMMA TrimIsEviction ==
  ASSUME RInv, ~ Persistent
  PROVE  /\ History!Trimmed = TrimmedLife
         /\ \A j \in Jobs : j <= submitted =>
              TrimmedLife[j] = IF KeptRow[j] = "none" THEN "forgotten" ELSE KeptRow[j]
         /\ \A j \in Jobs : j > submitted => TrimmedLife[j] = "unborn"
<1>1. History!Having(Terminal) = Finished
  <2>1. {j \in Jobs : Life[j] \in Terminal} = {j \in Jobs : row[j] \in Terminal}
    BY HavingIsRecord DEF Status
  <2> QED
    BY <2>1 DEF History!Having, Finished, Life, History!Jobs, Jobs
<1>2. History!Forgettable = Surplus
  BY <1>1, SameCardinality DEF History!Forgettable, Surplus, History!Terminal, Terminal
<1>3. History!Trimmed = TrimmedLife
  BY <1>2 DEF History!Trimmed, TrimmedLife, Life, History!Jobs, Jobs
<1>4. \A j \in Jobs : j \in Nat /\ submitted \in Nat
  BY BoundAssumption DEF RInv, IInv, TypeOK, Jobs
<1>5. \A j \in Jobs : j > submitted => j \notin Surplus
  BY DEF Surplus, Finished, Terminal, RInv, NothingBeforeBirth
<1> QED
  BY <1>3, <1>4, <1>5 DEF TrimmedLife, Life, KeptRow

LEMMA AcceptMaps ==
  ASSUME RInv, ~ Persistent, NEW j \in Jobs, Submit(j)
  PROVE  History!Accept(j)
<1> USE DEF RInv, IInv
<1>1. /\ ~ Busy
      /\ submitted' = j /\ j = submitted + 1
      /\ row' = [KeptRow EXCEPT ![j] = "pending"]
  BY DEF Submit, Create
<1>2. submitted \in Nat /\ \A k \in Jobs : k \in Nat
  BY BoundAssumption DEF TypeOK, Jobs
<1>3. Life[j] = "unborn" /\ \A k \in Jobs : k < j => Life[k] # "unborn"
  BY <1>1, <1>2 DEF Life, TypeOK, Status, Active, Terminal
<1>4. History!Having(Active) = ActiveRows
  <2>1. {k \in Jobs : Life[k] \in Active} = {k \in Jobs : row[k] \in Active}
    BY HavingIsRecord DEF Status
  <2> QED
    BY <2>1 DEF History!Having, ActiveRows, Life, History!Jobs, Jobs
<1>5. Cardinality(ActiveRows) < MaxConcurrent
  BY <1>1, ActiveRowsFinite, CountIsExact, LimitAssumption DEF Busy
<1>6. Life' = [TrimmedLife EXCEPT ![j] = "pending"]
  <2>1. \A k \in Jobs : Life'[k] = IF k = j THEN "pending" ELSE TrimmedLife[k]
    <3> SUFFICES ASSUME NEW k \in Jobs
                 PROVE  Life'[k] = IF k = j THEN "pending" ELSE TrimmedLife[k]
      OBVIOUS
    <3>1. Life'[k] = IF k > j THEN "unborn" ELSE IF row'[k] = "none" THEN "forgotten" ELSE row'[k]
      BY <1>1 DEF Life
    <3>2. CASE k = j
      BY <3>1, <3>2, <1>1, <1>2, EvictionSparesActive DEF TypeOK
    <3>3. CASE k # j
      <4>1. row'[k] = KeptRow[k]
        BY <3>3, <1>1, EvictionSparesActive
      <4>2. k > j <=> k > submitted
        BY <3>3, <1>1, <1>2
      <4>3. k > submitted \/ k <= submitted
        BY <1>2
      <4> QED
        BY <3>1, <3>3, <4>1, <4>2, <4>3, <1>2, TrimIsEviction
    <3> QED
      BY <3>2, <3>3
  <2> QED
    BY <2>1 DEF Life, TrimmedLife
<1>7. /\ Life[j] = "unborn"
      /\ \A k \in History!Jobs : k < j => Life[k] # "unborn"
      /\ Cardinality(History!Having(History!Active)) < MaxConcurrent
      /\ Life' = [History!Trimmed EXCEPT ![j] = "pending"]
  BY <1>3, <1>4, <1>5, <1>6, TrimIsEviction DEF History!Jobs, Jobs, History!Active, Active
<1> QED
  BY <1>7, SameCardinality DEF History!Accept, Life

LEMMA RefuseMaps ==
  ASSUME RInv, ~ Persistent, SubmitBusy
  PROVE  History!Refuse
<1> USE DEF RInv, IInv
<1>1. Busy /\ row' = KeptRow /\ UNCHANGED submitted
  BY DEF SubmitBusy
<1>2. submitted \in Nat /\ \A k \in Jobs : k \in Nat
  BY BoundAssumption DEF TypeOK, Jobs
<1>3. History!Having(Active) = ActiveRows
  <2>1. {k \in Jobs : Life[k] \in Active} = {k \in Jobs : row[k] \in Active}
    BY HavingIsRecord DEF Status
  <2> QED
    BY <2>1 DEF History!Having, ActiveRows, Life, History!Jobs, Jobs
<1>4. Cardinality(ActiveRows) >= MaxConcurrent
  BY <1>1, CountIsExact DEF Busy
<1>5. Life' = TrimmedLife
  <2>1. ASSUME NEW k \in Jobs
        PROVE  Life'[k] = TrimmedLife[k]
    BY <2>1, <1>1, <1>2, TrimIsEviction DEF Life
  <2> QED
    BY <2>1 DEF Life, TrimmedLife
<1>6. /\ Cardinality(History!Having(History!Active)) >= MaxConcurrent
      /\ Life' = History!Trimmed
  BY <1>3, <1>4, <1>5, TrimIsEviction DEF History!Active, Active
<1> QED
  BY <1>6, SameCardinality DEF History!Refuse, Life

LEMMA TaskStepMaps ==
  ASSUME RInv, ~ Persistent, NEW j \in Jobs, TaskStep(j)
  PROVE  History!Begin(j) \/ History!Conclude(j) \/ UNCHANGED Life
<1> USE DEF RInv, IInv
<1>1. /\ j \in Live /\ j <= submitted
      /\ UNCHANGED submitted
  <2>1. j \in Live /\ task[j] # "none"
    BY TaskStepEffect DEF Live, Running
  <2>2. UNCHANGED submitted
    BY DEF TaskStep, TaskStart, PrepareDone, PrepareFails, Complete, CancelInPrep,
           Unwind, Drained, HostError, Escape, Settle, Goes
  <2>3. j \in Nat /\ submitted \in Nat
    BY BoundAssumption DEF TypeOK, Jobs
  <2> QED
    BY <2>1, <2>2, <2>3 DEF NothingBeforeBirth
<1>2. ASSUME NEW s \in Status, row' = [row EXCEPT ![j] = s]
      PROVE  Life' = [Life EXCEPT ![j] = s]
  <2>1. \A k \in Jobs : Life'[k] = IF k = j THEN s ELSE Life[k]
    BY <1>1, <1>2, BoundAssumption DEF Life, TypeOK, Status, Active, Terminal, Jobs
  <2> QED
    BY <2>1 DEF Life
<1>3. CASE TaskStart(j)
  <2>1. task[j] = "new" /\ row' = [row EXCEPT ![j] = "running"]
    BY <1>3 DEF TaskStart, Goes, Save, SaveFails
  <2>2. Life[j] = "pending"
    BY <2>1, <1>1, BoundAssumption DEF RecordFollowsTask, Life, TypeOK, Jobs
  <2>3. Life' = [Life EXCEPT ![j] = "running"]
    BY <2>1, <1>2 DEF Status, Active
  <2> QED
    BY <2>2, <2>3 DEF History!Begin, Life
<1>4. ASSUME NEW from \in {"prep", "wait", "drain"}, NEW verdict \in Terminal,
             Settle(j, from, verdict)
      PROVE  History!Conclude(j)
  <2>1. task[j] = from /\ row' = [row EXCEPT ![j] = verdict]
    BY <1>4 DEF Settle, Goes, Save, SaveFails
  <2>2. Life[j] = "running"
    BY <2>1, <1>1, BoundAssumption DEF RecordFollowsTask, Life, TypeOK, Jobs
  <2>3. Life' = [Life EXCEPT ![j] = verdict]
    BY <2>1, <1>2 DEF Status
  <2> QED
    BY <2>2, <2>3 DEF History!Conclude, History!Terminal, Terminal, Life
<1>5. CASE PrepareFails(j) \/ Complete(j) \/ CancelInPrep(j) \/ Drained(j)
  BY <1>4, <1>5 DEF PrepareFails, Complete, CancelInPrep, Drained, Terminal
<1>6. CASE PrepareDone(j) \/ Unwind(j) \/ HostError(j) \/ Escape(j)
  BY <1>1, <1>6 DEF PrepareDone, Unwind, HostError, Escape, Life
<1> QED
  BY <1>3, <1>5, <1>6 DEF TaskStep

LEMMA StepMaps ==
  RInv /\ ~ Persistent /\ [Next]_vars => [History!Next]_Life
<1> SUFFICES ASSUME RInv, ~ Persistent, [Next]_vars PROVE [History!Next]_Life
  OBVIOUS
<1>1. ASSUME NEW j \in Jobs, Submit(j)
      PROVE  History!Next
  BY <1>1, AcceptMaps DEF History!Next, History!Jobs, Jobs
<1>2. ASSUME NEW j \in Jobs, SubmitUnsaved(j)
      PROVE  FALSE
  BY <1>2 DEF SubmitUnsaved
<1>3. ASSUME NEW j \in Jobs, TaskStep(j)
      PROVE  History!Next \/ UNCHANGED Life
  BY <1>3, TaskStepMaps DEF History!Next, History!Jobs, Jobs
<1>4. CASE SubmitBusy
  BY <1>4, RefuseMaps DEF History!Next
<1>5. CASE Exit \/ Kill
  <2>1. row' = [j \in Jobs |-> "none"] /\ UNCHANGED submitted
    BY <1>5 DEF Exit, Kill, ProcessEnds
  <2>2. Life' = [j \in Jobs |-> IF Life[j] = "unborn" THEN "unborn" ELSE "forgotten"]
    BY <2>1 DEF Life, RInv, IInv, TypeOK, Status, Active, Terminal
  <2>3. History!Lose
    BY <2>2 DEF History!Lose, Life, History!Jobs, Jobs
  <2> QED
    BY <2>3 DEF History!Next
<1>6. ASSUME NEW j \in Jobs, Cancel(j)
      PROVE  UNCHANGED Life
  BY <1>6 DEF Cancel, store, Life
<1>7. List \/ ShutdownBegin \/ ShutdownEnd \/ Boot \/ UNCHANGED vars => UNCHANGED Life
  BY DEF List, ShutdownBegin, ShutdownEnd, Boot, store, vars, Life
<1> QED
  BY <1>1, <1>2, <1>3, <1>4, <1>5, <1>6, <1>7 DEF Next

(* Refinement: over the memory store every behaviour of the service is a   *)
(* behaviour of the promised history.                                      *)
THEOREM MemoryStoreImplementsHistory ==
  ASSUME ~ Persistent
  PROVE  Spec => ImplementsHistory
<1>1. Init => History!Init
  BY BoundAssumption DEF Init, History!Init, History!Jobs, Jobs
<1>2. RInv /\ [Next]_vars => [History!Next]_Life
  BY StepMaps
<1>3. Spec => []RInv
  BY RInit, RStep, PTL DEF Spec
<1> QED
  BY <1>1, <1>2, <1>3, PTL DEF Spec, ImplementsHistory, History!Spec, Life

=============================================================================
