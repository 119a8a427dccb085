------------------------- MODULE ScanServiceProofs -------------------------
(***************************************************************************)
(* Theorems about ScanService for every number of jobs, every limit, both  *)
(* stores and every set of faults.                                         *)
(***************************************************************************)
EXTENDS ScanService, FiniteSetTheorems, TLAPS

ActiveRows == {j \in Jobs : row[j] \in Active}

(* A job at work is on record as active: eviction spares it and submit     *)
(* counts it.                                                              *)
LiveIsOnRecord == \A j \in Live : row[j] \in Active

(* What the memory store holds is the object itself.                       *)
MemoryHoldsObjects ==
  ~ Persistent => \A j \in Jobs : row[j] # "none" => obj[j] = row[j]

(* No more jobs are on record as active than there are slots.              *)
SlotsSuffice == Cardinality(ActiveRows) <= MaxConcurrent

(* In any phase, an active record has a task at work or was cut short.     *)
RecordsAreBacked == \A j \in ActiveRows : j \in Live \union cut

MemoryOwnsLive == ~ Persistent => OwnsLiveTasks

IInv ==
  /\ TypeOK
  /\ LiveIsOnRecord
  /\ MemoryHoldsObjects
  /\ SlotsSuffice
  /\ RecordsAreBacked
  /\ MemoryOwnsLive

---------------------------------------------------------------------------
(* The store and the registry. *)

(* Eviction only ever drops finished jobs.                                 *)
LEMMA EvictionSparesActive ==
  ASSUME TypeOK
  PROVE  /\ KeptRow \in [Jobs -> Status \union {"none"}]
         /\ \A j \in Jobs : KeptRow[j] = row[j] \/ KeptRow[j] = "none"
         /\ \A j \in Jobs : row[j] \in Active => KeptRow[j] = row[j]
<1>1. Surplus \subseteq Finished
  BY DEF Surplus
<1>2. \A j \in Surplus : row[j] \notin Active
  BY <1>1 DEF Finished, Active, Terminal
<1> QED
  BY <1>2 DEF KeptRow, TypeOK

(* Rebuilding a registry yields entries a request can read.                *)
LEMMA ReloadType ==
  ASSUME NEW reg \in [Jobs -> Status \union {"absent", "live"}],
         NEW rows \in [Jobs -> Status \union {"none"}]
  PROVE  Reload(reg, rows) \in [Jobs -> Status \union {"absent", "live"}]
  BY DEF Reload

LEMMA EvictedType ==
  ASSUME TypeOK
  PROVE  Evicted \in [Jobs -> Status \union {"absent", "live"}]
<1>1. [j \in Jobs |-> "absent"] \in [Jobs -> Status \union {"absent", "live"}]
  OBVIOUS
<1> QED
  BY <1>1, EvictionSparesActive, ReloadType DEF Evicted

(* After its eviction submit counts exactly the records that are active.   *)
LEMMA CountIsExact ==
  ASSUME TypeOK, MemoryHoldsObjects
  PROVE  Counted(Evicted) = ActiveRows
<1>1. ASSUME NEW j \in Jobs
      PROVE  Seen(Evicted, j) \in Active <=> row[j] \in Active
  <2>1. CASE KeptRow[j] = "none"
    <3>1. row[j] \notin Active
      BY <2>1, EvictionSparesActive DEF Active
    <3>2. Evicted[j] = "absent"
      BY <2>1 DEF Evicted, Reload
    <3> QED
      BY <3>1, <3>2 DEF Seen, Active
  <2>2. CASE KeptRow[j] # "none"
    <3>1. KeptRow[j] = row[j] /\ row[j] \in Status
      BY <2>2, EvictionSparesActive DEF TypeOK
    <3>2. CASE Persistent
      <4>1. Evicted[j] = row[j]
        BY <2>2, <3>1, <3>2 DEF Evicted, Reload
      <4> QED
        BY <3>1, <4>1 DEF Seen, Status, Active, Terminal
    <3>3. CASE ~ Persistent
      <4>1. Evicted[j] = "live"
        BY <2>2, <3>3 DEF Evicted, Reload
      <4>2. obj[j] = row[j]
        BY <2>2, <3>1, <3>3 DEF MemoryHoldsObjects
      <4> QED
        BY <4>1, <4>2 DEF Seen
    <3> QED
      BY <3>2, <3>3
  <2> QED
    BY <2>1, <2>2
<1> QED
  BY <1>1 DEF Counted, ActiveRows

LEMMA ActiveRowsFinite ==
  /\ IsFiniteSet(ActiveRows)
  /\ Cardinality(ActiveRows) \in Nat
<1>1. IsFiniteSet(Jobs)
  BY FS_Interval, BoundAssumption DEF Jobs
<1>2. IsFiniteSet(ActiveRows)
  BY <1>1, FS_Subset DEF ActiveRows
<1> QED
  BY <1>2, FS_CardinalityType

(* No action makes more records active than it found, submit excepted.     *)
LEMMA SlotsKept ==
  ASSUME SlotsSuffice, ActiveRows' \subseteq ActiveRows
  PROVE  SlotsSuffice'
<1>1. /\ IsFiniteSet(ActiveRows')
      /\ Cardinality(ActiveRows') <= Cardinality(ActiveRows)
      /\ Cardinality(ActiveRows') \in Nat
  BY ActiveRowsFinite, FS_Subset, FS_CardinalityType
<1> QED
  BY <1>1, ActiveRowsFinite, LimitAssumption DEF SlotsSuffice

---------------------------------------------------------------------------
(* Type correctness. *)

LEMMA TaskStepType ==
  ASSUME TypeOK, NEW j \in Jobs, TaskStep(j)
  PROVE  TypeOK'
  BY DEF TypeOK, TaskStep, TaskStart, PrepareDone, PrepareFails, Complete,
         CancelInPrep, Unwind, Drained, HostError, Escape, Settle, Goes,
         Save, SaveFails, Running, Status, Active, Terminal

LEMMA TypeKept ==
  ASSUME TypeOK, [Next]_vars
  PROVE  TypeOK'
<1> USE DEF TypeOK
<1>1. ASSUME NEW j \in Jobs, Submit(j)
      PROVE  TypeOK'
  BY <1>1, EvictionSparesActive, EvictedType
     DEF Submit, Create, Running, Status, Active, Jobs
<1>2. ASSUME NEW j \in Jobs, SubmitUnsaved(j)
      PROVE  TypeOK'
  BY <1>2, EvictionSparesActive, EvictedType
     DEF SubmitUnsaved, Create, Status, Active, Jobs
<1>3. ASSUME NEW j \in Jobs, Cancel(j)
      PROVE  TypeOK'
  BY <1>3 DEF Cancel, store
<1>4. ASSUME NEW j \in Jobs, TaskStep(j)
      PROVE  TypeOK'
  BY <1>4, TaskStepType
<1>5. CASE SubmitBusy
  BY <1>5, EvictionSparesActive, EvictedType DEF SubmitBusy
<1>6. CASE List
  BY <1>6, ReloadType DEF List, store
<1>7. CASE ShutdownBegin
  BY <1>7 DEF ShutdownBegin, store
<1>8. CASE ShutdownEnd
  BY <1>8 DEF ShutdownEnd, store
<1>9. CASE Exit
  BY <1>9 DEF Exit, ProcessEnds, Status
<1>10. CASE Kill
  BY <1>10 DEF Kill, ProcessEnds, Live, Status
<1>11. CASE Boot
  BY <1>11, ReloadType DEF Boot, store
<1>12. CASE UNCHANGED vars
  BY <1>12 DEF vars
<1> QED
  BY <1>1, <1>2, <1>3, <1>4, <1>5, <1>6, <1>7, <1>8, <1>9, <1>10, <1>11, <1>12
     DEF Next

LEMMA InitInv == Init => IInv
<1> SUFFICES ASSUME Init PROVE IInv
  OBVIOUS
<1>1. TypeOK
  BY BoundAssumption DEF Init, TypeOK, Jobs, Running, Status
<1>2. Live = {} /\ ActiveRows = {}
  BY DEF Init, Live, ActiveRows, Running, Active
<1>3. SlotsSuffice
  BY <1>2, FS_EmptySet, LimitAssumption DEF SlotsSuffice
<1> QED
  BY <1>1, <1>2, <1>3
     DEF IInv, Init, LiveIsOnRecord, MemoryHoldsObjects, RecordsAreBacked,
         MemoryOwnsLive, OwnsLiveTasks

(* Specification invariant: the variables keep their types.                *)
THEOREM TypeCorrect == Spec => []TypeOK
<1>1. Init => TypeOK
  BY InitInv DEF IInv
<1>2. TypeOK /\ [Next]_vars => TypeOK'
  BY TypeKept
<1> QED
  BY <1>1, <1>2, PTL DEF Spec

---------------------------------------------------------------------------
(* The inductive step, action by action. *)

(* A new job fits: the count that admitted it is exact.                    *)
LEMMA CreateFits ==
  ASSUME IInv, NEW j \in Jobs, ~ Busy,
         ActiveRows' \subseteq ActiveRows \union {j}
  PROVE  SlotsSuffice'
<1>1. /\ IsFiniteSet(ActiveRows)
      /\ Cardinality(ActiveRows) \in Nat
      /\ Cardinality(ActiveRows) < MaxConcurrent
  BY ActiveRowsFinite, CountIsExact, LimitAssumption DEF Busy, IInv
<1>2. /\ IsFiniteSet(ActiveRows \union {j})
      /\ Cardinality(ActiveRows \union {j}) <= Cardinality(ActiveRows) + 1
      /\ Cardinality(ActiveRows \union {j}) \in Nat
  <2> DEFINE A == ActiveRows
  <2>1. IsFiniteSet(A) /\ Cardinality(A) \in Nat
    BY <1>1
  <2> HIDE DEF A
  <2>2. /\ IsFiniteSet(A \union {j})
        /\ Cardinality(A \union {j}) = IF j \in A THEN Cardinality(A) ELSE Cardinality(A) + 1
    BY <2>1, FS_AddElement
  <2>3. /\ IsFiniteSet(A \union {j})
        /\ Cardinality(A \union {j}) <= Cardinality(A) + 1
        /\ Cardinality(A \union {j}) \in Nat
    BY <2>1, <2>2
  <2> QED
    BY <2>3 DEF A
<1>3. Cardinality(ActiveRows') <= Cardinality(ActiveRows \union {j})
  BY <1>2, FS_Subset
<1>4. Cardinality(ActiveRows') \in Nat
  BY <1>2, FS_Subset, FS_CardinalityType
<1> QED
  BY <1>1, <1>2, <1>3, <1>4, LimitAssumption DEF SlotsSuffice

(* The memory store gives every job it holds back as the live object.      *)
LEMMA MemoryReload ==
  ASSUME TypeOK, ~ Persistent
  PROVE  /\ \A j \in Jobs : KeptRow[j] # "none" => Evicted[j] = "live"
         /\ \A j \in Jobs : row[j] # "none" => Reload(registry, row)[j] = "live"
  BY DEF Evicted, Reload

LEMMA SubmitInv ==
  ASSUME IInv, NEW j \in Jobs, Submit(j)
  PROVE  IInv'
<1> USE DEF IInv
<1>0. /\ ~ Busy
      /\ task' = [task EXCEPT ![j] = "new"]
      /\ obj' = [obj EXCEPT ![j] = "pending"]
      /\ row' = [KeptRow EXCEPT ![j] = "pending"]
      /\ registry' = [Evicted EXCEPT ![j] = "live"]
      /\ UNCHANGED cut
  BY DEF Submit, Create
<1>1. TypeOK'
  BY TypeKept DEF Next
<1>2. Live' = Live \union {j}
  BY <1>0 DEF Live, Running, TypeOK
<1>3. LiveIsOnRecord'
  BY <1>0, <1>2, EvictionSparesActive DEF LiveIsOnRecord, Active, Live
<1>4. MemoryHoldsObjects'
  BY <1>0, EvictionSparesActive DEF MemoryHoldsObjects, TypeOK
<1>5. ActiveRows' \subseteq ActiveRows \union {j}
  BY <1>0, EvictionSparesActive DEF ActiveRows, Active
<1>6. SlotsSuffice'
  BY <1>0, <1>5, CreateFits
<1>7. RecordsAreBacked'
  BY <1>0, <1>2, <1>5 DEF RecordsAreBacked
<1>8. ASSUME ~ Persistent, NEW k \in Live'
      PROVE  registry'[k] = "live"
  <2>1. CASE k = j
    BY <2>1, <1>0, EvictedType
  <2>2. CASE k # j
    <3>1. k \in Live /\ k \in Jobs
      BY <1>2, <2>2 DEF Live
    <3>2. KeptRow[k] = row[k] /\ row[k] \in Active
      BY <3>1, EvictionSparesActive DEF LiveIsOnRecord
    <3>3. Evicted[k] = "live"
      BY <1>8, <3>1, <3>2, MemoryReload DEF Active
    <3> QED
      BY <1>0, <2>2, <3>1, <3>3, EvictedType
  <2> QED
    BY <2>1, <2>2
<1>9. MemoryOwnsLive'
  BY <1>8 DEF MemoryOwnsLive, OwnsLiveTasks
<1> QED
  BY <1>1, <1>3, <1>4, <1>6, <1>7, <1>9

(* What an eviction leaves of the records and of the registry.             *)
LEMMA EvictionInv ==
  ASSUME IInv, TypeOK', row' = KeptRow, registry' = Evicted,
         cut \subseteq cut', UNCHANGED task,
         ~ Persistent => UNCHANGED obj
  PROVE  IInv'
<1> USE DEF IInv
<1>1. Live' = Live /\ Live \subseteq Jobs
  BY DEF Live
<1>2. ActiveRows' \subseteq ActiveRows
  BY EvictionSparesActive DEF ActiveRows, Active
<1>3. LiveIsOnRecord'
  BY <1>1, EvictionSparesActive DEF LiveIsOnRecord
<1>4. MemoryHoldsObjects'
  BY EvictionSparesActive DEF MemoryHoldsObjects
<1>5. SlotsSuffice'
  BY <1>2, SlotsKept
<1>6. RecordsAreBacked'
  BY <1>1, <1>2 DEF RecordsAreBacked
<1>7. MemoryOwnsLive'
  BY <1>1, EvictionSparesActive, MemoryReload
     DEF MemoryOwnsLive, OwnsLiveTasks, LiveIsOnRecord, Active
<1> QED
  BY <1>3, <1>4, <1>5, <1>6, <1>7

LEMMA SubmitUnsavedInv ==
  ASSUME IInv, NEW j \in Jobs, SubmitUnsaved(j)
  PROVE  IInv'
<1> USE DEF IInv
<1>0. /\ Persistent
      /\ row' = KeptRow
      /\ cut' = cut \union {j}
      /\ UNCHANGED task
  BY DEF SubmitUnsaved
<1>1. TypeOK'
  BY TypeKept DEF Next
<1>2. Live' = Live /\ Live \subseteq Jobs
  BY <1>0 DEF Live
<1>3. ActiveRows' \subseteq ActiveRows
  BY <1>0, EvictionSparesActive DEF ActiveRows, Active
<1>4. LiveIsOnRecord'
  BY <1>0, <1>2, EvictionSparesActive DEF LiveIsOnRecord
<1>5. SlotsSuffice'
  BY <1>3, SlotsKept
<1>6. RecordsAreBacked'
  BY <1>0, <1>2, <1>3 DEF RecordsAreBacked
<1> QED
  BY <1>0, <1>1, <1>4, <1>5, <1>6 DEF MemoryHoldsObjects, MemoryOwnsLive

(* A step of a job's task moves it along, and its record with it; only a   *)
(* fault ends the task and leaves the record active.                       *)
LEMMA TaskStepEffect ==
  ASSUME TypeOK, NEW j \in Jobs, TaskStep(j)
  PROVE  /\ j \in Live
         /\ UNCHANGED registry
         /\ \E t \in Running \union {"done"} : task' = [task EXCEPT ![j] = t]
         /\ \/ UNCHANGED <<row, obj>>
            \/ \E s \in Status \ {"pending"} :
                 /\ obj' = [obj EXCEPT ![j] = s]
                 /\ \/ row' = [row EXCEPT ![j] = s]
                    \/ UNCHANGED row /\ Persistent
         /\ cut \subseteq cut'
         /\ task'[j] \in Running => row'[j] = row[j] \/ row'[j] = "running"
         /\ task'[j] = "done" => row'[j] \in Terminal \/ j \in cut'
<1> USE DEF Goes, Save, SaveFails, Running, Status, Active, Terminal, Live, TypeOK
<1>1. CASE TaskStart(j)
  BY <1>1 DEF TaskStart
<1>2. CASE PrepareDone(j)
  BY <1>2 DEF PrepareDone
<1>3. CASE PrepareFails(j)
  BY <1>3 DEF PrepareFails, Settle
<1>4. CASE Complete(j)
  BY <1>4 DEF Complete, Settle
<1>5. CASE CancelInPrep(j)
  BY <1>5 DEF CancelInPrep, Settle
<1>6. CASE Unwind(j)
  BY <1>6 DEF Unwind
<1>7. CASE Drained(j)
  BY <1>7 DEF Drained, Settle
<1>8. CASE HostError(j)
  BY <1>8 DEF HostError
<1>9. CASE Escape(j)
  BY <1>9 DEF Escape
<1> QED
  BY <1>1, <1>2, <1>3, <1>4, <1>5, <1>6, <1>7, <1>8, <1>9 DEF TaskStep

LEMMA TaskStepInv ==
  ASSUME IInv, NEW j \in Jobs, TaskStep(j)
  PROVE  IInv'
<1> USE DEF IInv
<1>1. TypeOK'
  BY TaskStepType
<1>2. /\ j \in Live
      /\ row[j] \in Active
  BY TaskStepEffect DEF LiveIsOnRecord
<1>3. \A k \in Jobs \ {j} : row'[k] = row[k] /\ obj'[k] = obj[k] /\ task'[k] = task[k]
  BY TaskStepEffect DEF TypeOK
<1>4. task'[j] \in Running \/ task'[j] = "done"
  BY TaskStepEffect DEF TypeOK
<1>5. LiveIsOnRecord'
  <2>1. ASSUME NEW k \in Live'
        PROVE  row'[k] \in Active
    <3>1. CASE k = j
      BY <2>1, <3>1, <1>2, TaskStepEffect DEF Live, Active
    <3>2. CASE k # j
      BY <2>1, <3>2, <1>3 DEF Live, LiveIsOnRecord
    <3> QED
      BY <3>1, <3>2
  <2> QED
    BY <2>1 DEF LiveIsOnRecord
<1>6. MemoryHoldsObjects'
  <2>1. ASSUME ~ Persistent
        PROVE  obj'[j] = row'[j]
    BY <2>1, <1>2, TaskStepEffect DEF MemoryHoldsObjects, TypeOK, Active
  <2> QED
    BY <2>1, <1>3 DEF MemoryHoldsObjects
<1>7. ActiveRows' \subseteq ActiveRows
  BY <1>2, <1>3 DEF ActiveRows, Active
<1>8. SlotsSuffice'
  BY <1>7, SlotsKept
<1>9. RecordsAreBacked'
  <2>1. ASSUME NEW k \in ActiveRows'
        PROVE  k \in Live' \union cut'
    <3>1. CASE k = j
      BY <2>1, <3>1, <1>4, TaskStepEffect DEF ActiveRows, Live, Active, Terminal
    <3>2. CASE k # j
      <4>1. k \in Jobs /\ k \in Live \union cut
        BY <2>1, <1>7 DEF ActiveRows, RecordsAreBacked
      <4> QED
        BY <4>1, <3>2, <1>3, TaskStepEffect DEF Live
    <3> QED
      BY <3>1, <3>2
  <2> QED
    BY <2>1 DEF RecordsAreBacked
<1>10. Live' \subseteq Live
  BY <1>2, <1>3 DEF Live
<1>11. MemoryOwnsLive'
  BY <1>10, TaskStepEffect DEF MemoryOwnsLive, OwnsLiveTasks
<1> QED
  BY <1>1, <1>5, <1>6, <1>8, <1>9, <1>11

(* Requests and hooks that touch neither records nor tasks.                *)
LEMMA BystanderInv ==
  ASSUME IInv, TypeOK', UNCHANGED <<row, obj, task, cut>>,
         ~ Persistent => \A j \in Live : registry'[j] = "live"
  PROVE  IInv'
<1>1. Live' = Live /\ ActiveRows' = ActiveRows
  BY DEF Live, ActiveRows
<1> QED
  BY <1>1 DEF IInv, LiveIsOnRecord, MemoryHoldsObjects, SlotsSuffice,
              RecordsAreBacked, MemoryOwnsLive, OwnsLiveTasks

(* The end of the process: the memory store goes with it, the rows of the  *)
(* SQLite store stay, and those still active belong to jobs cut short.     *)
LEMMA ProcessEndsInv ==
  ASSUME IInv, TypeOK', ProcessEnds, cut \subseteq cut', Live \subseteq cut'
  PROVE  IInv'
<1> USE DEF IInv
<1>1. Live' = {}
  BY DEF ProcessEnds, Live, Running
<1>2. ActiveRows' \subseteq ActiveRows
  BY DEF ProcessEnds, ActiveRows, Active
<1>3. SlotsSuffice'
  BY <1>2, SlotsKept
<1>4. RecordsAreBacked'
  BY <1>2 DEF RecordsAreBacked
<1>5. MemoryHoldsObjects'
  BY DEF MemoryHoldsObjects, ProcessEnds
<1> QED
  BY <1>1, <1>3, <1>4, <1>5 DEF LiveIsOnRecord, MemoryOwnsLive, OwnsLiveTasks

LEMMA StepInv == IInv /\ [Next]_vars => IInv'
<1> SUFFICES ASSUME IInv, [Next]_vars PROVE IInv'
  OBVIOUS
<1>0. TypeOK /\ TypeOK'
  BY TypeKept DEF IInv
<1>1. ASSUME NEW j \in Jobs, Submit(j)
      PROVE  IInv'
  BY <1>1, SubmitInv
<1>2. ASSUME NEW j \in Jobs, SubmitUnsaved(j)
      PROVE  IInv'
  BY <1>2, SubmitUnsavedInv
<1>3. ASSUME NEW j \in Jobs, Cancel(j)
      PROVE  IInv'
  BY <1>0, <1>3, BystanderInv
     DEF Cancel, store, IInv, MemoryOwnsLive, OwnsLiveTasks
<1>4. ASSUME NEW j \in Jobs, TaskStep(j)
      PROVE  IInv'
  BY <1>4, TaskStepInv
<1>5. CASE SubmitBusy
  BY <1>0, <1>5, EvictionInv DEF SubmitBusy
<1>6. CASE List
  <2>1. ASSUME ~ Persistent, NEW j \in Live
        PROVE  registry'[j] = "live"
    <3>1. j \in Jobs /\ row[j] # "none"
      BY DEF Live, IInv, LiveIsOnRecord, Active
    <3> QED
      BY <1>0, <1>6, <2>1, <3>1, MemoryReload DEF List
  <2> QED
    BY <1>0, <1>6, <2>1, BystanderInv DEF List, store
<1>7. CASE ShutdownBegin
  BY <1>0, <1>7, BystanderInv
     DEF ShutdownBegin, store, IInv, MemoryOwnsLive, OwnsLiveTasks
<1>8. CASE ShutdownEnd
  BY <1>0, <1>8, BystanderInv
     DEF ShutdownEnd, store, IInv, MemoryOwnsLive, OwnsLiveTasks
<1>9. CASE Exit
  BY <1>0, <1>9, ProcessEndsInv DEF Exit
<1>10. CASE Kill
  BY <1>0, <1>10, ProcessEndsInv DEF Kill
<1>11. CASE Boot
  <2>1. ASSUME ~ Persistent, NEW j \in Live
        PROVE  registry'[j] = "live"
    <3>1. j \in Jobs /\ row[j] # "none"
      BY DEF Live, IInv, LiveIsOnRecord, Active
    <3> QED
      BY <1>0, <1>11, <2>1, <3>1, MemoryReload DEF Boot
  <2> QED
    BY <1>0, <1>11, <2>1, BystanderInv DEF Boot, store
<1>12. CASE UNCHANGED vars
  BY <1>0, <1>12, BystanderInv DEF vars, IInv, MemoryOwnsLive, OwnsLiveTasks
<1> QED
  BY <1>1, <1>2, <1>3, <1>4, <1>5, <1>6, <1>7, <1>8, <1>9, <1>10, <1>11, <1>12
     DEF Next

LEMMA Inductive == Spec => []IInv
  BY InitInv, StepInv, PTL DEF Spec

---------------------------------------------------------------------------
(* Theorems. *)

(* Safety: never more scans at once than max_concurrent_scans, under every *)
(* interleaving of submits, evictions, cancellations, faults and restarts. *)
THEOREM ConcurrencyIsLimited == Spec => []LiveWithinLimit
<1>1. IInv => LiveWithinLimit
  <2> SUFFICES ASSUME IInv PROVE LiveWithinLimit
    OBVIOUS
  <2>1. Live \subseteq ActiveRows
    BY DEF IInv, LiveIsOnRecord, Live, ActiveRows
  <2>2. /\ IsFiniteSet(Live)
        /\ Cardinality(Live) <= Cardinality(ActiveRows)
    BY <2>1, ActiveRowsFinite, FS_Subset
  <2>3. Cardinality(Live) \in Nat
    BY <2>2, FS_CardinalityType
  <2> QED
    BY <2>2, <2>3, ActiveRowsFinite, LimitAssumption
       DEF IInv, SlotsSuffice, LiveWithinLimit
<1> QED
  BY <1>1, Inductive, PTL

(* Safety: an active record without a task at work is the mark of a fault, *)
(* so without faults every slot in use comes free.                         *)
THEOREM SlotsBacked == Spec => []SlotsAreBacked
<1>1. IInv => SlotsAreBacked
  BY DEF IInv, RecordsAreBacked, ActiveRows, SlotsAreBacked
<1> QED
  BY <1>1, Inductive, PTL

(* Safety: over the memory store a running job is always found in the      *)
(* registry as the object its task updates.                                *)
THEOREM MemoryStoreOwnsTasks == Spec => [](~ Persistent => OwnsLiveTasks)
<1>1. IInv => (~ Persistent => OwnsLiveTasks)
  BY DEF IInv, MemoryOwnsLive
<1> QED
  BY <1>1, Inductive, PTL

=============================================================================
