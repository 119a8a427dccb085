-------------------------- MODULE ScanCancelProofs --------------------------
(***************************************************************************)
(* Theorems about cancellation and shutdown of ScanService, for every      *)
(* number of jobs, every limit, both stores and every set of faults.       *)
(***************************************************************************)
EXTENDS ScanServiceProofs

(* What a cancellation may find out about a job at work: neither its       *)
(* object nor an old copy of it in the registry has a verdict.             *)
LiveIsUndecided ==
  \A j \in Live : obj[j] \in Active /\ registry[j] \notin Terminal

(* The registry holds no job the store never had, but for a save that      *)
(* failed.                                                                 *)
OwnedIsOnRecord ==
  \A j \in Jobs : registry[j] = "live" => row[j] # "none" \/ j \in cut

(* Shutdown waited for what it owns, and nothing new comes after it.       *)
ClosingOwnsNothing == phase = "closing" => Owned = {}

(* A job the store never had has no row.                                   *)
Unborn == \A j \in Jobs : j > submitted => row[j] = "none"

CInv ==
  /\ IInv
  /\ Unborn
  /\ LiveIsUndecided
  /\ CancelIsFinal
  /\ OwnedIsOnRecord
  /\ ClosingOwnsNothing

(* An entry of a rebuilt registry is the old one, the row or the object.   *)
LEMMA ReloadEntry ==
  ASSUME NEW reg, NEW rows, NEW j \in Jobs
  PROVE  \/ rows[j] = "none" /\ Reload(reg, rows)[j] = reg[j]
         \/ rows[j] # "none" /\ Persistent /\ Reload(reg, rows)[j] = rows[j]
         \/ rows[j] # "none" /\ Reload(reg, rows)[j] = "live"
  BY DEF Reload

LEMMA EvictedEntry ==
  ASSUME TypeOK, NEW j \in Jobs
  PROVE  /\ KeptRow[j] \in {row[j], "none"}
         /\ \/ Evicted[j] = "absent"
            \/ KeptRow[j] = row[j] /\ row[j] # "none" /\ Evicted[j] \in {row[j], "live"}
<1>1. [k \in Jobs |-> "absent"][j] = "absent"
  OBVIOUS
<1> QED
  BY <1>1, ReloadEntry, EvictionSparesActive DEF Evicted

(* What submits, listings and boots make of a job: a new one, or what the  *)
(* store and the registry knew, or less.                                   *)
FreshEntry(j) ==
  /\ obj'[j] = "pending"
  /\ registry'[j] = "live"
  /\ row'[j] \in {"pending", "none"}
  /\ row'[j] = "pending" \/ j \in cut'

OldEntry(j) ==
  /\ j \in Live' => j \in Live
  /\ obj'[j] = obj[j]
  /\ row'[j] \in {row[j], "none"}
  /\ \/ registry'[j] = "absent"
     \/ row'[j] = row[j] /\ registry'[j] = registry[j]
     \/ row'[j] = row[j] /\ row[j] # "none" /\ registry'[j] \in {row[j], "live"}

LEMMA RebuiltInv ==
  ASSUME CInv, IInv', Unborn', UNCHANGED cancelReq, phase' # "closing", cut \subseteq cut',
         \A j \in Jobs : FreshEntry(j) \/ OldEntry(j)
  PROVE  CInv'
<1> USE DEF CInv, FreshEntry, OldEntry
<1>1. Live \subseteq Jobs /\ Live' \subseteq Jobs /\ \A j \in Live : row[j] \in Active
  BY DEF IInv, Live, LiveIsOnRecord
<1>2. LiveIsUndecided'
  <2>1. ASSUME NEW j \in Live'
        PROVE  obj'[j] \in Active /\ registry'[j] \notin Terminal
    <3>1. CASE FreshEntry(j)
      BY <3>1 DEF Active, Terminal
    <3>2. CASE OldEntry(j)
      BY <1>1, <2>1, <3>2 DEF LiveIsUndecided, Active, Terminal
    <3> QED
      BY <1>1, <2>1, <3>1, <3>2
  <2> QED
    BY <1>1, <2>1 DEF LiveIsUndecided
<1>3. CancelIsFinal'
  <2>1. ASSUME NEW j \in Jobs, cancelReq[j]
        PROVE  /\ obj'[j] \notin {"completed", "failed"}
               /\ row'[j] \notin {"completed", "failed"}
               /\ registry'[j] \notin {"completed", "failed"}
    <3>1. /\ obj[j] \notin {"completed", "failed"}
          /\ row[j] \notin {"completed", "failed"}
          /\ registry[j] \notin {"completed", "failed"}
      BY <2>1 DEF CancelIsFinal, Seen
    <3>2. CASE FreshEntry(j)
      BY <3>2
    <3>3. CASE OldEntry(j)
      BY <3>1, <3>3
    <3> QED
      BY <3>2, <3>3
  <2> QED
    BY <2>1 DEF CancelIsFinal, Seen
<1>4. OwnedIsOnRecord'
  BY DEF OwnedIsOnRecord
<1> QED
  BY <1>2, <1>3, <1>4 DEF ClosingOwnsNothing

LEMMA InitCancelInv == Init => CInv
<1> SUFFICES ASSUME Init PROVE CInv
  OBVIOUS
<1>1. IInv
  BY InitInv
<1> QED
  BY <1>1 DEF Init, CInv, LiveIsUndecided, CancelIsFinal, Unborn, OwnedIsOnRecord,
              ClosingOwnsNothing, Live, Running

LEMMA SubmitsKeepCancelInv ==
  ASSUME CInv, IInv', NEW j \in Jobs, Submit(j) \/ SubmitUnsaved(j)
  PROVE  CInv'
<1>1. TypeOK /\ Evicted \in [Jobs -> Status \union {"absent", "live"}]
      /\ KeptRow \in [Jobs -> Status \union {"none"}]
  BY EvictedType, EvictionSparesActive DEF CInv, IInv
<1>2. phase' = "up" /\ UNCHANGED cancelReq /\ cut \subseteq cut'
  BY DEF Submit, SubmitUnsaved, Create
<1>3. /\ obj' = [obj EXCEPT ![j] = "pending"]
      /\ registry' = [Evicted EXCEPT ![j] = "live"]
      /\ task' = [task EXCEPT ![j] = "new"] \/ UNCHANGED task
      /\ \/ row' = [KeptRow EXCEPT ![j] = "pending"]
         \/ row' = KeptRow /\ j \in cut'
  BY DEF Submit, SubmitUnsaved, Create
<1>4. ASSUME NEW k \in Jobs \ {j}
      PROVE  OldEntry(k)
  <2>1. /\ obj'[k] = obj[k] /\ task'[k] = task[k]
        /\ row'[k] = KeptRow[k] /\ registry'[k] = Evicted[k]
    BY <1>1, <1>3 DEF TypeOK
  <2> QED
    BY <1>1, <2>1, EvictedEntry DEF OldEntry, Live
<1>5. FreshEntry(j)
  <2>1. row[j] = "none"
    BY <1>1 DEF Submit, SubmitUnsaved, Create, CInv, Unborn, TypeOK, Jobs
  <2>2. KeptRow[j] = "none"
    BY <1>1, <2>1, EvictedEntry
  <2> QED
    BY <1>1, <1>3, <2>2 DEF FreshEntry, TypeOK
<1>6. Unborn'
  <2>1. ASSUME NEW k \in Jobs, k > submitted'
        PROVE  row'[k] = "none"
    <3>1. k # j /\ k > submitted
      BY <1>1, <2>1 DEF Submit, SubmitUnsaved, Create, TypeOK, Jobs
    <3> QED
      BY <1>4, <3>1 DEF OldEntry, CInv, Unborn
  <2> QED
    BY <2>1 DEF Unborn
<1> QED
  BY <1>2, <1>4, <1>5, <1>6, RebuiltInv

LEMMA EvictionKeepsCancelInv ==
  ASSUME CInv, IInv', SubmitBusy
  PROVE  CInv'
<1>1. TypeOK
  BY DEF CInv, IInv
<1>2. ASSUME NEW k \in Jobs
      PROVE  OldEntry(k)
  BY <1>1, EvictedEntry DEF SubmitBusy, OldEntry, Live
<1>3. Unborn'
  BY <1>2 DEF SubmitBusy, OldEntry, CInv, Unborn
<1> QED
  BY <1>2, <1>3, RebuiltInv DEF SubmitBusy

(* GET /scans and the start of a process rebuild entries from rows.        *)
LEMMA ReloadKeepsCancelInv ==
  ASSUME CInv, IInv', List \/ Boot
  PROVE  CInv'
<1>1. ASSUME NEW k \in Jobs
      PROVE  OldEntry(k)
  BY ReloadEntry DEF List, Boot, store, OldEntry, Live
<1>2. Unborn'
  BY DEF List, Boot, store, CInv, Unborn
<1> QED
  BY <1>1, <1>2, RebuiltInv DEF List, Boot, store

LEMMA TaskKeepsCancelInv ==
  ASSUME CInv, IInv', NEW j \in Jobs, TaskStep(j)
  PROVE  CInv'
<1> USE DEF CInv
<1>1. TypeOK /\ TypeOK'
  BY DEF IInv
<1>2. /\ j \in Live /\ UNCHANGED <<registry, cancelReq, phase>>
      /\ cut \subseteq cut'
      /\ \A k \in Jobs \ {j} : row'[k] = row[k] /\ obj'[k] = obj[k] /\ task'[k] = task[k]
      /\ task'[j] \in Running => obj'[j] \in Active
      /\ cancelReq[j] => {obj'[j], row'[j]} \subseteq {obj[j], row[j], "running", "cancelled"}
      /\ row'[j] # "none"
  <2>1. j \in Live /\ UNCHANGED registry /\ cut \subseteq cut' /\ row[j] # "none"
        /\ \A k \in Jobs \ {j} : row'[k] = row[k] /\ obj'[k] = obj[k] /\ task'[k] = task[k]
    BY <1>1, TaskStepEffect DEF TypeOK, IInv, LiveIsOnRecord, Active
  <2>2. obj[j] \in Active
    BY <2>1 DEF LiveIsUndecided
  <2>3. /\ UNCHANGED <<cancelReq, phase>>
        /\ task'[j] \in Running => obj'[j] \in Active
        /\ cancelReq[j] => {obj'[j], row'[j]} \subseteq {obj[j], row[j], "running", "cancelled"}
        /\ row'[j] # "none"
    <3> USE <1>1, <2>1, <2>2
        DEF TypeOK, Goes, Settle, Save, SaveFails, Running, Active
    <3>1. CASE TaskStart(j)
      BY <3>1 DEF TaskStart
    <3>2. CASE PrepareDone(j) \/ Unwind(j) \/ HostError(j) \/ Escape(j)
      BY <3>2 DEF PrepareDone, Unwind, HostError, Escape
    <3>3. CASE PrepareFails(j)
      BY <3>3 DEF PrepareFails
    <3>4. CASE Complete(j)
      BY <3>4 DEF Complete
    <3>5. CASE CancelInPrep(j)
      BY <3>5 DEF CancelInPrep
    <3>6. CASE Drained(j)
      BY <3>6 DEF Drained
    <3> QED
      BY <3>1, <3>2, <3>3, <3>4, <3>5, <3>6 DEF TaskStep
  <2> QED
    BY <2>1, <2>3
<1>3. Live' \subseteq Live
  BY <1>2 DEF Live
<1>4. LiveIsUndecided'
  BY <1>2, <1>3 DEF LiveIsUndecided, Live
<1>5. CancelIsFinal'
  <2>1. ASSUME NEW k \in Jobs, cancelReq[k]
        PROVE  /\ obj'[k] \notin {"completed", "failed"}
               /\ row'[k] \notin {"completed", "failed"}
               /\ registry'[k] \notin {"completed", "failed"}
    <3>1. /\ obj[k] \notin {"completed", "failed"}
          /\ row[k] \notin {"completed", "failed"}
          /\ registry[k] \notin {"completed", "failed"}
      BY <2>1 DEF CancelIsFinal, Seen
    <3> QED
      BY <1>2, <2>1, <3>1
  <2> QED
    BY <2>1, <1>2 DEF CancelIsFinal, Seen
<1>6. OwnedIsOnRecord'
  BY <1>2 DEF OwnedIsOnRecord
<1>7. ClosingOwnsNothing'
  BY <1>2, <1>3 DEF ClosingOwnsNothing, Owned
<1>8. Unborn'
  <2>1. UNCHANGED submitted
    BY DEF TaskStep, TaskStart, PrepareDone, PrepareFails, Complete, CancelInPrep, Unwind,
           Drained, HostError, Escape, Settle, Goes
  <2>2. row[j] # "none" /\ j \in Jobs
    BY <1>2 DEF IInv, LiveIsOnRecord, Active
  <2> QED
    BY <1>2, <2>1, <2>2 DEF Unborn
<1> QED
  BY <1>4, <1>5, <1>6, <1>7, <1>8

LEMMA CancelKeepsCancelInv ==
  ASSUME CInv, IInv', NEW j \in Jobs, Cancel(j)
  PROVE  CInv'
<1> USE DEF CInv
<1>1. /\ UNCHANGED <<phase, submitted, row, obj, task, registry, cut>>
      /\ cancelReq' = [cancelReq EXCEPT ![j] = TRUE]
      /\ j \in Live /\ registry[j] = "live" /\ obj[j] \in Active
  BY DEF Cancel, Cancellable, Live, store
<1>2. row[j] \in Active
  BY <1>1 DEF IInv, LiveIsOnRecord
<1>3. CancelIsFinal'
  BY <1>1, <1>2 DEF CancelIsFinal, Seen, Active, IInv, TypeOK
<1> QED
  BY <1>1, <1>3
  DEF Unborn, LiveIsUndecided, OwnedIsOnRecord, ClosingOwnsNothing, Live, Owned

LEMMA ShutdownKeepsCancelInv ==
  ASSUME CInv, IInv', ShutdownBegin \/ ShutdownEnd
  PROVE  CInv'
<1> USE DEF CInv
<1>1. /\ UNCHANGED <<submitted, row, obj, task, registry, cut>>
      /\ \A j \in Jobs : cancelReq'[j] => cancelReq[j] \/ j \in Live
      /\ phase' = "closing" => Owned = {}
  BY DEF ShutdownBegin, ShutdownEnd, Owned, store
<1>2. CancelIsFinal'
  <2>1. ASSUME NEW j \in Live
        PROVE  /\ obj[j] \notin {"completed", "failed"}
               /\ row[j] \notin {"completed", "failed"}
               /\ registry[j] \notin {"completed", "failed"}
    BY DEF LiveIsUndecided, IInv, LiveIsOnRecord, Active, Terminal
  <2> QED
    BY <1>1, <2>1 DEF CancelIsFinal, Seen
<1> QED
  BY <1>1, <1>2
  DEF Unborn, LiveIsUndecided, OwnedIsOnRecord, ClosingOwnsNothing, Live, Owned

LEMMA EndKeepsCancelInv ==
  ASSUME CInv, IInv', Exit \/ Kill
  PROVE  CInv'
<1> USE DEF CInv
<1>1. ProcessEnds
  BY DEF Exit, Kill
<1>2. Unborn'
  BY <1>1 DEF ProcessEnds, Unborn
<1> QED
  BY <1>1, <1>2
  DEF ProcessEnds, LiveIsUndecided, CancelIsFinal, OwnedIsOnRecord, ClosingOwnsNothing,
      Live, Running

LEMMA StepKeepsCancelInv == CInv /\ [Next]_vars => CInv'
<1> SUFFICES ASSUME CInv, [Next]_vars PROVE CInv'
  OBVIOUS
<1>1. IInv'
  BY StepInv DEF CInv
<1>2. CASE UNCHANGED vars
  BY <1>1, <1>2
  DEF vars, CInv, Unborn, LiveIsUndecided, CancelIsFinal, OwnedIsOnRecord, ClosingOwnsNothing,
      Live, Owned, Seen
<1> QED
  BY <1>1, <1>2, SubmitsKeepCancelInv, EvictionKeepsCancelInv, ReloadKeepsCancelInv,
     TaskKeepsCancelInv, CancelKeepsCancelInv, ShutdownKeepsCancelInv, EndKeepsCancelInv
  DEF Next

LEMMA CancelInductive == Spec => []CInv
  BY InitCancelInv, StepKeepsCancelInv, PTL DEF Spec

---------------------------------------------------------------------------
(* Theorems. *)

(* Safety: once a cancellation was accepted, or thrown by a shutdown, no   *)
(* object, row or registry entry ever says completed or failed, however    *)
(* requests, evictions, faults and process ends fall (api/services.py,     *)
(* cancel and _run).                                                       *)
THEOREM CancellationIsFinal == Spec => []CancelIsFinal
<1>1. CInv => CancelIsFinal
  BY DEF CInv
<1> QED
  BY <1>1, CancelInductive, PTL

(* Safety: when the store is closed, each job the registry owns has its    *)
(* verdict on record or was cut short by a fault (api/services.py,         *)
(* shutdown).                                                              *)
THEOREM ShutdownIsOrderly == Spec => []ShutdownSettles
<1>1. CInv => ShutdownSettles
  <2> SUFFICES ASSUME CInv, phase = "closing", NEW j \in Jobs, registry[j] = "live"
               PROVE  row[j] \in Terminal \/ j \in cut
    BY DEF ShutdownSettles
  <2>1. j \notin Live
    BY DEF CInv, ClosingOwnsNothing, Owned
  <2>2. row[j] \in Active => j \in cut
    BY <2>1 DEF CInv, IInv, RecordsAreBacked, ActiveRows
  <2>3. row[j] # "none" \/ j \in cut
    BY DEF CInv, OwnedIsOnRecord
  <2> QED
    BY <2>2, <2>3 DEF CInv, IInv, TypeOK, Status
<1> QED
  BY <1>1, CancelInductive, PTL

---------------------------------------------------------------------------
(* What a step does to the rows of the store. *)

(* A step of a task writes the row of its job, which is active, and with   *)
(* no older status than the row has.                                       *)
LEMMA TaskMovesForward ==
  ASSUME CInv, NEW j \in Jobs, TaskStep(j)
  PROVE  /\ row[j] \in Active
         /\ \A k \in Jobs \ {j} : row'[k] = row[k]
         /\ row'[j] \in {row[j], "running"} \union Terminal
<1>1. TypeOK
  BY DEF CInv, IInv
<1>2. j \in Live /\ \A k \in Jobs \ {j} : row'[k] = row[k]
  BY <1>1, TaskStepEffect DEF TypeOK
<1>3. row[j] \in Active
  BY <1>2 DEF CInv, IInv, LiveIsOnRecord
<1>4. row'[j] \in {row[j], "running"} \union Terminal
  <2> USE <1>1 DEF TypeOK, Settle, Save, SaveFails, Terminal
  <2>1. CASE TaskStart(j)
    BY <2>1 DEF TaskStart
  <2>2. CASE PrepareDone(j) \/ Unwind(j) \/ HostError(j) \/ Escape(j)
    BY <2>2 DEF PrepareDone, Unwind, HostError, Escape
  <2>3. CASE PrepareFails(j)
    BY <2>3 DEF PrepareFails
  <2>4. CASE Complete(j)
    BY <2>4 DEF Complete
  <2>5. CASE CancelInPrep(j)
    BY <2>5 DEF CancelInPrep
  <2>6. CASE Drained(j)
    BY <2>6 DEF Drained
  <2> QED
    BY <2>1, <2>2, <2>3, <2>4, <2>5, <2>6 DEF TaskStep
<1> QED
  BY <1>2, <1>3, <1>4

(* A submission evicts, and may write the row of a job the store never had.*)
LEMMA SubmissionRows ==
  ASSUME CInv, (\E j \in Jobs : Submit(j) \/ SubmitUnsaved(j)) \/ SubmitBusy
  PROVE  \A k \in Jobs :
           \/ row'[k] = KeptRow[k]
           \/ k > submitted /\ row[k] = "none" /\ row'[k] = "pending"
<1>1. TypeOK /\ Unborn /\ KeptRow \in [Jobs -> Status \union {"none"}]
  BY EvictionSparesActive DEF CInv, IInv
<1>2. ASSUME NEW j \in Jobs, Submit(j) \/ SubmitUnsaved(j), NEW k \in Jobs
      PROVE  \/ row'[k] = KeptRow[k]
             \/ k > submitted /\ row[k] = "none" /\ row'[k] = "pending"
  <2>1. /\ j > submitted
        /\ row' = [KeptRow EXCEPT ![j] = "pending"] \/ row' = KeptRow
    BY <1>1, <1>2 DEF Submit, SubmitUnsaved, Create, TypeOK, Jobs
  <2>2. row[j] = "none"
    BY <1>1, <2>1 DEF Unborn
  <2> QED
    BY <1>1, <2>1, <2>2
<1> QED
  BY <1>2 DEF SubmitBusy

(* Everything else leaves the rows alone, or takes the memory store's.     *)
LEMMA OtherRows ==
  ASSUME [Next]_vars, ~ SubmitBusy,
         \A j \in Jobs : ~ (Submit(j) \/ SubmitUnsaved(j) \/ TaskStep(j))
  PROVE  \/ row' = row
         \/ /\ phase' = "down"
            /\ row' = IF Persistent THEN row ELSE [j \in Jobs |-> "none"]
  BY DEF Next, vars, store, Cancel, List, ShutdownBegin, ShutdownEnd, Exit, Kill, Boot,
         ProcessEnds

LEMMA EvictedWasFinished ==
  ASSUME CInv, NEW k \in Jobs
  PROVE  KeptRow[k] = row[k] \/ (row[k] \in Terminal /\ KeptRow[k] = "none")
<1>1. Surplus \subseteq Finished
  BY DEF Surplus
<1> QED
  BY <1>1 DEF KeptRow, Finished

LEMMA StepMovesForward ==
  ASSUME CInv, [Next]_vars, NEW k \in Jobs
  PROVE  \/ row'[k] = row[k]
         \/ row[k] = "none" /\ row'[k] = "pending" /\ k > submitted
         \/ row[k] = "pending" /\ row'[k] = "running"
         \/ row[k] \in Active /\ row'[k] \in Terminal
         \/ row[k] \in Terminal /\ row'[k] = "none"
         \/ row'[k] = "none" /\ phase' = "down"
<1>1. CASE (\E j \in Jobs : Submit(j) \/ SubmitUnsaved(j)) \/ SubmitBusy
  BY <1>1, SubmissionRows, EvictedWasFinished
<1>2. CASE \E j \in Jobs : TaskStep(j)
  <2>1. PICK j \in Jobs : TaskStep(j)
    BY <1>2
  <2>2. CASE k = j
    <3>1. row[k] \in Active /\ row'[k] \in {row[k], "running"} \union Terminal
      BY <2>1, <2>2, TaskMovesForward
    <3> QED
      BY <3>1 DEF Active
  <2>3. CASE k # j
    BY <2>1, <2>3, TaskMovesForward
  <2> QED
    BY <2>2, <2>3
<1>3. CASE ~ SubmitBusy /\ \A j \in Jobs : ~ (Submit(j) \/ SubmitUnsaved(j) \/ TaskStep(j))
  BY <1>3, OtherRows
<1> QED
  BY <1>1, <1>2, <1>3

(* What the memory store evicts is older than every finished job it keeps. *)
LEMMA SurplusIsOldest ==
  ASSUME ~ Persistent, NEW old \in Finished, NEW new \in Surplus, old < new
  PROVE  old \in Surplus
<1> DEFINE Younger(j) == {k \in Finished : k > j}
<1>1. new \in Finished /\ Cardinality(Younger(new)) >= HistorySize
  BY DEF Surplus
<1>2. old \in Jobs /\ new \in Jobs /\ Finished \subseteq Jobs
  BY <1>1 DEF Finished
<1>3. ASSUME NEW k \in Younger(new) PROVE k \in Younger(old)
  <2>1. k \in Nat /\ old \in Nat /\ new \in Nat /\ k > new
    BY <1>2, BoundAssumption DEF Jobs
  <2> QED
    BY <2>1
<1>4. IsFiniteSet(Younger(old))
  <2>1. IsFiniteSet(Jobs)
    BY FS_Interval, BoundAssumption DEF Jobs
  <2> QED
    BY <1>2, <2>1, FS_Subset
<1> HIDE DEF Younger
<1>5. /\ Cardinality(Younger(new)) <= Cardinality(Younger(old))
      /\ Cardinality(Younger(new)) \in Nat /\ Cardinality(Younger(old)) \in Nat
  BY <1>3, <1>4, FS_Subset, FS_CardinalityType
<1>6. Cardinality(Younger(old)) >= HistorySize
  BY <1>1, <1>5, LimitAssumption
<1> QED
  BY <1>6 DEF Surplus, Younger

LEMMA StepEvictsOldest ==
  ASSUME ~ Persistent, CInv, [Next]_vars,
         NEW old \in Finished, NEW new \in Finished, old < new, row'[new] = "none"
  PROVE  row'[old] = "none"
<1>1. /\ old \in Jobs /\ row[old] \in Terminal /\ new \in Jobs /\ row[new] \in Terminal
      /\ "none" \notin Terminal /\ Terminal \cap Active = {}
  BY DEF Finished, Terminal, Active
<1>2. CASE (\E j \in Jobs : Submit(j) \/ SubmitUnsaved(j)) \/ SubmitBusy
  <2>1. row'[old] = KeptRow[old] /\ row'[new] = KeptRow[new]
    BY <1>1, <1>2, SubmissionRows
  <2>2. new \in Surplus
    BY <1>1, <2>1 DEF KeptRow
  <2>3. old \in Surplus
    BY <2>2, SurplusIsOldest
  <2> QED
    BY <1>1, <2>1, <2>3 DEF KeptRow
<1>3. CASE \E j \in Jobs : TaskStep(j)
  BY <1>1, <1>3, TaskMovesForward
<1>4. CASE ~ SubmitBusy /\ \A j \in Jobs : ~ (Submit(j) \/ SubmitUnsaved(j) \/ TaskStep(j))
  BY <1>1, <1>4, OtherRows
<1> QED
  BY <1>2, <1>3, <1>4

(* Action property: over both stores, and whatever faults and process ends *)
(* fall between, a record starts as pending, a status never moves back, a  *)
(* verdict never changes (api/services.py, api/storage.py).                *)
THEOREM RecordsMoveForward == Spec => RecordMovesForward
<1>1. CInv /\ [Next]_vars =>
        [\A j \in Jobs :
           \/ row'[j] = row[j]
           \/ row[j] = "none" /\ row'[j] = "pending" /\ j > submitted
           \/ row[j] = "pending" /\ row'[j] = "running"
           \/ row[j] \in Active /\ row'[j] \in Terminal
           \/ row[j] \in Terminal /\ row'[j] = "none"
           \/ row'[j] = "none" /\ phase' = "down"]_vars
  BY StepMovesForward
<1> QED
  BY <1>1, CancelInductive, PTL DEF Spec, RecordMovesForward

(* Action property: the memory store never evicts a finished job while it  *)
(* keeps an older one (api/storage.py, InMemoryScanStorage.delete_old).    *)
THEOREM MemoryEvictsOldestFirst ==
  ASSUME ~ Persistent
  PROVE  Spec => EvictsOldestFirst
<1>1. CInv /\ [Next]_vars =>
        [\A old, new \in Finished :
           old < new /\ row'[new] = "none" => row'[old] = "none"]_vars
  BY StepEvictsOldest
<1> QED
  BY <1>1, CancelInductive, PTL DEF Spec, EvictsOldestFirst

=============================================================================
