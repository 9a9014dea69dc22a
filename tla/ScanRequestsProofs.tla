-------------------------- MODULE ScanRequestsProofs --------------------------
(***************************************************************************)
(* Proofs about ScanRequests for any number of scans and of submissions    *)
(* that are served at a time.                                              *)
(***************************************************************************)
EXTENDS ScanRequests, FiniteSetTheorems, TLAPS

States     == InProgress \cup FinishedWell \cup {"NONE", "CANCELED", "FAILED"}
TaskStates == Unfinished \cup {"NONE", "CLOSED", "FAILED", "CANCELED"}
Calls      == {"none", "scanning", "report", "wait", "close"}

Rows == [state : States, enabled : BOOLEAN, parent : 0 .. MaxScans]

Submissions ==
  {Nothing}
    \cup [step : {"create"}]
    \cup [step : {"bind", "free", "child", "queue"}, s : Scans]
    \cup [step : {"link"}, s : Scans, child : Scans, row : Rows]

Finishes == {Nothing} \cup [step : {"unpack", "load", "verdict"}, scan : Rows, task : {"OPEN"}]

Creators == {u \in Slots : sub[u].step = "create"}

(* There is a row left for every submission that is to create one.         *)
TypeOK ==
  /\ created \in 0 .. MaxScans
  /\ created + Cardinality(Creators) <= MaxScans
  /\ scan \in [Scans -> Rows]
  /\ bound \subseteq Scans
  /\ task \in [Scans -> TaskStates]
  /\ pc \in [Scans -> Calls]
  /\ sub \in [Slots -> Submissions]
  /\ fin \in [Scans -> Finishes]

Serves(u, s) == sub[u].step \in {"bind", "free", "child", "link", "queue"} /\ sub[u].s = s

(* Its worker has not started to scan it.                                  *)
Fresh(s) == task[s] \in {"CREATED", "FREE"} \/ (task[s] = "OPEN" /\ pc[s] = "scanning")

(* What belongs to a row when its submission has come so far.              *)
NewRow(s) ==
  s > created =>
    scan[s].state = "NONE" /\ s \notin bound /\ \A u \in Slots : ~Serves(u, s)

UnboundRow(s) ==
  s \notin bound =>
    /\ task[s] = "NONE" /\ pc[s] = "none" /\ fin[s] = Nothing
    /\ scan[s].state \in {"NONE", "INIT"}
    /\ s <= created => /\ scan[s].state = "INIT"
                       /\ \E u \in Slots : sub[u].step = "bind" /\ sub[u].s = s

ServedRow(u) ==
  /\ sub[u].step = "bind" => sub[u].s \notin bound
  /\ sub[u].step \in {"free", "child", "link", "queue"} => sub[u].s \in bound

OneSlot == \A u, v \in Slots, s \in Scans : Serves(u, s) /\ Serves(v, s) => u = v

RowInv ==
  /\ \A s \in Scans : NewRow(s) /\ UnboundRow(s)
  /\ \A u \in Slots : ServedRow(u)
  /\ OneSlot

ProcessOf(s) ==
  /\ task[s] \in {"CREATED", "FREE"} => pc[s] = "none" /\ fin[s] = Nothing
  /\ pc[s] \in {"scanning", "report", "close"} => fin[s] = Nothing
  /\ s \in bound /\ Fresh(s) => scan[s].state \in InProgress

ProcessInv == \A s \in Scans : ProcessOf(s)

(* The copy that a submission holds of the last scan is not in progress,   *)
(* and that scan will not be.                                              *)
LinkInv ==
  \A u \in Slots : sub[u].step = "link" =>
    /\ sub[u].child \in bound /\ ~Fresh(sub[u].child)
    /\ sub[u].row.state \in FinishedWell

(* Without two submissions at once only the newest row is in progress.     *)
NewestInv ==
  <<"submit", "submit">> \notin overlaps =>
    /\ \A u, v \in Submitting : u = v
    /\ \A u \in Slots, s \in Scans : Serves(u, s) => s = created
    /\ \A s \in Scans : s # created => scan[s].state \notin InProgress
    /\ Creators # {} => \A s \in Scans : scan[s].state \notin InProgress

(* Nothing happened to a scan whose submission was not done.               *)
Undisturbed == \A k \in {"submit", "cancel", "scanning"} : <<k, "submit">> \notin overlaps

TaskOf(s) ==
  /\ s \in bound /\ scan[s].state \in InProgress => task[s] \in Unfinished
  /\ s \in bound /\ (\E u \in Slots : Serves(u, s)) =>
       task[s] \in Unfinished /\ pc[s] \in {"none", "scanning"}
  /\ pc[s] = "close" => scan[s].state \notin InProgress

TaskInv == Undisturbed => \A s \in Scans : TaskOf(s)

(* Nobody canceled a task that finish_scan holds.                          *)
Uncanceled == \A k \in {"submit", "cancel"} : <<k, "finish">> \notin overlaps

OpenOf(s) ==
  /\ task[s] = "OPEN" => pc[s] # "none"
  /\ fin[s] # Nothing => task[s] = "OPEN" /\ pc[s] = "wait"

OpenInv == Uncanceled => \A s \in Scans : OpenOf(s)

IInv ==
  TypeOK /\ RowInv /\ ProcessInv /\ LinkInv /\ NewestInv /\ TaskInv /\ OpenInv

USE BoundsAssumption, SlotsAssumption, VerdictsAssumption
USE DEF Scans, NoScan, InProgress, FinishedWell, Unfinished

-----------------------------------------------------------------------------
(* Operators.                                                              *)

LEMMA DeadRows ==
  ASSUME TypeOK, NEW D \in SUBSET Scans, NEW st \in {"CANCELED", "FAILED"}
  PROVE  /\ Dead(D, st) \in [Scans -> Rows]
         /\ \A s \in Scans : Dead(D, st)[s].state = IF s \in D THEN st ELSE scan[s].state
<1> DEFINE off == [s \in Scans |-> IF s \in D
                                   THEN [scan[s] EXCEPT !.state = st, !.enabled = FALSE]
                                   ELSE scan[s]]
           found == {s \in {EndOfWalk(off)[d] : d \in D} : off[s].state \in FinishedWell}
<1>1. Dead(D, st) = [s \in Scans |-> IF s \in found THEN [off[s] EXCEPT !.enabled = TRUE]
                                                   ELSE off[s]]
  BY DEF Dead
<1>2. off \in [Scans -> Rows]
  BY DEF TypeOK, Rows, States
<1>3. \A s \in Scans : off[s].state = IF s \in D THEN st ELSE scan[s].state
  BY DEF TypeOK, Rows
<1> HIDE DEF off, found
<1> QED BY <1>1, <1>2, <1>3 DEF Rows

LEMMA CanceledTasks ==
  ASSUME TypeOK, NEW D \in SUBSET Scans
  PROVE  /\ Canceled(D) \in [Scans -> TaskStates]
         /\ \A s \in Scans : Canceled(D)[s] =
              IF s \in D /\ task[s] \in Unfinished THEN "CANCELED" ELSE task[s]
  BY DEF TypeOK, Canceled, TaskStates

LEMMA ObsoleteCanceled ==
  ASSUME TypeOK
  PROVE  /\ Dead(Obsolete, "CANCELED") \in [Scans -> Rows]
         /\ \A s \in Scans : Dead(Obsolete, "CANCELED")[s].state =
              IF s \in Obsolete THEN "CANCELED" ELSE scan[s].state
         /\ Canceled(Obsolete) \in [Scans -> TaskStates]
         /\ \A s \in Scans : Canceled(Obsolete)[s] =
              IF s \in Obsolete /\ task[s] \in Unfinished THEN "CANCELED" ELSE task[s]
<1>1. PICK D \in SUBSET Scans : D = Obsolete
  BY DEF Obsolete, TypeOK
<1> QED BY <1>1, DeadRows, CanceledTasks

LEMMA MeetsOverlaps ==
  ASSUME NEW by, Meets(by)
  PROVE  /\ overlaps \subseteq overlaps'
         /\ Submitting # {} => <<by, "submit">> \in overlaps'
         /\ Finishing # {} => <<by, "finish">> \in overlaps'
  BY DEF Meets, Overlap

LEMMA FiniteCreators == IsFiniteSet(Creators) /\ Cardinality(Creators) \in Nat
  BY FS_Subset, FS_CardinalityType DEF Creators

LEMMA DeadOne ==
  ASSUME TypeOK, NEW s \in Scans, NEW st \in {"CANCELED", "FAILED"}
  PROVE  /\ Dead({s}, st) \in [Scans -> Rows]
         /\ Dead({s}, st)[s].state = st
         /\ \A t \in Scans \ {s} : Dead({s}, st)[t].state = scan[t].state
  BY DeadRows

LEMMA CanceledOne ==
  ASSUME TypeOK, NEW s \in Scans, task[s] \in Unfinished
  PROVE  /\ Canceled({s}) \in [Scans -> TaskStates]
         /\ Canceled({s})[s] = "CANCELED"
         /\ \A t \in Scans \ {s} : Canceled({s})[t] = task[t]
  BY CanceledTasks

LEMMA SubmissionFields ==
  ASSUME TypeOK, NEW u \in Slots
  PROVE  /\ sub[u].step \in {"none", "create", "bind", "free", "child", "queue", "link"}
         /\ sub[u].step = "none" <=> sub[u] = Nothing
         /\ \A s : Serves(u, s) => s \in Scans
         /\ sub[u].step \in {"bind", "free", "child", "queue", "link"} => Serves(u, sub[u].s)
         /\ sub[u].step = "link" => sub[u].child \in Scans /\ sub[u].row \in Rows
  BY DEF TypeOK, Submissions, Nothing, Serves

LEMMA FinishFields ==
  ASSUME TypeOK, NEW s \in Scans
  PROVE  /\ fin[s].step \in {"none", "unpack", "load", "verdict"}
         /\ fin[s].step = "none" <=> fin[s] = Nothing
         /\ fin[s] # Nothing => fin[s].scan \in Rows /\ fin[s].task = "OPEN"
  BY DEF TypeOK, Finishes, Nothing

-----------------------------------------------------------------------------
(* The worker and finish_scan.                                             *)

Same(t) ==
  /\ scan'[t].state = scan[t].state
  /\ task'[t] = task[t] /\ pc'[t] = pc[t] /\ fin'[t] = fin[t]

(* A step about one scan, which is not a step of a submission.             *)
LEMMA OneScan ==
  ASSUME IInv, NEW s \in bound, TypeOK', UNCHANGED <<created, bound, sub>>,
         \A t \in Scans \ {s} : Same(t),
         Fresh(s)' => Fresh(s),
         scan'[s].state \in InProgress => scan[s].state \in InProgress,
         overlaps \subseteq overlaps',
         ProcessOf(s)', Undisturbed' => TaskOf(s)', Uncanceled' => OpenOf(s)'
  PROVE  IInv'
<1> USE DEF IInv, Same
<1>0. s \in Scans
  BY DEF TypeOK
<1>1. RowInv'
  BY <1>0 DEF RowInv, NewRow, UnboundRow, ServedRow, OneSlot, Serves
<1>2. ProcessInv'
  BY DEF ProcessInv, ProcessOf, Fresh
<1>3. LinkInv'
  BY SubmissionFields DEF LinkInv, Fresh
<1>4. NewestInv'
  BY <1>0 DEF NewestInv, Serves, Submitting, Creators
<1>5. TaskInv'
  BY DEF TaskInv, TaskOf, Undisturbed, Serves
<1>6. OpenInv'
  BY DEF OpenInv, OpenOf, Uncanceled
<1> QED BY <1>1, <1>2, <1>3, <1>4, <1>5, <1>6

LEMMA OpenTaskIInv ==
  ASSUME IInv, NEW s \in Scans, OpenTask(s)
  PROVE  IInv'
<1> USE DEF IInv, OpenTask, Goto, tables, history
<1>1. scan' \in [Scans -> Rows] /\ scan'[s] = scan[s]
  BY DEF TypeOK
<1>2. TypeOK'
  <2>1. UNCHANGED Creators
    BY DEF Creators
  <2> QED BY <1>1, <2>1 DEF TypeOK, TaskStates, Calls
<1>3. s \in bound
  BY FinishFields DEF RowInv, NewRow, UnboundRow, ServedRow, OneSlot, TypeOK
<1>4. UNCHANGED <<created, bound, sub>> /\ overlaps \subseteq overlaps'
  BY DEF Overlap
<1>5. \A t \in Scans \ {s} : Same(t)
  BY DEF Same, TypeOK
<1>6. (Fresh(s)' => Fresh(s)) /\ ProcessOf(s)'
  BY FinishFields, <1>1, <1>3 DEF ProcessInv, ProcessOf, Fresh, TypeOK
<1>7. scan'[s].state \in InProgress => scan[s].state \in InProgress
  BY <1>1, <1>3 DEF ProcessInv, ProcessOf, Fresh
<1>8. ASSUME Undisturbed' PROVE TaskOf(s)'
  <2>1. Undisturbed /\ TaskOf(s)
    BY <1>3, <1>4, <1>8 DEF Undisturbed, TaskInv, TypeOK
  <2> QED BY <2>1, <1>8, FinishFields, SubmissionFields, <1>1, <1>3
          DEF TaskOf, Undisturbed, ProcessInv, ProcessOf, Fresh, TypeOK, Serves
<1>9. ASSUME Uncanceled' PROVE OpenOf(s)'
  <2>1. Uncanceled /\ OpenOf(s)
    BY <1>3, <1>4, <1>9 DEF Uncanceled, OpenInv, TypeOK
  <2> QED BY <2>1, <1>9, FinishFields, <1>3
          DEF OpenOf, Uncanceled, Finishing, ProcessInv, ProcessOf, TypeOK, Nothing
<1> QED BY <1>2, <1>3, <1>4, <1>5, <1>6, <1>7, <1>8, <1>9, OneScan

LEMMA SetScanToScanningIInv ==
  ASSUME IInv, NEW s \in Scans, SetScanToScanning(s)
  PROVE  IInv'
<1> USE DEF IInv, SetScanToScanning, Goto, tables, history
<1>1. scan' \in [Scans -> Rows] /\ scan'[s].state = "SCANNING"
  BY DEF TypeOK, Rows, States
<1>2. TypeOK'
  <2>1. UNCHANGED Creators
    BY DEF Creators
  <2> QED BY <1>1, <2>1 DEF TypeOK, TaskStates, Calls
<1>3. s \in bound
  BY FinishFields DEF RowInv, NewRow, UnboundRow, ServedRow, OneSlot, TypeOK
<1>4. UNCHANGED <<created, bound, sub>> /\ overlaps \subseteq overlaps'
  BY DEF Overlap
<1>5. \A t \in Scans \ {s} : Same(t)
  BY DEF Same, TypeOK, Rows
<1>6. (Fresh(s)' => Fresh(s)) /\ ProcessOf(s)'
  BY FinishFields, <1>1, <1>3 DEF ProcessInv, ProcessOf, Fresh, TypeOK
<1>7. scan'[s].state \in InProgress => scan[s].state \in InProgress
  BY <1>1, <1>3 DEF ProcessInv, ProcessOf, Fresh
<1>8. ASSUME Undisturbed' PROVE TaskOf(s)'
  <2>1. Undisturbed /\ TaskOf(s)
    BY <1>3, <1>4, <1>8 DEF Undisturbed, TaskInv, TypeOK
  <2> QED BY <2>1, <1>8, FinishFields, SubmissionFields, <1>1, <1>3
          DEF TaskOf, Undisturbed, ProcessInv, ProcessOf, Fresh, TypeOK, Serves, Overlap, Submitting
<1>9. ASSUME Uncanceled' PROVE OpenOf(s)'
  <2>1. Uncanceled /\ OpenOf(s)
    BY <1>3, <1>4, <1>9 DEF Uncanceled, OpenInv, TypeOK
  <2> QED BY <2>1, <1>9, FinishFields, <1>3
          DEF OpenOf, Uncanceled, Finishing, ProcessInv, ProcessOf, TypeOK, Nothing
<1> QED BY <1>2, <1>3, <1>4, <1>5, <1>6, <1>7, <1>8, <1>9, OneScan

LEMMA StartFinishIInv ==
  ASSUME IInv, NEW s \in Scans, StartFinish(s)
  PROVE  IInv'
<1> USE DEF IInv, StartFinish, Goto, tables, history
<1>1. scan' \in [Scans -> Rows] /\ scan'[s] = scan[s]
  BY DEF TypeOK
<1>2. TypeOK'
  <2>1. UNCHANGED Creators
    BY DEF Creators
  <2>2. fin' \in [Scans -> Finishes]
    <3>1. [step |-> "unpack", scan |-> scan[s], task |-> "OPEN"] \in Finishes
      BY DEF TypeOK, Finishes
    <3>2. fin' = fin \/ fin' = [fin EXCEPT ![s] = [step |-> "unpack", scan |-> scan[s],
                                                 task |-> "OPEN"]]
      OBVIOUS
    <3> QED BY <3>1, <3>2 DEF TypeOK
  <2> QED BY <1>1, <2>1, <2>2 DEF TypeOK, TaskStates, Calls
<1>3. s \in bound
  BY FinishFields DEF RowInv, NewRow, UnboundRow, ServedRow, OneSlot, TypeOK
<1>4. UNCHANGED <<created, bound, sub>> /\ overlaps \subseteq overlaps'
  BY MeetsOverlaps DEF Overlap
<1>5. \A t \in Scans \ {s} : Same(t)
  BY DEF Same, TypeOK
<1>6. (Fresh(s)' => Fresh(s)) /\ ProcessOf(s)'
  BY FinishFields, <1>1, <1>3 DEF ProcessInv, ProcessOf, Fresh, TypeOK
<1>7. scan'[s].state \in InProgress => scan[s].state \in InProgress
  BY <1>1, <1>3 DEF ProcessInv, ProcessOf, Fresh
<1>8. ASSUME Undisturbed' PROVE TaskOf(s)'
  <2>1. Undisturbed /\ TaskOf(s)
    BY <1>3, <1>4, <1>8 DEF Undisturbed, TaskInv, TypeOK
  <2> QED BY <2>1, <1>8, FinishFields, SubmissionFields, MeetsOverlaps, <1>1, <1>3
          DEF TaskOf, Undisturbed, ProcessInv, ProcessOf, Fresh, TypeOK, Serves
<1>9. ASSUME Uncanceled' PROVE OpenOf(s)'
  <2>1. Uncanceled /\ OpenOf(s)
    BY <1>3, <1>4, <1>9 DEF Uncanceled, OpenInv, TypeOK
  <2> QED BY <2>1, <1>9, FinishFields, MeetsOverlaps, <1>3
          DEF OpenOf, Uncanceled, Finishing, ProcessInv, ProcessOf, TypeOK, Nothing
<1> QED BY <1>2, <1>3, <1>4, <1>5, <1>6, <1>7, <1>8, <1>9, OneScan

LEMMA UnpackIInv ==
  ASSUME IInv, NEW s \in Scans, Unpack(s)
  PROVE  IInv'
<1> USE DEF IInv, Unpack, Goto, tables, history
<1>1. scan' \in [Scans -> Rows] /\ scan'[s] = scan[s]
  BY DEF TypeOK
<1>2. TypeOK'
  <2>1. UNCHANGED Creators
    BY DEF Creators
  <2>2. fin' \in [Scans -> Finishes]
    BY FinishFields DEF TypeOK, Finishes, Nothing
  <2> QED BY FinishFields, <1>1, <2>1, <2>2 DEF TypeOK, TaskStates, Calls
<1>3. s \in bound
  BY FinishFields DEF RowInv, NewRow, UnboundRow, ServedRow, OneSlot, TypeOK
<1>4. UNCHANGED <<created, bound, sub>> /\ overlaps \subseteq overlaps'
  BY DEF Overlap
<1>5. \A t \in Scans \ {s} : Same(t)
  BY DEF Same, TypeOK
<1>6. (Fresh(s)' => Fresh(s)) /\ ProcessOf(s)'
  BY FinishFields, <1>1, <1>3 DEF ProcessInv, ProcessOf, Fresh, TypeOK
<1>7. scan'[s].state \in InProgress => scan[s].state \in InProgress
  BY <1>1, <1>3 DEF ProcessInv, ProcessOf, Fresh
<1>8. ASSUME Undisturbed' PROVE TaskOf(s)'
  <2>1. Undisturbed /\ TaskOf(s)
    BY <1>3, <1>4, <1>8 DEF Undisturbed, TaskInv, TypeOK
  <2> QED BY <2>1, <1>8, FinishFields, SubmissionFields, <1>1, <1>3
          DEF TaskOf, Undisturbed, ProcessInv, ProcessOf, Fresh, TypeOK, Serves
<1>9. ASSUME Uncanceled' PROVE OpenOf(s)'
  <2>1. Uncanceled /\ OpenOf(s)
    BY <1>3, <1>4, <1>9 DEF Uncanceled, OpenInv, TypeOK
  <2> QED BY <2>1, <1>9, FinishFields, <1>3
          DEF OpenOf, Uncanceled, Finishing, ProcessInv, ProcessOf, TypeOK, Nothing
<1> QED BY <1>2, <1>3, <1>4, <1>5, <1>6, <1>7, <1>8, <1>9, OneScan

LEMMA LoadResultIInv ==
  ASSUME IInv, NEW s \in Scans, LoadResult(s)
  PROVE  IInv'
<1> USE DEF IInv, LoadResult, Goto, tables, history
<1>1. scan' \in [Scans -> Rows] /\ (scan'[s].state = "FAILED" \/ UNCHANGED <<scan, pc>>)
  <2>1. scan' = Dead({s}, "FAILED") \/ UNCHANGED <<scan, pc>>
    OBVIOUS
  <2> HIDE DEF LoadResult
  <2> QED BY <2>1, DeadOne DEF TypeOK
<1>2. TypeOK'
  <2>1. UNCHANGED Creators
    BY DEF Creators
  <2>2. fin' \in [Scans -> Finishes]
    <3>1. Nothing \in Finishes /\ [fin[s] EXCEPT !.step = "verdict"] \in Finishes
      BY FinishFields DEF TypeOK, Finishes
    <3> QED BY <3>1 DEF TypeOK
  <2> QED BY <1>1, <2>1, <2>2 DEF TypeOK, TaskStates, Calls
<1>3. s \in bound
  BY FinishFields DEF RowInv, NewRow, UnboundRow, ServedRow, OneSlot, TypeOK
<1>4. UNCHANGED <<created, bound, sub>> /\ overlaps \subseteq overlaps'
  BY DEF Overlap
<1>5. \A t \in Scans \ {s} : Same(t)
  <2>1. \A t \in Scans \ {s} : scan'[t].state = scan[t].state
    <3>1. scan' = scan \/ scan' = Dead({s}, "FAILED")
      OBVIOUS
    <3>2. CASE scan' = scan
      BY <3>2
    <3>3. CASE scan' = Dead({s}, "FAILED")
      BY <3>3, DeadOne
    <3> QED BY <3>1, <3>2, <3>3
  <2> QED BY <2>1 DEF Same, TypeOK
<1>6. (Fresh(s)' => Fresh(s)) /\ ProcessOf(s)'
  BY FinishFields, <1>1, <1>3 DEF ProcessInv, ProcessOf, Fresh, TypeOK
<1>7. scan'[s].state \in InProgress => scan[s].state \in InProgress
  BY <1>1, <1>3 DEF ProcessInv, ProcessOf, Fresh
<1>8. ASSUME Undisturbed' PROVE TaskOf(s)'
  <2>1. Undisturbed /\ TaskOf(s)
    BY <1>3, <1>4, <1>8 DEF Undisturbed, TaskInv, TypeOK
  <2>2. pc'[s] = pc[s] \/ pc'[s] \in {"none", "close"}
    BY DEF TypeOK
  <2>3. pc'[s] # pc[s] /\ pc'[s] = "close" => pc[s] = "wait"
    BY DEF TypeOK
  <2>4. UNCHANGED <<task, bound, sub>>
    OBVIOUS
  <2> HIDE DEF LoadResult
  <2> QED BY <2>1, <2>2, <2>3, <2>4, <1>1 DEF TaskOf, Serves
<1>9. ASSUME Uncanceled' PROVE OpenOf(s)'
  <2>1. Uncanceled /\ OpenOf(s)
    BY <1>3, <1>4, <1>9 DEF Uncanceled, OpenInv, TypeOK
  <2>2. task'[s] = "OPEN" /\ pc[s] = "wait"
    BY <2>1 DEF OpenOf, Nothing
  <2>3. \/ fin'[s] = Nothing /\ pc'[s] = "close"
        \/ pc'[s] = pc[s]
    BY <2>2 DEF TypeOK
  <2> QED BY <2>2, <2>3 DEF OpenOf
<1> QED BY <1>2, <1>3, <1>4, <1>5, <1>6, <1>7, <1>8, <1>9, OneScan

LEMMA SaveVerdictIInv ==
  ASSUME IInv, NEW s \in Scans, SaveVerdict(s)
  PROVE  IInv'
<1> USE DEF IInv, SaveVerdict, Goto, tables, history
<1>1. scan' \in [Scans -> Rows] /\ scan'[s].state \in Verdicts
  <2>1. PICK verdict \in Verdicts :
          scan' = [scan EXCEPT ![s] = [fin[s].scan EXCEPT !.state = verdict]]
    BY DEF SaveVerdict
  <2>2. fin[s].scan \in Rows
    BY FinishFields DEF SaveVerdict
  <2>3. [fin[s].scan EXCEPT !.state = verdict] \in Rows
    BY <2>2 DEF Rows, States
  <2>4. [fin[s].scan EXCEPT !.state = verdict].state = verdict
    BY <2>2 DEF Rows
  <2> QED BY <2>1, <2>3, <2>4 DEF TypeOK
<1>2. TypeOK'
  <2>1. UNCHANGED Creators
    BY DEF Creators
  <2>2. fin' \in [Scans -> Finishes]
    BY FinishFields DEF TypeOK, Finishes, Nothing
  <2> QED BY <1>1, <2>1, <2>2 DEF TypeOK, TaskStates, Calls
<1>3. s \in bound
  BY FinishFields DEF RowInv, NewRow, UnboundRow, ServedRow, OneSlot, TypeOK
<1>4. UNCHANGED <<created, bound, sub>> /\ overlaps \subseteq overlaps'
  BY DEF Overlap
<1>5. \A t \in Scans \ {s} : Same(t)
  BY DEF Same, TypeOK, Rows
<1>6. (Fresh(s)' => Fresh(s)) /\ ProcessOf(s)'
  BY FinishFields, <1>1, <1>3 DEF ProcessInv, ProcessOf, Fresh, TypeOK
<1>7. scan'[s].state \in InProgress => scan[s].state \in InProgress
  BY <1>1, <1>3 DEF ProcessInv, ProcessOf, Fresh
<1>8. ASSUME Undisturbed' PROVE TaskOf(s)'
  <2>1. Undisturbed /\ TaskOf(s)
    BY <1>3, <1>4, <1>8 DEF Undisturbed, TaskInv, TypeOK
  <2>2. (pc'[s] = "close" /\ pc[s] = "wait") \/ pc'[s] = "none"
    BY DEF TypeOK
  <2>3. UNCHANGED <<task, bound, sub>> /\ scan'[s].state \notin InProgress
    BY <1>1, VerdictsAssumption
  <2> HIDE DEF SaveVerdict
  <2> QED BY <2>1, <2>2, <2>3 DEF TaskOf, Serves
<1>9. ASSUME Uncanceled' PROVE OpenOf(s)'
  <2>1. Uncanceled /\ OpenOf(s)
    BY <1>3, <1>4, <1>9 DEF Uncanceled, OpenInv, TypeOK
  <2> QED BY <2>1, <1>9, FinishFields, <1>3
          DEF OpenOf, Uncanceled, Finishing, ProcessInv, ProcessOf, TypeOK, Nothing
<1> QED BY <1>2, <1>3, <1>4, <1>5, <1>6, <1>7, <1>8, <1>9, OneScan

LEMMA CloseTaskIInv ==
  ASSUME IInv, NEW s \in Scans, CloseTask(s)
  PROVE  IInv'
<1> USE DEF IInv, CloseTask, Goto, tables, history
<1>1. scan' \in [Scans -> Rows] /\ scan'[s] = scan[s]
  BY DEF TypeOK
<1>2. TypeOK'
  <2>1. UNCHANGED Creators
    BY DEF Creators
  <2> QED BY <1>1, <2>1 DEF TypeOK, TaskStates, Calls
<1>3. s \in bound
  BY FinishFields DEF RowInv, NewRow, UnboundRow, ServedRow, OneSlot, TypeOK
<1>4. UNCHANGED <<created, bound, sub>> /\ overlaps \subseteq overlaps'
  BY DEF Overlap
<1>5. \A t \in Scans \ {s} : Same(t)
  BY DEF Same, TypeOK
<1>6. (Fresh(s)' => Fresh(s)) /\ ProcessOf(s)'
  BY FinishFields, <1>1, <1>3 DEF ProcessInv, ProcessOf, Fresh, TypeOK
<1>7. scan'[s].state \in InProgress => scan[s].state \in InProgress
  BY <1>1, <1>3 DEF ProcessInv, ProcessOf, Fresh
<1>8. ASSUME Undisturbed' PROVE TaskOf(s)'
  <2>1. Undisturbed /\ TaskOf(s)
    BY <1>3, <1>4, <1>8 DEF Undisturbed, TaskInv, TypeOK
  <2> QED BY <2>1, <1>8, FinishFields, SubmissionFields, <1>1, <1>3
          DEF TaskOf, Undisturbed, ProcessInv, ProcessOf, Fresh, TypeOK, Serves
<1>9. ASSUME Uncanceled' PROVE OpenOf(s)'
  <2>1. Uncanceled /\ OpenOf(s)
    BY <1>3, <1>4, <1>9 DEF Uncanceled, OpenInv, TypeOK
  <2> QED BY <2>1, <1>9, FinishFields, <1>3
          DEF OpenOf, Uncanceled, Finishing, ProcessInv, ProcessOf, TypeOK, Nothing
<1> QED BY <1>2, <1>3, <1>4, <1>5, <1>6, <1>7, <1>8, <1>9, OneScan

LEMMA FailTaskIInv ==
  ASSUME IInv, NEW s \in Scans, FailTask(s)
  PROVE  IInv'
<1> USE DEF IInv, FailTask, Goto, tables, history
<1>1. scan' \in [Scans -> Rows] /\ scan'[s].state = "FAILED"
  BY DeadOne DEF TypeOK
<1>2. TypeOK'
  <2>1. UNCHANGED Creators
    BY DEF Creators
  <2> QED BY <1>1, <2>1 DEF TypeOK, TaskStates, Calls
<1>3. s \in bound
  BY FinishFields DEF RowInv, NewRow, UnboundRow, ServedRow, OneSlot, TypeOK
<1>4. UNCHANGED <<created, bound, sub>> /\ overlaps \subseteq overlaps'
  BY MeetsOverlaps DEF Overlap
<1>5. \A t \in Scans \ {s} : Same(t)
  BY DeadOne DEF Same, TypeOK
<1>6. (Fresh(s)' => Fresh(s)) /\ ProcessOf(s)'
  BY FinishFields, <1>1, <1>3 DEF ProcessInv, ProcessOf, Fresh, TypeOK
<1>7. scan'[s].state \in InProgress => scan[s].state \in InProgress
  BY <1>1, <1>3 DEF ProcessInv, ProcessOf, Fresh
<1>8. ASSUME Undisturbed' PROVE TaskOf(s)'
  <2>1. Undisturbed /\ TaskOf(s)
    BY <1>3, <1>4, <1>8 DEF Undisturbed, TaskInv, TypeOK
  <2> QED BY <2>1, <1>8, FinishFields, SubmissionFields, MeetsOverlaps, <1>1, <1>3
          DEF TaskOf, Undisturbed, ProcessInv, ProcessOf, Fresh, TypeOK, Serves
<1>9. ASSUME Uncanceled' PROVE OpenOf(s)'
  <2>1. Uncanceled /\ OpenOf(s)
    BY <1>3, <1>4, <1>9 DEF Uncanceled, OpenInv, TypeOK
  <2> QED BY <2>1, <1>9, FinishFields, MeetsOverlaps, <1>3
          DEF OpenOf, Uncanceled, Finishing, ProcessInv, ProcessOf, TypeOK, Nothing
<1> QED BY <1>2, <1>3, <1>4, <1>5, <1>6, <1>7, <1>8, <1>9, OneScan

LEMMA KillIInv ==
  ASSUME IInv, NEW s \in Scans, Kill(s)
  PROVE  IInv'
<1> USE DEF IInv, Kill, Goto, tables, history
<1>1. scan' \in [Scans -> Rows] /\ scan'[s] = scan[s]
  BY DEF TypeOK
<1>2. TypeOK'
  <2>1. UNCHANGED Creators
    BY DEF Creators
  <2> QED BY <1>1, <2>1 DEF TypeOK, TaskStates, Calls
<1>3. s \in bound
  BY FinishFields DEF RowInv, NewRow, UnboundRow, ServedRow, OneSlot, TypeOK
<1>4. UNCHANGED <<created, bound, sub>> /\ overlaps \subseteq overlaps'
  BY DEF Overlap
<1>5. \A t \in Scans \ {s} : Same(t)
  BY DEF Same, TypeOK
<1>6. (Fresh(s)' => Fresh(s)) /\ ProcessOf(s)'
  BY FinishFields, <1>1, <1>3 DEF ProcessInv, ProcessOf, Fresh, TypeOK
<1>7. scan'[s].state \in InProgress => scan[s].state \in InProgress
  BY <1>1, <1>3 DEF ProcessInv, ProcessOf, Fresh
<1>8. ASSUME Undisturbed' PROVE TaskOf(s)'
  <2>1. Undisturbed /\ TaskOf(s)
    BY <1>3, <1>4, <1>8 DEF Undisturbed, TaskInv, TypeOK
  <2> QED BY <2>1, <1>8, FinishFields, SubmissionFields, <1>1, <1>3
          DEF TaskOf, Undisturbed, ProcessInv, ProcessOf, Fresh, TypeOK, Serves
<1>9. ASSUME Uncanceled' PROVE OpenOf(s)'
  <2>1. Uncanceled /\ OpenOf(s)
    BY <1>3, <1>4, <1>9 DEF Uncanceled, OpenInv, TypeOK
  <2> QED BY <2>1, <1>9, FinishFields, <1>3
          DEF OpenOf, Uncanceled, Finishing, ProcessInv, ProcessOf, TypeOK, Nothing
<1> QED BY <1>2, <1>3, <1>4, <1>5, <1>6, <1>7, <1>8, <1>9, OneScan

LEMMA CancelTaskIInv ==
  ASSUME IInv, NEW s \in Scans, CancelTask(s)
  PROVE  IInv'
<1> USE DEF IInv, CancelTask, Goto, tables, history
<1>1. scan' \in [Scans -> Rows] /\ scan'[s].state = "CANCELED"
  BY DeadOne DEF TypeOK
<1>2. TypeOK'
  <2>1. UNCHANGED Creators
    BY DEF Creators
  <2> QED BY CanceledOne, <1>1, <2>1 DEF TypeOK, TaskStates, Calls
<1>3. s \in bound
  BY FinishFields DEF RowInv, NewRow, UnboundRow, ServedRow, OneSlot, TypeOK
<1>4. UNCHANGED <<created, bound, sub>> /\ overlaps \subseteq overlaps'
  BY MeetsOverlaps DEF Overlap
<1>5. \A t \in Scans \ {s} : Same(t)
  BY DeadOne, CanceledOne DEF Same, TypeOK
<1>6. (Fresh(s)' => Fresh(s)) /\ ProcessOf(s)'
  BY FinishFields, <1>1, <1>3, CanceledOne DEF ProcessInv, ProcessOf, Fresh, TypeOK
<1>7. scan'[s].state \in InProgress => scan[s].state \in InProgress
  BY <1>1, <1>3 DEF ProcessInv, ProcessOf, Fresh
<1>8. ASSUME Undisturbed' PROVE TaskOf(s)'
  <2>1. Undisturbed /\ TaskOf(s)
    BY <1>3, <1>4, <1>8 DEF Undisturbed, TaskInv, TypeOK
  <2>2. Submitting = {}
    BY <1>8, MeetsOverlaps DEF Undisturbed
  <2>3. \A u \in Slots : ~Serves(u, s)
    BY <2>2 DEF Submitting, Serves, Nothing
  <2> QED BY <2>1, <2>3, <1>1, <1>4
          DEF TaskOf, Undisturbed, ProcessInv, ProcessOf, Fresh, TypeOK, Serves, Submitting
<1>9. ASSUME Uncanceled' PROVE OpenOf(s)'
  <2>1. Uncanceled /\ OpenOf(s)
    BY <1>3, <1>4, <1>9 DEF Uncanceled, OpenInv, TypeOK
  <2>2. Finishing = {}
    BY <1>9, MeetsOverlaps DEF Uncanceled
  <2>3. fin'[s] = Nothing
    BY <2>2 DEF Finishing
  <2>4. task'[s] = "CANCELED"
    BY CanceledOne
  <2> QED BY <2>3, <2>4 DEF OpenOf
<1> QED BY <1>2, <1>3, <1>4, <1>5, <1>6, <1>7, <1>8, <1>9, OneScan

-----------------------------------------------------------------------------
(* Submission.                                                             *)

(* A step of a submission whose scan is bound to its task.                 *)
LEMMA Proceeds ==
  ASSUME IInv, NEW u \in Slots, NEW s \in Scans, TypeOK',
         UNCHANGED <<created, bound, pc, fin, overlaps>>,
         s \in bound, Serves(u, s), sub[u].step # "bind",
         \A v \in Slots \ {u} : sub'[v] = sub[v],
         sub'[u].step \in {"none", "child", "link", "queue"},
         sub'[u].step # "none" => sub'[u].s = s,
         sub'[u].step = "link" =>
           /\ sub'[u].child \in bound /\ ~Fresh(sub'[u].child)
           /\ sub'[u].row.state \in FinishedWell,
         \A t \in Scans \ {s} : task'[t] = task[t],
         task'[s] = task[s] \/ (task[s] = "CREATED" /\ task'[s] = "FREE"),
         \A t \in Scans \ bound : scan'[t].state = scan[t].state,
         \A t \in bound \ {s} : scan'[t].state \in InProgress => scan[t].state \in InProgress,
         \A t \in bound : Fresh(t) => scan'[t].state \in InProgress
  PROVE  IInv'
<1> USE DEF IInv, Serves
<1>1. \A t \in Scans : Fresh(t)' <=> Fresh(t)
  BY DEF Fresh
<1>2. \A v \in Slots, t \in Scans : Serves(v, t)' => Serves(v, t)
  BY DEF Serves
<1>3. RowInv'
  <2>1. ASSUME NEW t \in Scans PROVE NewRow(t)' /\ UnboundRow(t)'
    <3>1. NewRow(t) /\ UnboundRow(t) /\ t # s => scan'[t].state = scan[t].state \/ t \in bound
      BY DEF RowInv
    <3>2. NewRow(s) /\ s \in Scans
      BY DEF RowInv
    <3>3. NewRow(t)'
      BY <3>1, <3>2, <1>2 DEF RowInv, NewRow
    <3>4. ASSUME NEW v \in Slots, sub[v].step = "bind" PROVE sub'[v] = sub[v]
      BY <3>4
    <3>5. UnboundRow(t)'
      BY <3>1, <3>4 DEF RowInv, UnboundRow
    <3> QED BY <3>3, <3>5
  <2>2. ASSUME NEW v \in Slots PROVE ServedRow(v)'
    BY DEF RowInv, ServedRow
  <2>3. OneSlot'
    BY <1>2 DEF RowInv, OneSlot
  <2> QED BY <2>1, <2>2, <2>3 DEF RowInv
<1>4. ProcessInv'
  BY <1>1 DEF ProcessInv, ProcessOf
<1>5. LinkInv'
  <2>1. ASSUME NEW v \in Slots, sub'[v].step = "link"
        PROVE  sub'[v].child \in bound /\ ~Fresh(sub'[v].child)
                 /\ sub'[v].row.state \in FinishedWell
    BY <2>1 DEF LinkInv
  <2>2. ASSUME NEW c \in bound, ~Fresh(c) PROVE ~Fresh(c)'
    BY <2>2, <1>1 DEF TypeOK
  <2> QED BY <2>1, <2>2 DEF LinkInv
<1>6. NewestInv'
  <2>1. ASSUME NEW v \in Slots, v \in Submitting' PROVE v \in Submitting
    BY <2>1, SubmissionFields DEF Submitting, Nothing
  <2>2. u \in Submitting
    BY DEF Submitting, Nothing
  <2>3. Creators' \subseteq Creators /\ u \notin Creators
    BY DEF Creators
  <2> QED BY <1>2, <2>1, <2>2, <2>3 DEF NewestInv, Creators, Submitting, Nothing
<1>7. TaskInv'
  BY <1>2 DEF TaskInv, TaskOf, Undisturbed
<1>8. OpenInv'
  BY DEF OpenInv, OpenOf, Uncanceled
<1> QED BY <1>3, <1>4, <1>5, <1>6, <1>7, <1>8

LEMMA FreeTaskIInv ==
  ASSUME IInv, NEW u \in Slots, FreeTask(u)
  PROVE  IInv'
<1> USE DEF IInv, FreeTask, Step, tables, history
<1>1. PICK s \in Scans : s = sub[u].s
  BY SubmissionFields DEF Serves
<1>2. s \in bound /\ Serves(u, s) /\ sub[u].step = "free"
  BY <1>1 DEF RowInv, ServedRow, Serves
<1>3. /\ UNCHANGED <<created, scan, bound, pc, fin, overlaps>>
      /\ task' = task \/ (task[s] = "CREATED" /\ task' = [task EXCEPT ![s] = "FREE"])
  BY <1>1
<1>4. \/ sub' = [sub EXCEPT ![u] = [step |-> "child", s |-> s]]
      \/ sub' = [sub EXCEPT ![u] = Nothing]
  BY <1>1
<1> HIDE DEF FreeTask
<1>5. /\ task' \in [Scans -> TaskStates]
      /\ \A t \in Scans \ {s} : task'[t] = task[t]
      /\ task'[s] = task[s] \/ (task[s] = "CREATED" /\ task'[s] = "FREE")
  BY <1>3 DEF TypeOK, TaskStates
<1>6. /\ \A v \in Slots \ {u} : sub'[v] = sub[v]
      /\ sub'[u].step \in {"none", "child"}
      /\ sub'[u].step # "none" => sub'[u].s = s
  BY <1>4 DEF TypeOK, Nothing
<1>7. sub' \in [Slots -> Submissions]
  <2>1. [step |-> "child", s |-> s] \in Submissions /\ Nothing \in Submissions
    BY DEF Submissions
  <2> QED BY <2>1, <1>4 DEF TypeOK
<1>8. TypeOK'
  <2>1. UNCHANGED Creators
    BY <1>2, <1>6 DEF Creators
  <2> QED BY <2>1, <1>3, <1>5, <1>7 DEF TypeOK
<1>9. \A t \in bound : Fresh(t) => scan'[t].state \in InProgress
  BY <1>3 DEF ProcessInv, ProcessOf, TypeOK
<1> QED BY <1>2, <1>3, <1>5, <1>6, <1>8, <1>9, Proceeds

LEMMA ReadChildIInv ==
  ASSUME IInv, NEW u \in Slots, ReadChild(u)
  PROVE  IInv'
<1> USE DEF IInv, ReadChild, Step, tables, history
<1>1. PICK s \in Scans : s = sub[u].s
  BY SubmissionFields DEF Serves
<1>2. s \in bound /\ Serves(u, s) /\ sub[u].step = "child"
  BY <1>1 DEF RowInv, ServedRow, Serves
<1>3. UNCHANGED <<created, scan, bound, task, pc, fin, overlaps>>
  OBVIOUS
<1>4. \A t \in bound : Fresh(t) => scan[t].state \in InProgress
  BY DEF ProcessInv, ProcessOf, TypeOK
<1>5. \A c \in LatestOfPackage :
        c \in bound /\ c \in Scans /\ scan[c].state \in FinishedWell /\ ~Fresh(c)
          /\ scan[c] \in Rows
  BY <1>4 DEF LatestOfPackage, LatestResult, TypeOK
<1>6. \/ sub' = [sub EXCEPT ![u] = [step |-> "queue", s |-> s]]
      \/ \E c \in LatestOfPackage :
           sub' = [sub EXCEPT ![u] = [step |-> "link", s |-> s, child |-> c, row |-> scan[c]]]
  BY <1>1
<1> HIDE DEF ReadChild
<1>7. CASE sub' = [sub EXCEPT ![u] = [step |-> "queue", s |-> s]]
  <2>1. [step |-> "queue", s |-> s] \in Submissions
    BY DEF Submissions
  <2>2. (\A v \in Slots \ {u} : sub'[v] = sub[v]) /\ sub'[u].step = "queue" /\ sub'[u].s = s
    BY <1>7 DEF TypeOK
  <2>3. UNCHANGED Creators
    BY <2>2, <1>2 DEF Creators
  <2>4. TypeOK'
    BY <2>1, <2>3, <1>3, <1>7 DEF TypeOK
  <2> QED BY <2>2, <2>4, <1>2, <1>3, <1>4, Proceeds
<1>8. ASSUME NEW c \in LatestOfPackage,
             sub' = [sub EXCEPT ![u] = [step |-> "link", s |-> s, child |-> c, row |-> scan[c]]]
      PROVE  IInv'
  <2>1. [step |-> "link", s |-> s, child |-> c, row |-> scan[c]] \in Submissions
    BY <1>5 DEF Submissions
  <2>2. /\ \A v \in Slots \ {u} : sub'[v] = sub[v]
        /\ sub'[u].step = "link" /\ sub'[u].s = s
        /\ sub'[u].child = c /\ sub'[u].row = scan[c]
    BY <1>8 DEF TypeOK
  <2>3. UNCHANGED Creators
    BY <2>2, <1>2 DEF Creators
  <2>4. TypeOK'
    BY <2>1, <2>3, <1>3, <1>8 DEF TypeOK
  <2>5. sub'[u].child \in bound /\ ~Fresh(sub'[u].child) /\ sub'[u].row.state \in FinishedWell
    BY <2>2, <1>5
  <2> QED BY <2>2, <2>4, <2>5, <1>2, <1>3, <1>4, Proceeds
<1> QED BY <1>6, <1>7, <1>8

LEMMA LinkChildIInv ==
  ASSUME IInv, NEW u \in Slots, LinkChild(u)
  PROVE  IInv'
<1> USE DEF IInv, LinkChild, Step, tables, history
<1>1. PICK s \in Scans : s = sub[u].s
  BY SubmissionFields DEF Serves
<1>2. s \in bound /\ Serves(u, s) /\ sub[u].step = "link"
  BY <1>1 DEF RowInv, NewRow, UnboundRow, ServedRow, OneSlot, Serves
<1>3. PICK c \in Scans : c = sub[u].child
  BY SubmissionFields
<1>4. c \in bound /\ ~Fresh(c) /\ sub[u].row \in Rows /\ sub[u].row.state \in FinishedWell
  BY <1>3, SubmissionFields DEF LinkInv
<1>5. PICK row \in Rows : row.state \in FinishedWell /\ scan' = [scan EXCEPT ![c] = row]
  <2>1. [sub[u].row EXCEPT !.parent = sub[u].s, !.enabled = FALSE] \in Rows
    <3>1. s \in 0 .. MaxScans
      OBVIOUS
    <3>2. \A r \in Rows : [r EXCEPT !.parent = s, !.enabled = FALSE] \in Rows
      BY <3>1 DEF Rows
    <3> QED BY <3>2, <1>1, <1>4
  <2>2. [sub[u].row EXCEPT !.parent = sub[u].s, !.enabled = FALSE].state = sub[u].row.state
    BY <1>4 DEF Rows
  <2> QED BY <1>3, <1>4, <2>1, <2>2
<1>6. sub' = [sub EXCEPT ![u] = [step |-> "queue", s |-> s]]
  BY <1>1
<1>7. sub' \in [Slots -> Submissions] /\ UNCHANGED Creators
  <2>1. [step |-> "queue", s |-> s] \in Submissions
    BY DEF Submissions
  <2> QED BY <2>1, <1>2, <1>6 DEF TypeOK, Creators
<1>8. TypeOK'
  BY <1>5, <1>7 DEF TypeOK
<1>9. /\ \A t \in Scans \ {c} : scan'[t] = scan[t]
      /\ scan'[c].state \in FinishedWell
  BY <1>5 DEF TypeOK
<1>10. \A t \in bound : Fresh(t) => scan'[t].state \in InProgress
  BY <1>4, <1>9 DEF ProcessInv, ProcessOf, TypeOK
<1>11. \A t \in bound \ {s} : scan'[t].state \in InProgress => scan[t].state \in InProgress
  BY <1>9 DEF TypeOK
<1>12. (\A v \in Slots \ {u} : sub'[v] = sub[v]) /\ sub'[u].step = "queue" /\ sub'[u].s = s
  BY <1>6 DEF TypeOK
<1>13. UNCHANGED <<created, bound, task, pc, fin, overlaps>>
  OBVIOUS
<1> HIDE DEF LinkChild
<1> QED BY <1>2, <1>4, <1>8, <1>9, <1>10, <1>11, <1>12, <1>13, Proceeds

LEMMA QueueIInv ==
  ASSUME IInv, NEW u \in Slots, Queue(u)
  PROVE  IInv'
<1> USE DEF IInv, Queue, Step, tables, history
<1>1. PICK s \in Scans : s = sub[u].s
  BY SubmissionFields DEF Serves
<1>2. s \in bound /\ Serves(u, s) /\ sub[u].step = "queue"
  BY <1>1 DEF RowInv, NewRow, UnboundRow, ServedRow, OneSlot, Serves
<1>3. sub' = [sub EXCEPT ![u] = Nothing]
  OBVIOUS
<1>4. scan' \in [Scans -> Rows] /\ scan'[s].state = "QUEUED"
  BY <1>1 DEF TypeOK, Rows, States
<1>5. sub' \in [Slots -> Submissions] /\ UNCHANGED Creators
  <2>1. Nothing \in Submissions
    BY DEF Submissions
  <2> QED BY <2>1, <1>2, <1>3 DEF TypeOK, Creators, Nothing
<1>6. TypeOK'
  BY <1>4, <1>5 DEF TypeOK
<1>7. \A t \in Scans \ {s} : scan'[t] = scan[t]
  BY <1>1 DEF TypeOK
<1>8. \A t \in bound : Fresh(t) => scan'[t].state \in InProgress
  BY <1>4, <1>7 DEF ProcessInv, ProcessOf, TypeOK
<1>9. (\A v \in Slots \ {u} : sub'[v] = sub[v]) /\ sub'[u].step = "none"
  BY <1>3 DEF TypeOK, Nothing
<1>10. /\ \A t \in Scans \ bound : scan'[t].state = scan[t].state
       /\ \A t \in bound \ {s} : scan'[t].state \in InProgress => scan[t].state \in InProgress
  BY <1>2, <1>7 DEF TypeOK
<1>11. UNCHANGED <<created, bound, task, pc, fin, overlaps>>
  OBVIOUS
<1> HIDE DEF Queue
<1> QED BY <1>2, <1>6, <1>8, <1>9, <1>10, <1>11, Proceeds

LEMMA BindIInv ==
  ASSUME IInv, NEW u \in Slots, Bind(u)
  PROVE  IInv'
<1> USE DEF IInv, Bind, Step, history
<1>1. PICK s \in Scans : s = sub[u].s
  BY SubmissionFields DEF Serves
<1>2. s \notin bound /\ Serves(u, s) /\ sub[u].step = "bind" /\ s <= created
  <2>1. s \notin bound /\ Serves(u, s) /\ sub[u].step = "bind"
    BY <1>1 DEF RowInv, ServedRow, Serves
  <2>2. ~(s > created)
    BY <2>1 DEF RowInv, NewRow
  <2> QED BY <2>1, <2>2 DEF TypeOK
<1>3. task' = [task EXCEPT ![s] = "CREATED"] /\ bound' = bound \cup {s}
      /\ sub' = [sub EXCEPT ![u] = [step |-> "free", s |-> s]]
  BY <1>1
<1>4. TypeOK'
  <2>1. [step |-> "free", s |-> s] \in Submissions
    BY DEF Submissions
  <2>2. sub' \in [Slots -> Submissions] /\ UNCHANGED Creators
    BY <2>1, <1>2, <1>3 DEF TypeOK, Creators
  <2> QED BY <2>2, <1>3 DEF TypeOK, TaskStates
<1>5. scan[s].state \in {"NONE", "INIT"} /\ pc[s] = "none" /\ fin[s] = Nothing
      /\ task'[s] = "CREATED" /\ \A t \in Scans \ {s} : task'[t] = task[t]
  BY <1>2, <1>3 DEF RowInv, NewRow, UnboundRow, ServedRow, OneSlot, TypeOK
<1>6. \A v \in Slots \ {u} : sub'[v] = sub[v]
  BY <1>3 DEF TypeOK
<1>7. sub'[u].step = "free" /\ sub'[u].s = s
  BY <1>3 DEF TypeOK
<1>8. \A v \in Slots, t \in Scans : Serves(v, t)' <=> Serves(v, t)
  BY <1>1, <1>2, <1>6, <1>7 DEF Serves
<1>9. RowInv'
  BY <1>2, <1>3, <1>5, <1>6, <1>7, <1>8
     DEF RowInv, NewRow, UnboundRow, ServedRow, OneSlot, Serves, TypeOK
<1>10. ProcessInv'
  <2>1. ASSUME NEW t \in Scans \ {s} PROVE ProcessOf(t)'
    BY <1>3, <1>5 DEF ProcessInv, ProcessOf, Fresh
  <2>2. scan[s].state = "INIT"
    BY <1>2, <1>5 DEF RowInv, UnboundRow
  <2>3. ProcessOf(s)'
    BY <2>2, <1>5 DEF ProcessOf, Fresh
  <2> QED BY <2>1, <2>3 DEF ProcessInv
<1>11. LinkInv'
  BY <1>2, <1>3, <1>5, <1>6, <1>7, SubmissionFields DEF LinkInv, Fresh
<1>12. NewestInv'
  BY <1>2, <1>6, <1>7, <1>8, SubmissionFields DEF NewestInv, Submitting, Creators, Nothing
<1>13. TaskInv'
  BY <1>3, <1>5, <1>8 DEF TaskInv, TaskOf, Undisturbed
<1>14. OpenInv'
  BY <1>5 DEF OpenInv, OpenOf, Uncanceled
<1> QED BY <1>4, <1>9, <1>10, <1>11, <1>12, <1>13, <1>14

LEMMA CreateScanIInv ==
  ASSUME IInv, NEW u \in Slots, CreateScan(u)
  PROVE  IInv'
<1> USE DEF IInv, CreateScan, Step, history
<1>1. sub[u].step = "create" /\ u \in Creators
  BY DEF Creators
<1>2. created' = created + 1 /\ created' \in Scans
  BY <1>1, FiniteCreators, FS_EmptySet DEF TypeOK
<1>3. PICK n \in Scans : n = created + 1
  BY <1>2
<1>4. scan' = [scan EXCEPT ![n] = [state |-> "INIT", enabled |-> TRUE, parent |-> 0]]
      /\ sub' = [sub EXCEPT ![u] = [step |-> "bind", s |-> n]]
  BY <1>3
<1>5. /\ \A v \in Slots \ {u} : sub'[v] = sub[v]
      /\ sub'[u].step = "bind" /\ sub'[u].s = n
      /\ \A t \in Scans \ {n} : scan'[t] = scan[t]
      /\ scan'[n].state = "INIT"
  BY <1>4 DEF TypeOK
<1>6. TypeOK'
  <2>1. [step |-> "bind", s |-> n] \in Submissions
    BY DEF Submissions
  <2>2. [state |-> "INIT", enabled |-> TRUE, parent |-> 0] \in Rows
    BY DEF Rows, States
  <2>3. Creators' = Creators \ {u}
    BY <1>5 DEF Creators
  <2>4. Cardinality(Creators') = Cardinality(Creators) - 1
    BY <2>3, <1>1, FiniteCreators, FS_RemoveElement
  <2> QED BY <2>1, <2>2, <2>4, <1>2, <1>4, FiniteCreators DEF TypeOK
<1>7. /\ n \notin bound /\ \A v \in Slots : ~Serves(v, n)
      /\ \A v \in Slots \ {u}, t \in Scans : Serves(v, t)' <=> Serves(v, t)
      /\ \A t \in Scans : Serves(u, t)' <=> t = n
  BY <1>1, <1>3, <1>5 DEF RowInv, NewRow, UnboundRow, ServedRow, OneSlot, Serves, TypeOK
<1>8. RowInv'
  BY <1>1, <1>2, <1>3, <1>5, <1>7 DEF RowInv, NewRow, UnboundRow, ServedRow, OneSlot, Serves, TypeOK
<1>9. ProcessInv'
  BY <1>5, <1>7 DEF ProcessInv, ProcessOf, Fresh, TypeOK
<1>10. LinkInv'
  BY <1>5 DEF LinkInv, Fresh
<1>11. NewestInv'
  <2> SUFFICES ASSUME <<"submit", "submit">> \notin overlaps'
               PROVE  /\ \A v, w \in Submitting' : v = w
                      /\ \A v \in Slots, t \in Scans : Serves(v, t)' => t = created'
                      /\ \A t \in Scans : t # created' => scan'[t].state \notin InProgress
                      /\ Creators' = {}
    BY DEF NewestInv
  <2>1. Submitting = {u}
    BY <1>1 DEF NewestInv, Submitting, Nothing
  <2>2. Submitting' = {u} /\ Creators' = {}
    BY <2>1, <1>5 DEF Submitting, Creators, Nothing
  <2>3. \A v \in Slots \ {u}, t \in Scans : ~Serves(v, t)
    BY <2>1 DEF Submitting, Serves, Nothing
  <2>4. \A t \in Scans : scan[t].state \notin InProgress
    BY <1>1 DEF NewestInv
  <2> QED BY <2>2, <2>3, <2>4, <1>2, <1>3, <1>5, <1>7
<1>12. TaskInv'
  BY <1>5, <1>7 DEF TaskInv, TaskOf, Undisturbed, RowInv, NewRow, UnboundRow, ServedRow, OneSlot
<1>13. OpenInv'
  BY DEF OpenInv, OpenOf, Uncanceled
<1> QED BY <1>6, <1>8, <1>9, <1>10, <1>11, <1>12, <1>13

LEMMA CancelObsoleteIInv ==
  ASSUME IInv, NEW u \in Slots, CancelObsolete(u)
  PROVE  IInv'
<1> USE DEF IInv, CancelObsolete
<1>1. /\ scan' \in [Scans -> Rows] /\ task' \in [Scans -> TaskStates]
      /\ \A s \in Scans : s \in Obsolete =>
           /\ scan'[s].state = "CANCELED"
           /\ task'[s] = IF task[s] \in Unfinished THEN "CANCELED" ELSE task[s]
      /\ \A s \in Scans : s \notin Obsolete =>
           scan'[s].state = scan[s].state /\ task'[s] = task[s]
  BY ObsoleteCanceled
<1>2. sub[u] = Nothing /\ sub' = [sub EXCEPT ![u] = [step |-> "create"]]
      /\ UNCHANGED <<created, bound, pc, fin>>
  OBVIOUS
<1>3. /\ overlaps \subseteq overlaps'
      /\ Submitting # {} => <<"submit", "submit">> \in overlaps'
      /\ Finishing # {} => <<"submit", "finish">> \in overlaps'
  BY MeetsOverlaps
<1>4. \A s \in Scans : s \in Obsolete <=> s \in bound /\ scan[s].state \in InProgress
  BY DEF Obsolete
<1>5. created + Cardinality(Creators) < MaxScans
  BY DEF Creators
<1> HIDE DEF CancelObsolete
<1>6. /\ \A v \in Slots \ {u} : sub'[v] = sub[v]
      /\ sub'[u].step = "create"
  BY <1>2 DEF TypeOK
<1>7. TypeOK'
  <2>1. [step |-> "create"] \in Submissions
    BY DEF Submissions
  <2>2. Creators' = Creators \cup {u} /\ u \notin Creators
    BY <1>2, <1>6 DEF Creators, Nothing
  <2>3. Cardinality(Creators') = Cardinality(Creators) + 1
    BY <2>2, FiniteCreators, FS_AddElement
  <2> QED BY <2>1, <2>3, <1>1, <1>2, <1>5, FiniteCreators DEF TypeOK
<1>8. \A v \in Slots, t \in Scans : Serves(v, t)' <=> Serves(v, t)
  BY <1>2, <1>6 DEF Serves, Nothing
<1>9. RowInv'
  <2>1. ASSUME NEW s \in Scans PROVE NewRow(s)' /\ UnboundRow(s)'
    <3>1. NewRow(s) /\ UnboundRow(s)
      BY DEF RowInv
    <3>2. s \notin bound => scan'[s].state = scan[s].state /\ task'[s] = task[s]
      BY <1>1, <1>4
    <3>3. NewRow(s)'
      BY <3>1, <3>2, <1>2, <1>8 DEF NewRow
    <3>4. ASSUME NEW v \in Slots, sub[v].step = "bind" PROVE sub'[v] = sub[v]
      BY <3>4, <1>2, <1>6 DEF Nothing
    <3>5. UnboundRow(s)'
      BY <3>1, <3>2, <3>4, <1>2 DEF UnboundRow
    <3> QED BY <3>3, <3>5
  <2>2. ASSUME NEW v \in Slots PROVE ServedRow(v)'
    BY <1>2, <1>6 DEF RowInv, ServedRow
  <2>3. OneSlot'
    BY <1>8 DEF RowInv, OneSlot
  <2> QED BY <2>1, <2>2, <2>3 DEF RowInv
<1>10. \A s \in Scans : Fresh(s)' => Fresh(s) /\ s \notin Obsolete
  BY <1>1, <1>2 DEF Fresh
<1>11. ProcessInv'
  BY <1>1, <1>2, <1>10 DEF ProcessInv, ProcessOf, Fresh
<1>12. LinkInv'
  BY <1>2, <1>6, <1>10, SubmissionFields DEF LinkInv
<1>13. \A s \in Scans : s \in bound => scan'[s].state \notin InProgress
  BY <1>1, <1>4
<1>14. NewestInv'
  <2> SUFFICES ASSUME <<"submit", "submit">> \notin overlaps'
               PROVE  /\ \A v, w \in Submitting' : v = w
                      /\ \A v \in Slots, s \in Scans : Serves(v, s)' => s = created'
                      /\ \A s \in Scans : scan'[s].state \notin InProgress
    BY DEF NewestInv
  <2>1. Submitting = {}
    BY <1>3
  <2>2. \A v \in Slots : sub[v] = Nothing
    BY <2>1 DEF Submitting
  <2>3. \A v \in Slots, s \in Scans : ~Serves(v, s)
    BY <2>2 DEF Serves, Nothing
  <2>4. \A s \in Scans : s \notin bound => scan[s].state = "NONE"
    BY <2>2 DEF RowInv, NewRow, UnboundRow, ServedRow, OneSlot, Nothing, TypeOK
  <2>5. \A s \in Scans : scan'[s].state \notin InProgress
    BY <2>4, <1>1, <1>13
  <2> QED BY <2>2, <2>3, <2>5, <1>6, <1>8 DEF Submitting
<1>15. TaskInv'
  <2> SUFFICES ASSUME Undisturbed', NEW s \in Scans PROVE TaskOf(s)'
    BY DEF TaskInv
  <2>1. Undisturbed /\ TaskOf(s) /\ Submitting = {}
    BY <1>3 DEF Undisturbed, TaskInv
  <2>2. \A v \in Slots : ~Serves(v, s)
    BY <2>1 DEF Submitting, Serves, Nothing
  <2> QED BY <2>1, <2>2, <1>1, <1>2, <1>8, <1>13 DEF TaskOf
<1>16. OpenInv'
  <2> SUFFICES ASSUME Uncanceled', NEW s \in Scans PROVE OpenOf(s)'
    BY DEF OpenInv
  <2>1. Uncanceled /\ OpenOf(s) /\ Finishing = {}
    BY <1>3 DEF Uncanceled, OpenInv
  <2> QED BY <2>1, <1>1, <1>2 DEF OpenOf, Finishing
<1> QED BY <1>7, <1>9, <1>11, <1>12, <1>14, <1>15, <1>16

-----------------------------------------------------------------------------
LEMMA InitIInv == Init => IInv
<1> SUFFICES ASSUME Init PROVE IInv
  OBVIOUS
<1> USE DEF Init
<1>1. TypeOK
  <2>1. Creators = {} /\ Cardinality(Creators) = 0
    BY FS_EmptySet DEF Creators, Nothing
  <2>2. sub \in [Slots -> Submissions] /\ fin \in [Scans -> Finishes]
    BY DEF Submissions, Finishes
  <2>3. scan \in [Scans -> Rows]
    BY DEF Rows, States
  <2>4. created \in 0 .. MaxScans /\ created + Cardinality(Creators) <= MaxScans
    BY <2>1
  <2>5. task \in [Scans -> TaskStates] /\ pc \in [Scans -> Calls] /\ bound \subseteq Scans
    BY DEF TaskStates, Calls
  <2> HIDE DEF Init
  <2> QED BY <2>2, <2>3, <2>4, <2>5 DEF TypeOK
<1>2. \A u \in Slots : sub[u].step = "none"
  BY DEF Nothing
<1>3. RowInv /\ LinkInv
  BY <1>2 DEF RowInv, NewRow, UnboundRow, ServedRow, OneSlot, LinkInv, Serves
<1>4. ProcessInv /\ TaskInv /\ OpenInv
  BY DEF ProcessInv, ProcessOf, Fresh, TaskInv, TaskOf, OpenInv, OpenOf
<1>5. NewestInv
  BY <1>2 DEF NewestInv, Submitting, Creators, Serves
<1> QED BY <1>1, <1>3, <1>4, <1>5 DEF IInv

LEMMA NextIInv == IInv /\ [Next]_vars => IInv'
<1> SUFFICES ASSUME IInv, [Next]_vars PROVE IInv'
  OBVIOUS
<1>1. ASSUME NEW u \in Slots, Submission(u) PROVE IInv'
  BY <1>1, CancelObsoleteIInv, CreateScanIInv, BindIInv, FreeTaskIInv, ReadChildIInv,
     LinkChildIInv, QueueIInv DEF Submission
<1>2. ASSUME NEW s \in Scans, Worker(s) PROVE IInv'
  BY <1>2, OpenTaskIInv, SetScanToScanningIInv, StartFinishIInv, CloseTaskIInv,
     FailTaskIInv, KillIInv DEF Worker
<1>3. ASSUME NEW s \in Scans, Finish(s) PROVE IInv'
  BY <1>3, UnpackIInv, LoadResultIInv, SaveVerdictIInv DEF Finish
<1>4. ASSUME NEW s \in Scans, CancelTask(s) PROVE IInv'
  BY <1>4, CancelTaskIInv
<1>5. CASE UNCHANGED vars
  <2>1. UNCHANGED <<created, scan, bound, task, pc, sub, fin, overlaps>>
    BY <1>5 DEF vars, tables, history
  <2>2. TypeOK' /\ RowInv' /\ LinkInv'
    <3>1. TypeOK'
      BY <2>1 DEF IInv, TypeOK, Creators
    <3>2. RowInv'
      BY <2>1 DEF IInv, RowInv, NewRow, UnboundRow, ServedRow, OneSlot, Serves
    <3> QED BY <3>1, <3>2, <2>1 DEF IInv, LinkInv, Fresh
  <2>3. ProcessInv' /\ TaskInv' /\ OpenInv'
    BY <2>1 DEF IInv, ProcessInv, ProcessOf, Fresh, TaskInv, TaskOf, Undisturbed, Serves,
                OpenInv, OpenOf, Uncanceled
  <2>4. NewestInv'
    BY <2>1 DEF IInv, NewestInv, Submitting, Creators, Serves
  <2> QED BY <2>2, <2>3, <2>4 DEF IInv
<1> QED BY <1>1, <1>2, <1>3, <1>4, <1>5 DEF Next

(* Copies of rows, requests, tasks and processes stay consistent under     *)
(* every statement of every request.                                       *)
THEOREM Inductive == Spec => []IInv
  BY InitIInv, NextIInv, PTL DEF Spec

(* check_obsolete_scan leaves one scan of a package in progress, whatever  *)
(* else is served meanwhile, as long as submissions do not overlap.        *)
THEOREM AtMostOneInProgress == Spec => []OneInProgress
<1>1. IInv => OneInProgress
  <2> SUFFICES ASSUME IInv, <<"submit", "submit">> \notin overlaps
               PROVE  Cardinality(Obsolete) <= 1
    BY DEF OneInProgress
  <2>1. Obsolete \subseteq {created}
    BY DEF IInv, NewestInv, Obsolete, TypeOK
  <2>2. PICK x : x = created
    OBVIOUS
  <2>3. CASE Obsolete = {}
    BY <2>3, FS_EmptySet
  <2>4. CASE Obsolete # {}
    <3>1. Obsolete = {x}
      BY <2>1, <2>2, <2>4
    <3> QED BY <3>1, FS_Singleton
  <2> QED BY <2>3, <2>4
<1> QED BY <1>1, Inductive, PTL

(* A scan in progress has a task that is not finished, unless something    *)
(* met its submission.                                                     *)
THEOREM AlwaysHasTask == Spec => []InProgressHasTask
<1>1. IInv => InProgressHasTask
  <2> SUFFICES ASSUME IInv, NEW s \in bound, scan[s].state \in InProgress,
                      overlaps \cap ({"submit", "cancel", "scanning"} \X {"submit"}) = {}
               PROVE  task[s] \in Unfinished
    BY DEF InProgressHasTask
  <2>1. Undisturbed
    BY DEF Undisturbed
  <2> QED BY <2>1 DEF IInv, TaskInv, TaskOf, TypeOK
<1> QED BY <1>1, Inductive, PTL

(* An open task is run by a process, unless a cancellation met finish_scan. *)
THEOREM OpenAlwaysHasProcess == Spec => []OpenHasProcess
<1>1. IInv => OpenHasProcess
  <2> SUFFICES ASSUME IInv, NEW s \in bound, task[s] = "OPEN",
                      overlaps \cap ({"submit", "cancel"} \X {"finish"}) = {}
               PROVE  pc[s] # "none"
    BY DEF OpenHasProcess
  <2>1. Uncanceled
    BY DEF Uncanceled
  <2> QED BY <2>1 DEF IInv, OpenInv, OpenOf, TypeOK
<1> QED BY <1>1, Inductive, PTL

-----------------------------------------------------------------------------
(* The stream of the package, while no two requests overlapped.            *)

Children(s) == {c \in Scans : scan[c].parent = s}
Enabled     == {s \in Scans : scan[s].enabled}

(* Results are dated apart, and a verdict has one.                         *)
ResultInv ==
  /\ clock \in Nat /\ result \in [Scans -> Nat]
  /\ \A s \in Scans : result[s] <= clock
  /\ \A s, t \in Scans : result[s] = result[t] /\ result[s] # 0 => s = t
  /\ \A s \in Scans : scan[s].state \in FinishedWell => result[s] # 0

(* Only scans with a verdict have a parent, and no row that is still to be *)
(* created is one: the walk of Dead ends after one step.                   *)
ParentInv ==
  \A c \in Scans : /\ scan[c].parent <= created
                   /\ scan[c].parent # NoScan => scan[c].state \in FinishedWell

(* What finish_scan holds is what the tables have.                         *)
HeldInv ==
  \A s \in Scans :
    /\ pc[s] = "report" /\ task[s] = "OPEN" => scan[s].state \in InProgress
    /\ fin[s] # Nothing =>
         /\ Submitting = {} /\ before = Stream
         /\ fin[s].scan = scan[s] /\ scan[s].state \in InProgress
         /\ fin[s].step = "verdict" => result[s] = clock /\ clock # 0

(* The scan in progress counts, or else the last one with a verdict, which *)
(* is the only one below the scan in progress.                             *)
CountInv ==
  Submitting = {} =>
    /\ Enabled = IF Obsolete = {} THEN LatestOfPackage ELSE Obsolete
    /\ Obsolete # {} => Children(created) = LatestOfPackage

(* How far the only submission is, and what it found.                      *)
SubmitInv ==
  \A u \in Slots : sub[u] # Nothing =>
    /\ before.last = LatestOfPackage
    /\ sub[u].step = "create" =>
         Enabled = LatestOfPackage /\ before.pending \subseteq 1 .. created
    /\ sub[u].step # "create" =>
         /\ \A s \in before.pending : s < created
         /\ Enabled = {created} \cup (IF sub[u].step = "queue" THEN {} ELSE LatestOfPackage)
         /\ Children(created) = IF sub[u].step = "queue" THEN LatestOfPackage ELSE {}
    /\ sub[u].step = "free" => task[created] = "CREATED"
    /\ sub[u].step = "link" =>
         LatestOfPackage = {sub[u].child} /\ sub[u].row = scan[sub[u].child]

Flow == ResultInv /\ ParentInv /\ HeldInv /\ CountInv /\ SubmitInv

StreamInv == overlaps = {} => Flow

(* What CurrentScan sees of a step.                                        *)
Stutters == Shown' = Shown

Abandons ==
  /\ Shown.pending # {} /\ Shown'.pending = {}
  /\ Shown'.last = Shown.last /\ Shown'.current = Shown.last

Finished ==
  /\ Shown.pending # {} /\ Shown'.pending = {}
  /\ Shown'.last = Shown.pending /\ Shown'.current = Shown.current

Submits(n) ==
  /\ \A s \in Shown.pending \cup Shown.last : s < n
  /\ Shown'.pending = {n} /\ Shown'.current = {n} /\ Shown'.last = Shown.last

(* A walk of at most one step ends where the code says.                    *)
LEMMA WalkOne ==
  ASSUME NEW sc,
         \A c \in Scans : sc[c].parent # NoScan => sc[c].state \in FinishedWell
  PROVE  \A s \in Scans :
           LET children == {c \in Scans : sc[c].parent = s}
           IN  /\ sc[s].state \notin FinishedWell /\ children = {} => EndOfWalk(sc)[s] = s
               /\ \A c \in Scans : sc[s].state \notin FinishedWell /\ children = {c}
                                   => EndOfWalk(sc)[s] = c
<1> DEFINE children(s) == {c \in Scans : sc[c].parent = s}
           one(s) == CHOOSE c \in children(s) : TRUE
           stop(s) == sc[s].state \in FinishedWell \/ children(s) = {}
           f == [s \in Scans |-> IF stop(s) THEN s ELSE one(s)]
<1>1. \A s \in Scans : ~stop(s) => one(s) \in Scans /\ stop(one(s))
  OBVIOUS
<1>2. f = [s \in Scans |-> IF stop(s) THEN s ELSE f[one(s)]]
  <2> HIDE DEF one, stop
  <2>1. \A s \in Scans : ~stop(s) => f[one(s)] = one(s)
    BY <1>1
  <2>2. \A s \in Scans : (IF stop(s) THEN s ELSE one(s)) = IF stop(s) THEN s ELSE f[one(s)]
    BY <2>1
  <2> QED BY <2>2
<1>3. EndOfWalk(sc) = [s \in Scans |-> IF stop(s) THEN s ELSE EndOfWalk(sc)[one(s)]]
  <2> DEFINE F(g) == [s \in Scans |-> IF stop(s) THEN s ELSE g[one(s)]]
             w == CHOOSE g : g = F(g)
  <2>1. w = F(w)
    <3>1. f = F(f)
      BY <1>2
    <3> HIDE DEF F, f
    <3> QED BY <3>1
  <2>2. EndOfWalk(sc) = w
    BY DEF EndOfWalk
  <2> QED BY <2>1, <2>2
<1>4. \A s \in Scans : stop(s) => EndOfWalk(sc)[s] = s
  BY <1>3
<1>5. \A s, c \in Scans : sc[s].state \notin FinishedWell /\ children(s) = {c}
                          => EndOfWalk(sc)[s] = c
  <2> SUFFICES ASSUME NEW s \in Scans, NEW c \in Scans, sc[s].state \notin FinishedWell,
                      children(s) = {c}
               PROVE  EndOfWalk(sc)[s] = c
    OBVIOUS
  <2>1. ~stop(s) /\ one(s) = c
    OBVIOUS
  <2>2. EndOfWalk(sc)[s] = EndOfWalk(sc)[c]
    BY <1>3, <2>1
  <2>3. stop(c)
    BY <1>1, <2>1
  <2> QED BY <1>4, <2>2, <2>3
<1> QED BY <1>4, <1>5

LEMMA LatestOne ==
  ASSUME TypeOK, ResultInv
  PROVE  /\ \A a, b \in LatestOfPackage : a = b
         /\ \A a \in LatestOfPackage : a \in bound /\ a \in Scans
                                       /\ scan[a].state \in FinishedWell
<1>1. \A a \in LatestOfPackage : /\ a \in bound /\ a \in Scans
                                 /\ scan[a].state \in FinishedWell
                                 /\ \A b \in LatestOfPackage : result[b] <= result[a]
  BY DEF LatestOfPackage, LatestResult, TypeOK
<1>2. ASSUME NEW a \in LatestOfPackage, NEW b \in LatestOfPackage PROVE a = b
  <2>1. result[a] \in Nat /\ result[b] \in Nat /\ result[a] <= result[b] /\ result[b] <= result[a]
    BY <1>1 DEF ResultInv
  <2>2. result[a] = result[b] /\ result[a] # 0
    BY <1>1, <2>1 DEF ResultInv
  <2> QED BY <1>1, <2>2 DEF ResultInv
<1> QED BY <1>1, <1>2

(* What cancel_obsolete, fail_scan and cancel_scan do to the rows, when no *)
(* submission is in flight.                                                *)
LEMMA DeadStream ==
  ASSUME IInv, overlaps = {}, ResultInv, ParentInv, CountInv, Submitting = {},
         NEW st \in {"CANCELED", "FAILED"}
  PROVE  /\ \A s \in Scans : Dead(Obsolete, st)[s].parent = scan[s].parent
         /\ \A s \in Scans : Dead(Obsolete, st)[s].enabled <=> s \in LatestOfPackage
<1> DEFINE D == Obsolete
           off == [s \in Scans |-> IF s \in D
                                   THEN [scan[s] EXCEPT !.state = st, !.enabled = FALSE]
                                   ELSE scan[s]]
           found == {s \in {EndOfWalk(off)[d] : d \in D} : off[s].state \in FinishedWell}
<1>0. TypeOK /\ \A s \in Scans : scan[s] \in Rows
  BY DEF IInv, TypeOK
<1>1. Dead(D, st) = [s \in Scans |-> IF s \in found THEN [off[s] EXCEPT !.enabled = TRUE]
                                                   ELSE off[s]]
  BY DEF Dead
<1>2. \A s \in Scans : /\ off[s] \in Rows
                       /\ off[s].parent = scan[s].parent
                       /\ off[s].state = IF s \in D THEN st ELSE scan[s].state
                       /\ off[s].enabled = IF s \in D THEN FALSE ELSE scan[s].enabled
  BY <1>0 DEF Rows, States
<1> HIDE DEF off
<1>3. D \subseteq {created} /\ D \subseteq Scans
  BY <1>0 DEF IInv, NewestInv, Obsolete, TypeOK
<1>4. D \cap LatestOfPackage = {}
  BY <1>0, LatestOne DEF Obsolete
<1>5. found = IF D = {} THEN {} ELSE LatestOfPackage
  <2>1. CASE D = {}
    BY <2>1
  <2>2. CASE D # {}
    <3>1. D = {created} /\ created \in Scans
      BY <1>3, <2>2
    <3>2. off[created].state = st
      BY <1>2, <3>1
    <3>3. {c \in Scans : off[c].parent = created} = LatestOfPackage
      BY <1>2, <2>2 DEF CountInv, Children
    <3>4. \A c \in Scans : off[c].parent # NoScan => off[c].state \in FinishedWell
      BY <1>2 DEF ParentInv, Obsolete
    <3> HIDE DEF D, off
    <3>5. CASE LatestOfPackage = {}
      <4>1. EndOfWalk(off)[created] = created
        BY <3>1, <3>2, <3>3, <3>4, <3>5, WalkOne
      <4> QED BY <2>2, <3>1, <3>2, <3>5, <4>1
    <3>6. CASE LatestOfPackage # {}
      <4>1. PICK a \in LatestOfPackage : LatestOfPackage = {a}
        BY <1>0, <3>6, LatestOne
      <4>2. a \in Scans /\ scan[a].state \in FinishedWell /\ a \notin D
        BY <1>0, <1>4, LatestOne
      <4>3. EndOfWalk(off)[created] = a
        BY <3>1, <3>2, <3>3, <3>4, <4>1, <4>2, WalkOne
      <4>4. off[a].state \in FinishedWell
        BY <1>2, <4>2
      <4> QED BY <2>2, <3>1, <4>1, <4>3, <4>4
    <3> QED BY <3>5, <3>6
  <2> QED BY <2>1, <2>2
<1>6. \A s \in Scans : scan[s].enabled <=> s \in (IF D = {} THEN LatestOfPackage ELSE D)
  BY DEF CountInv, Enabled
<1> HIDE DEF D, off, found
<1>7. \A s \in Scans : /\ Dead(D, st)[s].parent = scan[s].parent
                       /\ Dead(D, st)[s].enabled <=> s \in found \/ off[s].enabled
  <2> SUFFICES ASSUME NEW s \in Scans
               PROVE  /\ Dead(D, st)[s].parent = scan[s].parent
                      /\ Dead(D, st)[s].enabled <=> s \in found \/ off[s].enabled
    OBVIOUS
  <2>1. CASE s \in found
    <3>1. Dead(D, st)[s] = [off[s] EXCEPT !.enabled = TRUE]
      BY <1>1, <2>1
    <3> QED BY <1>2, <2>1, <3>1 DEF Rows
  <2>2. CASE s \notin found
    <3>1. Dead(D, st)[s] = off[s]
      BY <1>1, <2>2
    <3> QED BY <1>2, <2>2, <3>1
  <2> QED BY <2>1, <2>2
<1>8. \A s \in Scans : s \in found \/ off[s].enabled <=> s \in LatestOfPackage
  BY <1>2, <1>4, <1>5, <1>6
<1> QED BY <1>7, <1>8 DEF D

(* The sets that the stream is made of, after a step.                      *)
LEMMA SameLatest ==
  ASSUME TypeOK, TypeOK',
         \A s \in Scans : /\ s \in bound' /\ scan'[s].state \in FinishedWell
                              <=> s \in bound /\ scan[s].state \in FinishedWell
                          /\ scan[s].state \in FinishedWell => result'[s] = result[s]
  PROVE  LatestOfPackage' = LatestOfPackage
<1>1. {s \in bound : scan[s].state \in FinishedWell}' = {s \in bound : scan[s].state \in FinishedWell}
  BY DEF TypeOK
<1> QED BY <1>1 DEF LatestOfPackage, LatestResult, TypeOK

LEMMA SameStream ==
  ASSUME TypeOK, TypeOK', bound' = bound,
         \A s \in bound : /\ scan'[s].state \in InProgress <=> scan[s].state \in InProgress
                          /\ scan'[s].state \in FinishedWell <=> scan[s].state \in FinishedWell
                          /\ scan[s].state \in FinishedWell => result'[s] = result[s],
         \A s \in Scans : scan'[s].enabled <=> scan[s].enabled
  PROVE  /\ Obsolete' = Obsolete /\ LatestOfPackage' = LatestOfPackage /\ Enabled' = Enabled
         /\ Stream' = Stream
<1>1. Obsolete' = Obsolete /\ Enabled' = Enabled
  BY DEF Obsolete, Enabled
<1>2. {s \in bound : scan[s].state \in FinishedWell}' = {s \in bound : scan[s].state \in FinishedWell}
  OBVIOUS
<1>3. LatestOfPackage' = LatestOfPackage
  BY <1>2 DEF LatestOfPackage, LatestResult
<1> QED BY <1>1, <1>3 DEF Stream, Enabled

(* The tasks and the processes go on.                                      *)
LEMMA FlowQuiet ==
  ASSUME Flow, UNCHANGED <<created, scan, bound, result, clock, sub, fin, overlaps, before>>,
         \A s \in Scans : /\ pc'[s] = "report" /\ task'[s] = "OPEN" =>
                               pc[s] = "report" /\ task[s] = "OPEN"
                          /\ task[s] = "CREATED" => task'[s] = "CREATED",
         created \in 0 .. MaxScans, \A u \in Slots : sub[u].step = "free" => created # 0
  PROVE  Flow' /\ Stutters
<1>1. /\ Obsolete' = Obsolete /\ LatestOfPackage' = LatestOfPackage /\ Enabled' = Enabled
      /\ Submitting' = Submitting /\ Finishing' = Finishing
      /\ \A s : Children(s)' = Children(s)
  BY DEF Obsolete, LatestOfPackage, LatestResult, Enabled, Submitting, Finishing, Children
<1>2. Stream' = Stream
  BY <1>1 DEF Stream
<1>3. Stutters
  BY <1>1, <1>2 DEF Stutters, Shown, Calm
<1>4. ResultInv' /\ ParentInv'
  BY DEF Flow, ResultInv, ParentInv
<1>5. HeldInv' /\ CountInv'
  BY <1>1, <1>2 DEF Flow, HeldInv, CountInv
<1>6. SubmitInv'
  BY <1>1 DEF Flow, SubmitInv
<1> QED BY <1>3, <1>4, <1>5, <1>6 DEF Flow

(* What is known of a submission that is alone.                            *)
LEMMA AloneFacts ==
  ASSUME IInv, overlaps = {}
  PROVE  /\ TypeOK
         /\ \A u \in Slots : sub[u].step \in {"bind", "free", "child", "link", "queue"} =>
              sub[u].s = created /\ created \in Scans /\ Serves(u, created)
         /\ \A u, v \in Submitting : u = v
         /\ \A s \in Scans : scan[s].state \in InProgress => s = created
         /\ \A u \in Slots : sub[u].step = "create" =>
              \A s \in Scans : scan[s].state \notin InProgress
         /\ \A u \in Slots : sub[u].step \in {"free", "child", "link", "queue"} =>
              /\ created \in bound /\ scan[created].state \in InProgress
              /\ task[created] \in Unfinished /\ pc[created] \in {"none", "scanning"}
         /\ \A u \in Slots : sub[u].step = "bind" => created \notin bound
         /\ \A s \in Scans : fin[s] # Nothing => task[s] = "OPEN" /\ pc[s] = "wait"
         /\ \A s \in Scans : s \notin bound =>
              scan[s].state \in {"NONE", "INIT"} /\ task[s] = "NONE" /\ fin[s] = Nothing
         /\ \A s \in Scans : s > created => scan[s].state = "NONE" /\ s \notin bound
<1>1. TypeOK
  BY DEF IInv
<1>2. ASSUME NEW u \in Slots, sub[u].step \in {"bind", "free", "child", "link", "queue"}
      PROVE  sub[u].s = created /\ created \in Scans /\ Serves(u, created)
  <2>1. Serves(u, sub[u].s) /\ sub[u].s \in Scans
    BY <1>1, <1>2, SubmissionFields
  <2> QED BY <2>1 DEF IInv, NewestInv
<1>3. /\ \A u, v \in Submitting : u = v
      /\ \A s \in Scans : scan[s].state \in InProgress => s = created
      /\ \A u \in Slots : sub[u].step = "create" =>
           \A s \in Scans : scan[s].state \notin InProgress
  BY DEF IInv, NewestInv, Creators
<1>4. ASSUME NEW u \in Slots, sub[u].step \in {"free", "child", "link", "queue"}
      PROVE  /\ created \in bound /\ scan[created].state \in InProgress
             /\ task[created] \in Unfinished /\ pc[created] \in {"none", "scanning"}
  <2>1. sub[u].s = created /\ created \in Scans /\ Serves(u, created)
    BY <1>2, <1>4
  <2>2. created \in bound
    BY <1>4, <2>1 DEF IInv, RowInv, ServedRow
  <2>3. task[created] \in Unfinished /\ pc[created] \in {"none", "scanning"}
    BY <2>1, <2>2 DEF IInv, TaskInv, TaskOf, Undisturbed
  <2>4. scan[created].state \in InProgress
    <3>1. Fresh(created) \/ (task[created] = "OPEN" /\ pc[created] = "none")
      BY <2>3 DEF Fresh
    <3>2. task[created] = "OPEN" => pc[created] # "none"
      BY <2>1 DEF IInv, OpenInv, OpenOf, Uncanceled
    <3> QED BY <2>1, <2>2, <3>1, <3>2 DEF IInv, ProcessInv, ProcessOf
  <2> QED BY <2>2, <2>3, <2>4
<1>5. \A u \in Slots : sub[u].step = "bind" => created \notin bound
  BY <1>2 DEF IInv, RowInv, ServedRow
<1>6. \A s \in Scans : fin[s] # Nothing => task[s] = "OPEN" /\ pc[s] = "wait"
  BY DEF IInv, OpenInv, OpenOf, Uncanceled
<1>7. \A s \in Scans : s \notin bound =>
        scan[s].state \in {"NONE", "INIT"} /\ task[s] = "NONE" /\ fin[s] = Nothing
  BY DEF IInv, RowInv, UnboundRow
<1>8. \A s \in Scans : s > created => scan[s].state = "NONE" /\ s \notin bound
  BY DEF IInv, RowInv, NewRow
<1> QED BY <1>1, <1>2, <1>3, <1>4, <1>5, <1>6, <1>7, <1>8

(* Steps of the worker.                                                    *)

LEMMA WorkerFlow ==
  ASSUME IInv, Flow, overlaps = {}, NEW s \in Scans,
         OpenTask(s) \/ CloseTask(s) \/ Kill(s)
  PROVE  Flow' /\ Stutters
<1>1. UNCHANGED <<created, scan, bound, result, clock, sub, fin, overlaps, before>>
  BY DEF OpenTask, CloseTask, Kill, tables, history
<1>2. TypeOK /\ created \in 0 .. MaxScans
  BY DEF IInv, TypeOK
<1>3. \A u \in Slots : sub[u].step = "free" => created # 0
  BY AloneFacts
<1>4. \A t \in Scans : /\ pc'[t] = "report" /\ task'[t] = "OPEN" =>
                            pc[t] = "report" /\ task[t] = "OPEN"
                       /\ task[t] = "CREATED" => task'[t] = "CREATED"
  BY <1>2 DEF OpenTask, CloseTask, Kill, Goto, TypeOK
<1> QED BY <1>1, <1>2, <1>3, <1>4, FlowQuiet

LEMMA ScanningFlow ==
  ASSUME IInv, TypeOK', Flow, overlaps = {}, overlaps' = {}, NEW s \in Scans,
         SetScanToScanning(s)
  PROVE  Flow' /\ Stutters
<1>1. /\ pc[s] = "scanning" /\ task[s] = "OPEN" /\ pc' = [pc EXCEPT ![s] = "report"]
      /\ scan' = [scan EXCEPT ![s].state = "SCANNING"]
      /\ UNCHANGED <<created, bound, result, clock, task, sub, fin, before>>
      /\ ~\E u \in Submitting : sub[u].step # "create" /\ sub[u].s = s
  BY DEF SetScanToScanning, Goto, Overlap
<1>2. s \in bound /\ scan[s].state \in InProgress /\ s = created
  <2>1. s \in bound
    BY <1>1, AloneFacts
  <2>2. Fresh(s)
    BY <1>1 DEF Fresh
  <2> QED BY <2>1, <2>2, AloneFacts DEF IInv, ProcessInv, ProcessOf
<1>3. Submitting = {}
  <2> SUFFICES ASSUME NEW u \in Submitting PROVE FALSE
    OBVIOUS
  <2>1. u \in Slots /\ sub[u].step \in {"create", "bind", "free", "child", "link", "queue"}
    BY SubmissionFields DEF Submitting, IInv
  <2> QED BY <1>1, <1>2, <2>1, AloneFacts
<1>4. Finishing = {}
  <2> SUFFICES ASSUME NEW t \in Finishing PROVE FALSE
    OBVIOUS
  <2>1. t \in Scans /\ fin[t] # Nothing
    BY DEF Finishing
  <2>2. t = created
    BY <2>1, AloneFacts DEF Flow, HeldInv
  <2> QED BY <1>1, <1>2, <2>1, <2>2, AloneFacts
<1>5. /\ \A t \in Scans : /\ scan'[t].enabled = scan[t].enabled
                          /\ scan'[t].parent = scan[t].parent
                          /\ t # s => scan'[t].state = scan[t].state
      /\ scan'[s].state = "SCANNING"
  BY <1>1 DEF IInv, TypeOK, Rows
<1>6. /\ Obsolete' = Obsolete /\ LatestOfPackage' = LatestOfPackage /\ Enabled' = Enabled
      /\ Stream' = Stream
  BY <1>1, <1>2, <1>5, SameStream DEF IInv, TypeOK
<1>7. /\ Submitting' = {} /\ Finishing' = {}
      /\ \A t : Children(t)' = Children(t)
  BY <1>1, <1>3, <1>4, <1>5 DEF Submitting, Finishing, Children
<1>8. Stutters
  BY <1>3, <1>4, <1>6, <1>7 DEF Stutters, Shown, Calm
<1>9. ResultInv'
  BY <1>1, <1>2, <1>5 DEF Flow, ResultInv
<1>10. ParentInv'
  BY <1>1, <1>2, <1>5 DEF Flow, ParentInv
<1>11. HeldInv'
  BY <1>1, <1>4, <1>5, <1>7 DEF Flow, HeldInv, IInv, TypeOK, Finishing
<1>12. CountInv' /\ SubmitInv'
  BY <1>1, <1>3, <1>6, <1>7 DEF Flow, CountInv, SubmitInv, Submitting
<1> QED BY <1>8, <1>9, <1>10, <1>11, <1>12 DEF Flow

(* Without a submission the stream shows as it is.                         *)
LEMMA ShownNow == ASSUME Flow, Submitting = {} PROVE Shown = Stream
<1>1. \A s \in Scans : fin[s] # Nothing => before = Stream
  BY DEF Flow, HeldInv
<1> QED BY <1>1 DEF Shown, Calm, Finishing

(* The scan in progress dies.                                              *)
LEMMA Dies ==
  ASSUME IInv, TypeOK', Flow, overlaps = {}, Submitting = {},
         NEW s \in bound, scan[s].state \in InProgress,
         NEW st \in {"CANCELED", "FAILED"}, scan' = Dead({s}, st),
         UNCHANGED <<created, bound, result, clock, sub>>,
         \A t \in Scans : /\ fin'[t] = Nothing
                          /\ pc'[t] = "report" /\ task'[t] = "OPEN" =>
                               t # s /\ pc[t] = "report" /\ task[t] = "OPEN"
  PROVE  Flow' /\ Abandons
<1>1. TypeOK /\ s \in Scans /\ s = created /\ Obsolete = {s}
  <2>1. TypeOK /\ s \in Scans
    BY DEF IInv, TypeOK
  <2> QED BY <2>1, AloneFacts DEF Obsolete, TypeOK
<1>2. \A t \in Scans : /\ scan'[t].parent = scan[t].parent
                       /\ scan'[t].enabled <=> t \in LatestOfPackage
  <2>1. scan' = Dead(Obsolete, st)
    BY <1>1
  <2> QED BY <2>1, DeadStream DEF Flow
<1>3. /\ scan'[s].state = st
      /\ \A t \in Scans : t # s => scan'[t].state = scan[t].state
  <2>1. TypeOK /\ s \in Scans
    BY <1>1
  <2>2. /\ Dead({s}, st)[s].state = st
        /\ \A t \in Scans \ {s} : Dead({s}, st)[t].state = scan[t].state
    BY <2>1, DeadOne
  <2> QED BY <2>2
<1>4. LatestOfPackage' = LatestOfPackage
  BY <1>1, <1>2, <1>3, SameLatest
<1>5. /\ Submitting' = {} /\ Finishing' = {} /\ Obsolete' = {}
      /\ \A t : Children(t)' = Children(t)
  <2>1. \A t \in Scans \ {s} : scan[t].state \notin InProgress
    BY <1>1, AloneFacts
  <2>2. Submitting' = {} /\ Finishing' = {}
    BY DEF Submitting, Finishing
  <2>3. Obsolete' = {}
    <3>1. \A t \in Scans : scan'[t].state \notin InProgress
      BY <1>3, <2>1
    <3> QED BY <1>1, <3>1 DEF Obsolete, TypeOK
  <2>4. \A t : Children(t)' = Children(t)
    BY <1>2 DEF Children
  <2> QED BY <2>2, <2>3, <2>4
<1>6. LatestOfPackage \subseteq Scans
  BY <1>1, LatestOne DEF Flow
<1>7. Enabled' = LatestOfPackage
  BY <1>2, <1>6 DEF Enabled
<1>8. Abandons
  <2>1. Shown = Stream /\ Stream.pending = {s} /\ Stream.last = LatestOfPackage
    BY <1>1, ShownNow DEF Stream
  <2>2. Shown' = Stream'
    BY <1>5 DEF Shown, Calm
  <2>3. Stream'.pending = {} /\ Stream'.last = LatestOfPackage /\ Stream'.current = LatestOfPackage
    BY <1>4, <1>5, <1>7 DEF Stream, Enabled
  <2> QED BY <2>1, <2>2, <2>3 DEF Abandons
<1>9. ResultInv'
  BY <1>1, <1>2, <1>3 DEF Flow, ResultInv
<1>10. ParentInv'
  BY <1>1, <1>2, <1>3 DEF Flow, ParentInv
<1>11. HeldInv'
  <2>1. \A t \in Scans : ~(pc'[t] = "report" /\ task'[t] = "OPEN")
    BY <1>1, AloneFacts DEF Flow, HeldInv
  <2> QED BY <2>1 DEF HeldInv
<1>12. CountInv' /\ SubmitInv'
  BY <1>4, <1>5, <1>7 DEF CountInv, SubmitInv, Submitting
<1> QED BY <1>8, <1>9, <1>10, <1>11, <1>12 DEF Flow

LEMMA CalmIfMet ==
  ASSUME NEW by, Meets(by), overlaps' = {}
  PROVE  overlaps = {} /\ Submitting = {} /\ Finishing = {} /\ before' = Stream
  BY MeetsOverlaps DEF Meets

LEMMA FailTaskFlow ==
  ASSUME IInv, TypeOK', Flow, overlaps' = {}, NEW s \in Scans, FailTask(s)
  PROVE  Flow' /\ Abandons
<1>1. overlaps = {} /\ Submitting = {} /\ Finishing = {}
  BY CalmIfMet DEF FailTask
<1>2. scan[s].state \in InProgress /\ s \in bound
  <2>1. scan[s].state \in InProgress /\ task[s] = "OPEN"
    BY DEF FailTask, Flow, HeldInv
  <2> QED BY <1>1, <2>1, AloneFacts
<1>3. \A t \in Scans : /\ fin'[t] = Nothing
                       /\ pc'[t] = "report" /\ task'[t] = "OPEN" =>
                            t # s /\ pc[t] = "report" /\ task[t] = "OPEN"
  BY <1>1 DEF FailTask, Goto, Finishing, IInv, TypeOK
<1> QED BY <1>1, <1>2, <1>3, Dies DEF FailTask

LEMMA CancelTaskFlow ==
  ASSUME IInv, TypeOK', Flow, overlaps' = {}, NEW s \in Scans, CancelTask(s)
  PROVE  Flow' /\ Abandons
<1>1. overlaps = {} /\ Submitting = {} /\ Finishing = {} /\ TypeOK
  BY CalmIfMet DEF CancelTask, IInv
<1>2. \A t \in Scans : /\ fin'[t] = Nothing
                       /\ pc'[t] = "report" /\ task'[t] = "OPEN" =>
                            t # s /\ pc[t] = "report" /\ task[t] = "OPEN"
  BY <1>1, CanceledOne DEF CancelTask, Finishing
<1> QED BY <1>1, <1>2, Dies DEF CancelTask

(* finish_scan                                                             *)

LEMMA StartFinishFlow ==
  ASSUME IInv, Flow, overlaps = {}, overlaps' = {}, NEW s \in Scans, StartFinish(s)
  PROVE  Flow' /\ Stutters
<1>1. pc[s] = "report" /\ task[s] = "OPEN" /\ scan[s].state \in InProgress
  BY DEF StartFinish, Flow, HeldInv
<1>2. /\ fin' = [fin EXCEPT ![s] = [step |-> "unpack", scan |-> scan[s], task |-> task[s]]]
      /\ pc' = [pc EXCEPT ![s] = "wait"] /\ Meets("finish")
      /\ UNCHANGED <<created, scan, bound, result, clock, task, sub>>
  BY <1>1 DEF StartFinish, Goto, tables
<1>3. Submitting = {} /\ Finishing = {} /\ before' = Stream
  BY <1>2, CalmIfMet
<1>4. /\ Obsolete' = Obsolete /\ LatestOfPackage' = LatestOfPackage /\ Enabled' = Enabled
      /\ Stream' = Stream /\ Submitting' = {} /\ \A t : Children(t)' = Children(t)
  BY <1>2, <1>3 DEF Obsolete, LatestOfPackage, LatestResult, Enabled, Stream, Submitting,
     Children
<1>5. Stutters
  BY <1>3, <1>4 DEF Stutters, Shown, Calm
<1>6. ResultInv' /\ ParentInv'
  BY <1>2 DEF Flow, ResultInv, ParentInv
<1>7. HeldInv'
  <2>1. \A t \in Scans \ {s} : fin'[t] = Nothing /\ pc'[t] = pc[t]
    BY <1>2, <1>3 DEF Finishing, IInv, TypeOK
  <2>2. fin'[s].step = "unpack" /\ fin'[s].scan = scan[s] /\ pc'[s] = "wait"
    BY <1>2 DEF IInv, TypeOK
  <2> QED BY <1>1, <1>2, <1>3, <1>4, <2>1, <2>2 DEF Flow, HeldInv
<1>8. CountInv' /\ SubmitInv'
  BY <1>2, <1>3, <1>4 DEF Flow, CountInv, SubmitInv, Submitting
<1> QED BY <1>5, <1>6, <1>7, <1>8 DEF Flow

LEMMA UnpackFlow ==
  ASSUME IInv, Flow, overlaps = {}, NEW s \in Scans, Unpack(s)
  PROVE  Flow' /\ Stutters
<1>1. fin[s] # Nothing /\ fin[s].task = "OPEN" /\ task[s] = "OPEN"
  BY FinishFields, AloneFacts DEF Unpack, IInv
<1>2. /\ task' = task /\ fin' = [fin EXCEPT ![s].step = "load"]
      /\ UNCHANGED <<created, scan, bound, result, clock, pc, sub, before>>
  BY <1>1 DEF Unpack, tables, history, IInv, TypeOK
<1>3. Submitting = {} /\ before = Stream
  BY <1>1 DEF Flow, HeldInv
<1>4. /\ Obsolete' = Obsolete /\ LatestOfPackage' = LatestOfPackage /\ Enabled' = Enabled
      /\ Stream' = Stream /\ Submitting' = {} /\ \A t : Children(t)' = Children(t)
  BY <1>2, <1>3 DEF Obsolete, LatestOfPackage, LatestResult, Enabled, Stream, Submitting,
     Children
<1>5. Stutters
  <2>1. Shown = Stream
    BY <1>3, ShownNow
  <2>2. Shown' = Stream
    BY <1>2, <1>3, <1>4 DEF Shown
  <2> QED BY <2>1, <2>2 DEF Stutters
<1>6. ResultInv' /\ ParentInv'
  BY <1>2 DEF Flow, ResultInv, ParentInv
<1>7. HeldInv'
  <2>1. /\ \A t \in Scans \ {s} : fin'[t] = fin[t]
        /\ fin'[s].step = "load" /\ fin'[s].scan = fin[s].scan
    BY <1>2, FinishFields DEF IInv, TypeOK, Finishes, Nothing
  <2>2. \A t \in Scans : fin'[t] # Nothing => fin[t] # Nothing
    BY <1>1, <2>1
  <2> QED BY <1>1, <1>2, <1>3, <1>4, <2>1, <2>2 DEF Flow, HeldInv
<1>8. CountInv' /\ SubmitInv'
  BY <1>2, <1>3, <1>4 DEF Flow, CountInv, SubmitInv, Submitting
<1> QED BY <1>5, <1>6, <1>7, <1>8 DEF Flow

(* What is known of a finish_scan that is alone.                           *)
LEMMA FinishFacts ==
  ASSUME IInv, Flow, overlaps = {}, NEW s \in Scans, fin[s] # Nothing
  PROVE  /\ s \in bound /\ scan[s].state \in InProgress /\ Obsolete = {s} /\ s = created
         /\ Submitting = {} /\ before = Stream /\ Shown = Stream
         /\ \A t \in Scans \ {s} : fin[t] = Nothing
         /\ \A t \in Scans : ~(pc[t] = "report" /\ task[t] = "OPEN")
<1>1. scan[s].state \in InProgress /\ Submitting = {} /\ before = Stream
  BY DEF Flow, HeldInv
<1>2. s \in bound /\ s = created
  BY <1>1, AloneFacts
<1>3. Obsolete = {s}
  BY <1>1, <1>2, AloneFacts DEF Obsolete, TypeOK
<1>4. \A t \in Scans \ {s} : fin[t] = Nothing
  BY <1>2, AloneFacts DEF Flow, HeldInv
<1>5. \A t \in Scans : ~(pc[t] = "report" /\ task[t] = "OPEN")
  BY <1>2, AloneFacts DEF Flow, HeldInv
<1> QED BY <1>1, <1>2, <1>3, <1>4, <1>5, ShownNow

LEMMA LoadResultFlow ==
  ASSUME IInv, TypeOK', Flow, overlaps = {}, NEW s \in Scans, LoadResult(s)
  PROVE  Flow' /\ (Stutters \/ Abandons)
<1>1. fin[s] # Nothing /\ fin[s].step = "load" /\ TypeOK
  BY FinishFields DEF LoadResult, IInv
<1>2. /\ s \in bound /\ scan[s].state \in InProgress /\ Obsolete = {s}
      /\ Submitting = {} /\ before = Stream /\ Shown = Stream
      /\ \A t \in Scans \ {s} : fin[t] = Nothing
      /\ \A t \in Scans : ~(pc[t] = "report" /\ task[t] = "OPEN")
  BY <1>1, FinishFacts
<1>3. UNCHANGED <<created, bound, task, sub, overlaps, before>>
  BY DEF LoadResult, history
<1>4. ASSUME clock' = clock + 1, result' = [result EXCEPT ![s] = clock + 1],
             fin' = [fin EXCEPT ![s].step = "verdict"], UNCHANGED <<scan, pc>>
      PROVE  Flow' /\ Stutters
  <2>1. \A t \in Scans \ {s} : result'[t] = result[t]
    BY <1>4 DEF Flow, ResultInv
  <2>2. /\ Obsolete' = Obsolete /\ LatestOfPackage' = LatestOfPackage /\ Enabled' = Enabled
        /\ Stream' = Stream
    BY <1>1, <1>2, <1>3, <1>4, <2>1, SameStream DEF TypeOK
  <2>3. Submitting' = {} /\ \A t : Children(t)' = Children(t)
    BY <1>2, <1>3, <1>4 DEF Submitting, Children
  <2>4. Stutters
    BY <1>2, <1>3, <2>2 DEF Stutters, Shown
  <2>5. ResultInv'
    <3>1. /\ clock \in Nat /\ clock' = clock + 1 /\ clock' \in Nat /\ result' \in [Scans -> Nat]
          /\ result'[s] = clock + 1 /\ \A t \in Scans : result[t] <= clock /\ result[t] \in Nat
      BY <1>4 DEF Flow, ResultInv
    <3>2. \A t \in Scans : result'[t] <= clock'
      BY <2>1, <3>1
    <3>3. \A t, x \in Scans : result'[t] = result'[x] /\ result'[t] # 0 => t = x
      <4>1. \A t \in Scans \ {s} : result'[t] # result'[s]
        BY <2>1, <3>1
      <4>2. \A t, x \in Scans \ {s} : result'[t] = result'[x] /\ result'[t] # 0 => t = x
        BY <2>1 DEF Flow, ResultInv
      <4> QED BY <4>1, <4>2
    <3>4. \A t \in Scans : scan'[t].state \in FinishedWell => result'[t] # 0
      BY <1>2, <1>4, <2>1 DEF Flow, ResultInv
    <3> QED BY <3>1, <3>2, <3>3, <3>4 DEF ResultInv
  <2>6. ParentInv'
    BY <1>3, <1>4 DEF Flow, ParentInv
  <2>7. HeldInv'
    <3>1. fin'[s].scan = fin[s].scan /\ \A t \in Scans \ {s} : fin'[t] = Nothing
      BY <1>1, <1>2, <1>4, FinishFields DEF TypeOK, Finishes, Nothing
    <3>2. result'[s] = clock' /\ clock' # 0 /\ fin[s].scan = scan[s]
      BY <1>1, <1>4 DEF Flow, ResultInv, HeldInv
    <3> QED BY <1>2, <1>3, <1>4, <2>2, <2>3, <3>1, <3>2 DEF HeldInv
  <2>8. CountInv' /\ SubmitInv'
    BY <1>2, <1>3, <2>2, <2>3 DEF Flow, CountInv, SubmitInv, Submitting
  <2> QED BY <2>4, <2>5, <2>6, <2>7, <2>8 DEF Flow
<1>5. ASSUME scan' = Dead({s}, "FAILED"), fin' = [fin EXCEPT ![s] = Nothing],
             Goto(s, IF pc[s] = "wait" THEN "close" ELSE "none"), UNCHANGED <<result, clock>>
      PROVE  Flow' /\ Abandons
  <2>1. \A t \in Scans : /\ fin'[t] = Nothing
                         /\ pc'[t] = "report" /\ task'[t] = "OPEN" =>
                              t # s /\ pc[t] = "report" /\ task[t] = "OPEN"
    BY <1>1, <1>2, <1>3, <1>5 DEF Goto, TypeOK
  <2> QED BY <1>2, <1>3, <1>5, <2>1, Dies
<1> QED BY <1>4, <1>5 DEF LoadResult

LEMMA SaveVerdictFlow ==
  ASSUME IInv, TypeOK', Flow, overlaps = {}, NEW s \in Scans, SaveVerdict(s)
  PROVE  Flow' /\ Finished
<1>1. fin[s] # Nothing /\ fin[s].step = "verdict" /\ TypeOK
  BY FinishFields DEF SaveVerdict, IInv
<1>2. /\ s \in bound /\ scan[s].state \in InProgress /\ Obsolete = {s} /\ s = created
      /\ Submitting = {} /\ before = Stream /\ Shown = Stream
      /\ \A t \in Scans \ {s} : fin[t] = Nothing
      /\ \A t \in Scans : ~(pc[t] = "report" /\ task[t] = "OPEN")
  BY <1>1, FinishFacts
<1>3. fin[s].scan = scan[s] /\ result[s] = clock /\ clock # 0
  BY <1>1 DEF Flow, HeldInv
<1>4. PICK verdict \in Verdicts : scan' = [scan EXCEPT ![s] = [scan[s] EXCEPT !.state = verdict]]
  BY <1>3 DEF SaveVerdict
<1>5. UNCHANGED <<created, bound, result, clock, task, sub, overlaps, before>>
  BY DEF SaveVerdict, history
<1>6. /\ scan'[s].state \in FinishedWell /\ scan'[s].parent = scan[s].parent
      /\ scan'[s].enabled = scan[s].enabled /\ \A t \in Scans \ {s} : scan'[t] = scan[t]
  BY <1>1, <1>4 DEF TypeOK, Rows
<1>7. \A t \in Scans : fin'[t] = Nothing /\ ~(pc'[t] = "report" /\ task'[t] = "OPEN")
  BY <1>1, <1>2, <1>5 DEF SaveVerdict, Goto, TypeOK
<1>8. Obsolete' = {}
  <2>1. \A t \in Scans : scan'[t].state \notin InProgress
    BY <1>2, <1>6, AloneFacts
  <2> QED BY <1>1, <1>5, <2>1 DEF Obsolete, TypeOK
<1>9. LatestOfPackage' = {s}
  <2> DEFINE F == {t \in bound : scan'[t].state \in FinishedWell}
  <2>1. LatestOfPackage' = {t \in F : \A x \in F : result[x] <= result[t]}
    BY <1>5 DEF LatestOfPackage, LatestResult
  <2>2. s \in F /\ F \subseteq Scans
    BY <1>1, <1>2, <1>6 DEF TypeOK
  <2>3. \A x \in Scans : result[x] <= result[s] /\ result[x] \in Nat /\ result[s] \in Nat
    BY <1>3 DEF Flow, ResultInv
  <2>4. \A t \in Scans : result[s] <= result[t] => t = s
    BY <1>3, <2>3 DEF Flow, ResultInv
  <2> HIDE DEF F
  <2> QED BY <2>1, <2>2, <2>3, <2>4
<1>10. /\ Enabled' = {s} /\ Submitting' = {} /\ Finishing' = {}
       /\ Stream.current = {s} /\ Stream.pending = {s}
  <2>1. Enabled = {s}
    BY <1>2 DEF Flow, CountInv
  <2>2. Enabled' = Enabled
    BY <1>6 DEF Enabled
  <2>3. Submitting' = {} /\ Finishing' = {}
    BY <1>2, <1>5, <1>7 DEF Submitting, Finishing
  <2> QED BY <1>2, <2>1, <2>2, <2>3 DEF Stream, Enabled
<1>11. Finished
  <2>1. Shown' = Stream' /\ Stream' = [pending |-> {}, last |-> {s}, current |-> {s}]
    BY <1>8, <1>9, <1>10 DEF Shown, Calm, Stream, Enabled
  <2> QED BY <1>2, <1>10, <2>1 DEF Finished
<1>12. ResultInv'
  BY <1>3, <1>5, <1>6 DEF Flow, ResultInv
<1>13. ParentInv'
  BY <1>5, <1>6 DEF Flow, ParentInv
<1>14. HeldInv'
  BY <1>7 DEF HeldInv
<1>15. CountInv' /\ SubmitInv'
  BY <1>8, <1>9, <1>10 DEF CountInv, SubmitInv, Submitting
<1> QED BY <1>11, <1>12, <1>13, <1>14, <1>15 DEF Flow

(* The submission that is alone.                                           *)

(* No finish_scan runs and no process is about to report meanwhile.        *)
LEMMA SubmitFacts ==
  ASSUME IInv, Flow, overlaps = {}, NEW u \in Slots, sub[u] # Nothing
  PROVE  /\ TypeOK /\ Submitting = {u} /\ Finishing = {} /\ Shown = before
         /\ \A s \in Scans : fin[s] = Nothing
         /\ before.last = LatestOfPackage
         /\ LatestOfPackage \subseteq {s \in bound : s <= created /\ scan[s].state \in FinishedWell}
         /\ \A v \in Slots \ {u} : sub[v] = Nothing
<1>1. TypeOK /\ Submitting = {u}
  BY AloneFacts DEF Submitting
<1>2. Finishing = {} /\ \A s \in Scans : fin[s] = Nothing
  BY <1>1 DEF Flow, HeldInv, Finishing
<1>3. LatestOfPackage \subseteq {s \in bound : s <= created /\ scan[s].state \in FinishedWell}
  BY <1>1, LatestOne, AloneFacts DEF Flow, TypeOK
<1> QED BY <1>1, <1>2, <1>3 DEF Shown, Calm, Flow, SubmitInv, Submitting

(* What makes a statement of a submission, but the first and the last,     *)
(* keep the stream as it shows.                                            *)
LEMMA SubmitGoes ==
  ASSUME IInv, Flow, overlaps = {}, NEW u \in Slots, sub[u] # Nothing,
         UNCHANGED <<result, clock, fin, before>>,
         sub'[u] # Nothing, sub'[u].step # "create", sub' = [sub EXCEPT ![u] = sub'[u]],
         LatestOfPackage' = LatestOfPackage,
         \A s \in Scans : /\ scan'[s].state \in FinishedWell => scan[s].state \in FinishedWell
                          /\ pc'[s] = "report" /\ task'[s] = "OPEN" =>
                               scan'[s].state \in InProgress,
         ParentInv',
         \A s \in before.pending : s < created',
         Enabled' = {created'} \cup (IF sub'[u].step = "queue" THEN {} ELSE LatestOfPackage),
         Children(created)' = IF sub'[u].step = "queue" THEN LatestOfPackage ELSE {},
         sub'[u].step = "free" => task'[created'] = "CREATED",
         sub'[u].step = "link" =>
           LatestOfPackage = {sub'[u].child} /\ sub'[u].row = scan'[sub'[u].child]
  PROVE  Flow' /\ Stutters
<1>1. /\ TypeOK /\ Submitting = {u} /\ Finishing = {} /\ Shown = before
      /\ \A s \in Scans : fin[s] = Nothing
      /\ before.last = LatestOfPackage
      /\ \A v \in Slots \ {u} : sub[v] = Nothing
  BY SubmitFacts
<1>2. /\ \A v \in Slots \ {u} : sub'[v] = Nothing
      /\ Submitting' # {}
  BY <1>1 DEF TypeOK, Submitting
<1>3. Stutters
  BY <1>1, <1>2 DEF Stutters, Shown, Calm
<1>4. ResultInv'
  BY DEF Flow, ResultInv
<1>5. HeldInv' /\ CountInv'
  BY <1>1, <1>2 DEF HeldInv, CountInv
<1>6. SubmitInv'
  BY <1>1, <1>2 DEF SubmitInv
<1> QED BY <1>3, <1>4, <1>5, <1>6 DEF Flow

LEMMA CancelObsoleteFlow ==
  ASSUME IInv, TypeOK', Flow, overlaps' = {}, NEW u \in Slots, CancelObsolete(u)
  PROVE  Flow' /\ Stutters
<1>1. overlaps = {} /\ Submitting = {} /\ Finishing = {} /\ before' = Stream /\ TypeOK
  BY CalmIfMet DEF CancelObsolete, IInv
<1>2. /\ scan' = Dead(Obsolete, "CANCELED") /\ task' = Canceled(Obsolete)
      /\ sub' = [sub EXCEPT ![u] = [step |-> "create"]]
      /\ UNCHANGED <<created, bound, result, clock, pc, fin>>
  BY DEF CancelObsolete
<1>3. /\ \A s \in Scans : /\ scan'[s].parent = scan[s].parent
                          /\ scan'[s].enabled <=> s \in LatestOfPackage
  BY <1>1, <1>2, DeadStream DEF Flow
<1>4. \A s \in Scans : /\ scan'[s].state = IF s \in Obsolete THEN "CANCELED" ELSE scan[s].state
                       /\ task'[s] = IF s \in Obsolete /\ task[s] \in Unfinished
                                     THEN "CANCELED" ELSE task[s]
  BY <1>1, <1>2, ObsoleteCanceled
<1>5. LatestOfPackage' = LatestOfPackage
  BY <1>1, <1>2, <1>4, SameLatest DEF Obsolete
<1>6. Enabled' = LatestOfPackage
  BY <1>1, <1>3, LatestOne DEF Enabled, Flow
<1>7. /\ sub'[u].step = "create" /\ sub'[u] # Nothing
      /\ \A v \in Slots \ {u} : sub'[v] = Nothing
      /\ \A s \in Scans : fin'[s] = Nothing
  BY <1>1, <1>2 DEF Submitting, Finishing, Nothing, TypeOK
<1>8. u \in Submitting'
  BY <1>7 DEF Submitting
<1>9. Stutters
  BY <1>1, <1>8, ShownNow DEF Stutters, Shown, Calm
<1>10. ResultInv'
  BY <1>2, <1>4 DEF Flow, ResultInv
<1>11. ParentInv'
  BY <1>2, <1>3, <1>4 DEF Flow, ParentInv, Obsolete
<1>12. HeldInv'
  <2>1. \A s \in Scans : ~(pc'[s] = "report" /\ task'[s] = "OPEN")
    <3> SUFFICES ASSUME NEW s \in Scans, pc'[s] = "report", task'[s] = "OPEN" PROVE FALSE
      OBVIOUS
    <3>1. pc[s] = "report" /\ task[s] = "OPEN" /\ s \notin Obsolete
      BY <1>2, <1>4
    <3>2. scan[s].state \in InProgress /\ s \in bound
      BY <1>1, <3>1, AloneFacts DEF Flow, HeldInv
    <3> QED BY <3>1, <3>2 DEF Obsolete
  <2> QED BY <1>7, <2>1 DEF HeldInv
<1>13. CountInv'
  BY <1>8 DEF CountInv
<1>14. SubmitInv'
  <2>1. before'.last = LatestOfPackage /\ before'.pending = Obsolete
    BY <1>1 DEF Stream
  <2>2. Obsolete \subseteq 1 .. created
    <3> SUFFICES ASSUME NEW s \in Obsolete PROVE s \in 1 .. created
      OBVIOUS
    <3>1. s \in Scans /\ ~(s > created) /\ created \in Nat
      BY <1>1, AloneFacts DEF Obsolete, TypeOK
    <3> QED BY <3>1
  <2> QED BY <1>2, <1>5, <1>6, <1>7, <2>1, <2>2 DEF SubmitInv
<1> QED BY <1>9, <1>10, <1>11, <1>12, <1>13, <1>14 DEF Flow

LEMMA CreateScanFlow ==
  ASSUME IInv, TypeOK', Flow, overlaps = {}, NEW u \in Slots, CreateScan(u)
  PROVE  Flow' /\ Stutters
<1> DEFINE n == created + 1
           row == [state |-> "INIT", enabled |-> TRUE, parent |-> NoScan]
<1>1. /\ sub[u].step = "create" /\ created' = n /\ scan' = [scan EXCEPT ![n] = row]
      /\ sub' = [sub EXCEPT ![u] = [step |-> "bind", s |-> n]]
      /\ UNCHANGED <<bound, result, clock, task, pc, fin, before>>
  BY DEF CreateScan, Step, history
<1>2. sub[u] # Nothing /\ sub'[u].step = "bind" /\ sub'[u] # Nothing
      /\ sub' = [sub EXCEPT ![u] = sub'[u]]
  BY <1>1 DEF Nothing, IInv, TypeOK
<1>3. n \in Scans /\ n > created /\ TypeOK /\ created \in Nat
  BY <1>1 DEF IInv, TypeOK
<1>4. n \notin bound /\ scan[n].state = "NONE" /\ task[n] = "NONE"
  BY <1>3, AloneFacts
<1>5. /\ scan'[n] = row /\ row.state = "INIT" /\ row.enabled /\ row.parent = NoScan
      /\ \A s \in Scans \ {n} : scan'[s] = scan[s]
  BY <1>1, <1>3 DEF TypeOK
<1> HIDE DEF row
<1>6. LatestOfPackage' = LatestOfPackage
  BY <1>1, <1>3, <1>4, <1>5, SameLatest
<1>7. Enabled = LatestOfPackage /\ before.pending \subseteq 1 .. created
  BY <1>1, <1>2 DEF Flow, SubmitInv
<1>8. Enabled' = {n} \cup LatestOfPackage
  BY <1>3, <1>5, <1>7 DEF Enabled
<1>9. Children(created)' = {}
  <2>1. \A s \in Scans : scan[s].parent <= created /\ scan[s].parent \in Nat
    BY <1>3 DEF Flow, ParentInv, TypeOK, Rows
  <2>2. \A s \in Scans : scan'[s].parent # n
    BY <1>3, <1>5, <2>1
  <2> QED BY <1>1, <2>2 DEF Children
<1>10. ParentInv'
  <2>1. \A s \in Scans : scan[s].parent <= created /\ scan[s].parent \in Nat
    BY <1>3 DEF Flow, ParentInv, TypeOK, Rows
  <2> QED BY <1>1, <1>3, <1>5, <2>1 DEF Flow, ParentInv
<1>11. \A s \in Scans : /\ scan'[s].state \in FinishedWell => scan[s].state \in FinishedWell
                        /\ pc'[s] = "report" /\ task'[s] = "OPEN" =>
                             scan'[s].state \in InProgress
  BY <1>1, <1>4, <1>5 DEF Flow, HeldInv
<1>12. \A s \in before.pending : s < created'
  BY <1>1, <1>3, <1>7
<1> QED BY <1>1, <1>2, <1>6, <1>8, <1>9, <1>10, <1>11, <1>12, SubmitGoes

LEMMA BindFlow ==
  ASSUME IInv, TypeOK', Flow, overlaps = {}, NEW u \in Slots, Bind(u)
  PROVE  Flow' /\ Stutters
<1>1. sub[u].step = "bind" /\ sub[u].s = created /\ created \in Scans /\ created \notin bound
  BY AloneFacts DEF Bind
<1>2. /\ task' = [task EXCEPT ![created] = "CREATED"] /\ bound' = bound \cup {created}
      /\ sub' = [sub EXCEPT ![u] = [step |-> "free", s |-> created]]
      /\ UNCHANGED <<created, scan, result, clock, pc, fin, before>>
  BY <1>1 DEF Bind, Step, history
<1>3. sub[u] # Nothing /\ sub'[u].step = "free" /\ sub'[u] # Nothing
      /\ sub' = [sub EXCEPT ![u] = sub'[u]]
  BY <1>1, <1>2 DEF Nothing, IInv, TypeOK
<1>4. LatestOfPackage' = LatestOfPackage
  <2>1. TypeOK /\ scan[created].state \notin FinishedWell
    BY <1>1, AloneFacts
  <2> QED BY <1>2, <2>1, SameLatest
<1>5. /\ \A s \in before.pending : s < created
      /\ Enabled = {created} \cup LatestOfPackage /\ Children(created) = {}
  BY <1>1, <1>3 DEF Flow, SubmitInv
<1>6. Enabled' = Enabled /\ Children(created)' = Children(created) /\ ParentInv'
  BY <1>2 DEF Enabled, Children, Flow, ParentInv
<1>7. task'[created] = "CREATED" /\ \A s \in Scans \ {created} : task'[s] = task[s]
  BY <1>1, <1>2 DEF IInv, TypeOK
<1>8. \A s \in Scans : pc'[s] = "report" /\ task'[s] = "OPEN" => scan'[s].state \in InProgress
  BY <1>2, <1>7 DEF Flow, HeldInv
<1> QED BY <1>2, <1>3, <1>4, <1>5, <1>6, <1>7, <1>8, SubmitGoes

LEMMA FreeTaskFlow ==
  ASSUME IInv, Flow, overlaps = {}, NEW u \in Slots, FreeTask(u)
  PROVE  Flow' /\ Stutters
<1>1. /\ sub[u].step = "free" /\ sub[u].s = created /\ created \in Scans
      /\ sub[u] # Nothing
  BY AloneFacts DEF FreeTask, Nothing
<1>2. task[created] = "CREATED"
  BY <1>1 DEF Flow, SubmitInv
<1>3. /\ task' = [task EXCEPT ![created] = "FREE"]
      /\ sub' = [sub EXCEPT ![u] = [step |-> "child", s |-> created]]
      /\ UNCHANGED <<created, scan, bound, result, clock, pc, fin, before>>
  BY <1>1, <1>2 DEF FreeTask, Step, history, tables
<1>4. sub'[u].step = "child" /\ sub'[u] # Nothing /\ sub' = [sub EXCEPT ![u] = sub'[u]]
  BY <1>1, <1>3 DEF Nothing, IInv, TypeOK
<1>5. /\ \A s \in before.pending : s < created
      /\ Enabled = {created} \cup LatestOfPackage /\ Children(created) = {}
  BY <1>1 DEF Flow, SubmitInv
<1>6. /\ LatestOfPackage' = LatestOfPackage
      /\ Enabled' = Enabled /\ Children(created)' = Children(created) /\ ParentInv'
  BY <1>3 DEF LatestOfPackage, LatestResult, Enabled, Children, Flow, ParentInv
<1>7. \A s \in Scans : pc'[s] = "report" /\ task'[s] = "OPEN" => scan'[s].state \in InProgress
  BY <1>3 DEF Flow, HeldInv, IInv, TypeOK
<1> QED BY <1>1, <1>3, <1>4, <1>5, <1>6, <1>7, SubmitGoes

LEMMA ReadChildFlow ==
  ASSUME IInv, Flow, overlaps = {}, NEW u \in Slots, ReadChild(u)
  PROVE  Flow' /\ Stutters
<1>1. /\ sub[u].step = "child" /\ sub[u].s = created /\ sub[u] # Nothing /\ TypeOK
  BY AloneFacts DEF ReadChild, Nothing
<1>2. UNCHANGED <<created, scan, bound, result, clock, task, pc, fin, before>>
  BY DEF ReadChild, Step, history, tables
<1>3. /\ \A s \in before.pending : s < created
      /\ Enabled = {created} \cup LatestOfPackage /\ Children(created) = {}
  BY <1>1 DEF Flow, SubmitInv
<1>4. /\ LatestOfPackage' = LatestOfPackage
      /\ Enabled' = Enabled /\ Children(created)' = Children(created) /\ ParentInv'
  BY <1>2 DEF LatestOfPackage, LatestResult, Enabled, Children, Flow, ParentInv
<1>5. \A s \in Scans : pc'[s] = "report" /\ task'[s] = "OPEN" => scan'[s].state \in InProgress
  BY <1>2 DEF Flow, HeldInv
<1>6. CASE LatestOfPackage = {}
  <2>1. sub' = [sub EXCEPT ![u] = [step |-> "queue", s |-> created]]
    BY <1>1, <1>6 DEF ReadChild, Step
  <2>2. sub'[u].step = "queue" /\ sub'[u] # Nothing /\ sub' = [sub EXCEPT ![u] = sub'[u]]
    BY <1>1, <2>1 DEF Nothing, TypeOK
  <2> QED BY <1>1, <1>2, <1>3, <1>4, <1>5, <1>6, <2>2, SubmitGoes
<1>7. CASE LatestOfPackage # {}
  <2>1. PICK c \in LatestOfPackage :
          sub' = [sub EXCEPT ![u] = [step |-> "link", s |-> created, child |-> c, row |-> scan[c]]]
    BY <1>1, <1>7 DEF ReadChild, Step
  <2>2. /\ sub'[u].step = "link" /\ sub'[u] # Nothing /\ sub' = [sub EXCEPT ![u] = sub'[u]]
        /\ sub'[u].child = c /\ sub'[u].row = scan[c]
    BY <1>1, <2>1 DEF Nothing, TypeOK
  <2>3. LatestOfPackage = {c}
    BY <1>1, LatestOne DEF Flow
  <2> QED BY <1>1, <1>2, <1>3, <1>4, <1>5, <2>2, <2>3, SubmitGoes
<1> QED BY <1>6, <1>7

LEMMA LinkChildFlow ==
  ASSUME IInv, TypeOK', Flow, overlaps = {}, NEW u \in Slots, LinkChild(u)
  PROVE  Flow' /\ Stutters
<1> DEFINE c == sub[u].child
           row == [sub[u].row EXCEPT !.parent = sub[u].s, !.enabled = FALSE]
<1>1. /\ sub[u].step = "link" /\ sub[u].s = created /\ sub[u] # Nothing /\ TypeOK
      /\ created \in Scans /\ scan[created].state \in InProgress
  BY AloneFacts DEF LinkChild, Nothing
<1>2. /\ scan' = [scan EXCEPT ![c] = row]
      /\ sub' = [sub EXCEPT ![u] = [step |-> "queue", s |-> created]]
      /\ UNCHANGED <<created, bound, result, clock, task, pc, fin, before>>
  BY <1>1 DEF LinkChild, Step, history
<1>3. /\ \A s \in before.pending : s < created
      /\ Enabled = {created} \cup LatestOfPackage /\ Children(created) = {}
      /\ LatestOfPackage = {c} /\ sub[u].row = scan[c]
  BY <1>1 DEF Flow, SubmitInv
<1>4. c \in Scans /\ scan[c].state \in FinishedWell /\ c # created
  BY <1>1, <1>3, LatestOne DEF Flow
<1>5. /\ scan'[c].state = scan[c].state /\ scan'[c].parent = created /\ ~scan'[c].enabled
      /\ \A s \in Scans \ {c} : scan'[s] = scan[s]
  BY <1>1, <1>2, <1>3, <1>4 DEF TypeOK, Rows
<1> HIDE DEF c, row
<1>6. \A s \in Scans : scan'[s].state = scan[s].state
  BY <1>5
<1>7. LatestOfPackage' = LatestOfPackage
  BY <1>1, <1>2, <1>6, SameLatest
<1>8. Enabled' = {created} /\ Children(created)' = LatestOfPackage
  BY <1>2, <1>3, <1>4, <1>5 DEF Enabled, Children
<1>9. ParentInv'
  <2>1. created <= created
    BY <1>1
  <2> QED BY <1>2, <1>4, <1>5, <2>1 DEF Flow, ParentInv
<1>10. /\ sub'[u].step = "queue" /\ sub'[u] # Nothing /\ sub' = [sub EXCEPT ![u] = sub'[u]]
  BY <1>1, <1>2 DEF Nothing, TypeOK
<1>11. \A s \in Scans : pc'[s] = "report" /\ task'[s] = "OPEN" => scan'[s].state \in InProgress
  BY <1>2, <1>6 DEF Flow, HeldInv
<1> QED BY <1>1, <1>2, <1>3, <1>6, <1>7, <1>8, <1>9, <1>10, <1>11, SubmitGoes

LEMMA QueueFlow ==
  ASSUME IInv, TypeOK', Flow, overlaps = {}, NEW u \in Slots, Queue(u)
  PROVE  Flow' /\ created \in Scans /\ Submits(created)
<1> DEFINE row == [state |-> "QUEUED", enabled |-> TRUE, parent |-> NoScan]
<1>1. /\ sub[u].step = "queue" /\ sub[u].s = created /\ sub[u] # Nothing /\ TypeOK
      /\ created \in Scans /\ created \in bound /\ scan[created].state \in InProgress
      /\ pc[created] \in {"none", "scanning"}
  BY AloneFacts DEF Queue, Nothing
<1>2. /\ scan' = [scan EXCEPT ![created] = row]
      /\ sub' = [sub EXCEPT ![u] = Nothing]
      /\ UNCHANGED <<created, bound, result, clock, task, pc, fin, before>>
  BY <1>1 DEF Queue, Step, history
<1>3. /\ \A s \in before.pending : s < created
      /\ Enabled = {created} /\ Children(created) = LatestOfPackage
  BY <1>1 DEF Flow, SubmitInv
<1>4. /\ scan'[created].state = "QUEUED" /\ scan'[created].parent = NoScan
      /\ scan'[created].enabled /\ \A s \in Scans \ {created} : scan'[s] = scan[s]
  BY <1>1, <1>2 DEF TypeOK
<1> HIDE DEF row
<1>5. /\ Shown = before /\ before.last = LatestOfPackage
      /\ \A s \in Scans : fin[s] = Nothing
      /\ LatestOfPackage \subseteq {s \in bound : s <= created /\ scan[s].state \in FinishedWell}
      /\ \A v \in Slots \ {u} : sub[v] = Nothing
  BY <1>1, SubmitFacts
<1>6. LatestOfPackage' = LatestOfPackage
  BY <1>1, <1>2, <1>4, SameLatest
<1>7. Obsolete' = {created}
  <2>1. \A s \in Scans \ {created} : scan'[s].state \notin InProgress
    BY <1>1, <1>4, AloneFacts
  <2>2. \A s \in bound : scan'[s].state \in InProgress <=> s = created
    BY <1>1, <1>4, <2>1 DEF TypeOK
  <2> QED BY <1>1, <1>2, <2>2 DEF Obsolete
<1>8. Enabled' = {created} /\ Children(created)' = LatestOfPackage
  <2>1. created \notin LatestOfPackage
    BY <1>1, <1>5
  <2> QED BY <1>1, <1>2, <1>3, <1>4, <2>1 DEF Enabled, Children
<1>9. Submitting' = {} /\ Finishing' = {} /\ \A v \in Slots : sub'[v] = Nothing
  BY <1>1, <1>2, <1>5 DEF Submitting, Finishing, TypeOK
<1>10. Submits(created)
  <2>1. Shown' = Stream'
    BY <1>9 DEF Shown, Calm
  <2>2. /\ Stream'.pending = {created} /\ Stream'.last = LatestOfPackage
        /\ Stream'.current = {created}
    BY <1>6, <1>7, <1>8 DEF Stream, Enabled
  <2>3. \A s \in LatestOfPackage : s < created
    <3> SUFFICES ASSUME NEW s \in LatestOfPackage PROVE s < created
      OBVIOUS
    <3>1. s \in Scans /\ s <= created /\ s # created
      BY <1>1, <1>5 DEF TypeOK
    <3> QED BY <1>1, <3>1
  <2> QED BY <1>3, <1>5, <2>1, <2>2, <2>3 DEF Submits
<1>11. ResultInv'
  <2>1. \A s \in Scans : scan'[s].state \in FinishedWell => scan[s].state \in FinishedWell
    BY <1>4
  <2> QED BY <1>2, <2>1 DEF Flow, ResultInv
<1>12. ParentInv'
  <2>1. NoScan <= created
    BY <1>1
  <2> QED BY <1>2, <1>4, <2>1 DEF Flow, ParentInv
<1>13. HeldInv'
  BY <1>1, <1>2, <1>4, <1>5 DEF Flow, HeldInv
<1>14. CountInv' /\ SubmitInv'
  BY <1>2, <1>6, <1>7, <1>8, <1>9 DEF CountInv, SubmitInv
<1> QED BY <1>1, <1>10, <1>11, <1>12, <1>13, <1>14 DEF Flow

-----------------------------------------------------------------------------
(* Every statement does what CurrentScan can do, while no requests overlap. *)
Shows == Stutters \/ Abandons \/ Finished \/ \E n \in Scans : Submits(n)

LEMMA FlowStays ==
  ASSUME IInv, IInv', Flow, overlaps = {}, overlaps' = {}, [Next]_vars
  PROVE  Flow' /\ Shows
<1>1. TypeOK /\ TypeOK'
  BY DEF IInv
<1>2. ASSUME NEW u \in Slots, Submission(u) PROVE Flow' /\ Shows
  BY <1>1, <1>2, CancelObsoleteFlow, CreateScanFlow, BindFlow, FreeTaskFlow, ReadChildFlow,
     LinkChildFlow, QueueFlow DEF Submission, Shows
<1>3. ASSUME NEW s \in Scans, Worker(s) PROVE Flow' /\ Shows
  BY <1>1, <1>3, WorkerFlow, ScanningFlow, StartFinishFlow, FailTaskFlow DEF Worker, Shows
<1>4. ASSUME NEW s \in Scans, Finish(s) PROVE Flow' /\ Shows
  BY <1>1, <1>4, UnpackFlow, LoadResultFlow, SaveVerdictFlow DEF Finish, Shows
<1>5. ASSUME NEW s \in Scans, CancelTask(s) PROVE Flow' /\ Shows
  BY <1>1, <1>5, CancelTaskFlow DEF Shows
<1>6. CASE UNCHANGED vars
  <2>1. UNCHANGED <<created, scan, bound, result, clock, sub, fin, overlaps, before, pc, task>>
    BY <1>6 DEF vars, tables, history
  <2>2. created \in 0 .. MaxScans /\ \A u \in Slots : sub[u].step = "free" => created # 0
    BY <1>1, AloneFacts DEF TypeOK
  <2> QED BY <2>1, <2>2, FlowQuiet DEF Shows
<1> QED BY <1>2, <1>3, <1>4, <1>5, <1>6 DEF Next

LEMMA OverlapsStay == ASSUME [Next]_vars, overlaps' = {} PROVE overlaps = {}
<1>1. ASSUME NEW u \in Slots, Submission(u) PROVE overlaps = {}
  BY <1>1 DEF Submission, CancelObsolete, CreateScan, Bind, FreeTask, ReadChild, LinkChild,
     Queue, Step, Meets, Overlap, history
<1>2. ASSUME NEW s \in Scans, Worker(s) PROVE overlaps = {}
  BY <1>2 DEF Worker, OpenTask, SetScanToScanning, StartFinish, CloseTask, FailTask, Kill,
     Meets, Overlap, history
<1>3. ASSUME NEW s \in Scans, Finish(s) \/ CancelTask(s) PROVE overlaps = {}
  BY <1>3 DEF Finish, Unpack, LoadResult, SaveVerdict, CancelTask, Meets, Overlap, history
<1> QED BY <1>1, <1>2, <1>3 DEF Next, vars, history

LEMMA InitFlow == Init => StreamInv /\ Alone!Init
<1> SUFFICES ASSUME Init PROVE Flow /\ Alone!Init
  BY DEF StreamInv
<1> USE DEF Init
<1>1. /\ Obsolete = {} /\ LatestOfPackage = {} /\ Enabled = {}
      /\ Submitting = {} /\ Finishing = {}
  BY DEF Obsolete, LatestOfPackage, LatestResult, Enabled, Submitting, Finishing
<1>2. ResultInv /\ ParentInv
  BY DEF ResultInv, ParentInv
<1>3. HeldInv /\ CountInv /\ SubmitInv
  BY <1>1 DEF HeldInv, CountInv, SubmitInv
<1>4. Shown = [pending |-> {}, last |-> {}, current |-> {}]
  BY <1>1 DEF Shown, Calm, Stream, Enabled
<1>5. Alone!Init
  BY <1>4 DEF Alone!Init
<1> QED BY <1>2, <1>3, <1>5 DEF Flow

(* A submission or a finish_scan that is alone in the hub implements one   *)
(* action of CurrentScan with all its statements, and so do cancellations  *)
(* and failures (handle_scan, finish_scan, cancel_scan, fail_scan), for    *)
(* any number of scans: the newest counts, or the last verdict again.      *)
THEOREM RequestsRefine == Spec => RequestsAreCurrent
<1>1. ASSUME IInv, IInv', StreamInv, [Next]_vars
      PROVE  StreamInv' /\ (overlaps' # {} \/ [Alone!Next]_(Alone!vars))
  <2>1. CASE overlaps' # {}
    BY <2>1 DEF StreamInv
  <2>2. CASE overlaps' = {}
    <3>1. overlaps = {}
      BY <1>1, <2>2, OverlapsStay
    <3>2. Flow' /\ Shows
      BY <1>1, <2>2, <3>1, FlowStays DEF StreamInv
    <3>3. ASSUME Stutters PROVE UNCHANGED Alone!vars
      BY <3>3 DEF Stutters, Alone!vars
    <3>4. ASSUME Abandons PROVE Alone!Next
      BY <3>4 DEF Abandons, Alone!Next, Alone!Abandon
    <3>5. ASSUME Finished PROVE Alone!Next
      BY <3>5 DEF Finished, Alone!Next, Alone!Finish
    <3>6. ASSUME NEW n \in Scans, Submits(n) PROVE Alone!Next
      BY <3>6 DEF Submits, Alone!Next, Alone!Submit
    <3>7. StreamInv'
      BY <3>2 DEF StreamInv
    <3> QED BY <3>2, <3>3, <3>4, <3>5, <3>6, <3>7 DEF Shows
  <2> QED BY <2>1, <2>2
<1> QED BY <1>1, Inductive, InitFlow, PTL DEF Spec, RequestsAreCurrent

=============================================================================
