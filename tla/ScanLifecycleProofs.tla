------------------------ MODULE ScanLifecycleProofs ------------------------
(***************************************************************************)
(* Theorems about ScanLifecycle: what holds for every number of scans, of  *)
(* packages and of builds, and whatever goes wrong.                        *)
(***************************************************************************)
EXTENDS ScanLifecycle, TLAPS

(* Ids are handed out in order, and a row says what kind of scan it is.    *)
RowInv ==
  \A s \in Scans :
    /\ row[s].type = "NONE" <=> s > created
    /\ s > created => state[s] = "INIT" /\ ~enabled[s] /\ task[s] = "NONE"
    /\ s \in bound => s <= created
    /\ IsTarget(s) => row[s].target = NoScan
    /\ IsBase(s) => row[s].target \in Scans /\ IsTarget(row[s].target)

(* A process uploads before it finishes the scan; a task is opened once.   *)
ProcessInv ==
  \A s \in Scans :
    /\ task[s] \in {"NONE", "FREE"} => pc[s] = "none" /\ s \notin uploaded
    /\ pc[s] \in EarlySteps => s \notin uploaded
    /\ pc[s] = "finish_scan" => s \in uploaded
    /\ pc[s] \in {"set_scan_to_basescanning", "spawn_subtask", "create_sb", "wait"} =>
         base[s] \in Scans /\ row[base[s]].target = s
    /\ pc[s] \in {"set_scan_to_basescanning", "spawn_subtask"} =>
         base[s] \notin bound /\ task[base[s]] = "NONE"

(* Results are dated in order and come from uploaded tarballs.             *)
ResultInv ==
  \A s \in Scans :
    /\ result[s] <= clock
    /\ result[s] > 0 => s \in uploaded /\ s \in bound
    /\ state[s] \in InProgress => result[s] = 0
    /\ \A t \in Scans : result[t] = result[s] /\ result[s] > 0 => t = s

(* A base is the one prepared for the scan, or a finished one.             *)
BaseInv ==
  \A s \in Scans :
    /\ base[s] <= created
    /\ base[s] # NoScan /\ row[base[s]].target # s => result[base[s]] > 0
    /\ state[s] \in FinishedWell => IsTarget(s) /\ result[s] > 0 /\ BaseReady(s)
    /\ state[s] = "FINISHED" => result[s] > 0

IInv ==
  /\ TypeOK
  /\ RowInv
  /\ ProcessInv
  /\ ResultInv
  /\ BaseInv
  /\ ChainInv
  /\ DeadIsDisabled

-----------------------------------------------------------------------------
(* What failing and canceling scans does to the columns state and enabled. *)

(* Some scans died, and only scans with a verdict were switched on.        *)
Died(st, en) ==
  /\ st \in [Scans -> ScanStates]
  /\ en \in [Scans -> BOOLEAN]
  /\ \A s \in Scans :
       /\ st[s] # state[s] => st[s] \in {"FAILED", "CANCELED"} /\ s <= created
       /\ en[s] => st[s] = state[s] /\ (enabled[s] \/ state[s] \in FinishedWell)

LEMMA SwitchOffCol ==
  ASSUME TypeOK, NEW dead \in SUBSET Scans, NEW st \in [Scans -> ScanStates]
  PROVE  /\ SwitchOff(dead, st) \in [Scans -> BOOLEAN]
         /\ \A s \in Scans : SwitchOff(dead, st)[s] =>
              st[s] \in FinishedWell \/ (s \notin dead /\ enabled[s])
  BY DEF SwitchOff, TypeOK

LEMMA FailScanDies ==
  ASSUME IInv, NEW s \in Scans, s <= created, FailScan(s)
  PROVE  Died(state', enabled')
<1> DEFINE st == [x \in Scans |-> IF x \in FailedWith(s) THEN "FAILED" ELSE state[x]]
           dead == {x \in FailedWith(s) : IsTarget(x)}
<1>1. FailedWith(s) \in SUBSET Scans /\ \A x \in FailedWith(s) : x <= created
  BY DEF FailedWith, IInv, RowInv, IsTarget, TargetTypes, Scans, TypeOK
<1>2. st \in [Scans -> ScanStates] /\ dead \in SUBSET Scans
  BY <1>1 DEF IInv, TypeOK, ScanStates
<1>3. state' = st /\ enabled' = SwitchOff(dead, st)
  BY DEF FailScan
<1>4. ASSUME NEW x \in Scans, enabled'[x]
      PROVE  st[x] = state[x] /\ (enabled[x] \/ state[x] \in FinishedWell)
  <2> HIDE DEF st, dead
  <2>1. st[x] \in FinishedWell \/ (x \notin dead /\ enabled[x])
    BY <1>2, <1>3, <1>4, SwitchOffCol DEF IInv
  <2>2. CASE st[x] \in FinishedWell
    BY <2>2 DEF st, FinishedWell
  <2>3. CASE x \notin dead /\ enabled[x]
    BY <2>3 DEF st, dead, IInv, DeadIsDisabled
  <2> QED BY <2>1, <2>2, <2>3
<1>5. enabled' \in [Scans -> BOOLEAN]
  BY <1>2, <1>3, SwitchOffCol DEF IInv
<1> QED BY <1>1, <1>2, <1>3, <1>4, <1>5 DEF Died

LEMMA CancelDies ==
  ASSUME IInv, NEW D \in SUBSET bound
  PROVE  Died(CanceledState(D), CanceledEnabled(D))
<1> DEFINE bases == {b \in Scans : state[b] \in InProgress /\
                                     \E d \in D : IsTarget(d) /\ base[d] = b}
           st == CanceledState(D)
           dead == {d \in D : IsTarget(d)}
<1>1. D \in SUBSET Scans /\ \A x \in D \cup bases : x <= created
  BY DEF IInv, TypeOK, RowInv, BaseInv
<1>2. st = [x \in Scans |-> IF x \in D \cup bases THEN "CANCELED" ELSE state[x]]
  BY DEF CanceledState
<1>3. st \in [Scans -> ScanStates] /\ dead \in SUBSET Scans
  BY <1>1, <1>2 DEF IInv, TypeOK, ScanStates
<1>4. CanceledEnabled(D) = SwitchOff(dead, st)
  BY DEF CanceledEnabled
<1>5. \A b \in bases : ~enabled[b]
  (* A base in progress was prepared for its target, so it is no target.   *)
  <2> SUFFICES ASSUME NEW b \in bases, IsTarget(b) PROVE FALSE
    BY DEF IInv, DeadIsDisabled
  <2>1. PICK d \in D : IsTarget(d) /\ base[d] = b
    OBVIOUS
  <2>2. row[b].target # d /\ base[d] # NoScan
    BY <1>1, <2>1 DEF IInv, RowInv, Scans, NoScan
  <2>3. result[b] > 0 /\ state[b] \in InProgress
    BY <1>1, <2>1, <2>2 DEF IInv, BaseInv
  <2> QED BY <2>3 DEF IInv, ResultInv
<1>6. ASSUME NEW x \in Scans, CanceledEnabled(D)[x]
      PROVE  st[x] = state[x] /\ (enabled[x] \/ state[x] \in FinishedWell)
  <2> HIDE DEF st, dead
  <2>1. st[x] \in FinishedWell \/ (x \notin dead /\ enabled[x])
    BY <1>3, <1>4, <1>6, SwitchOffCol DEF IInv
  <2>2. CASE st[x] \in FinishedWell
    BY <1>2, <2>2 DEF FinishedWell
  <2>3. CASE x \notin dead /\ enabled[x]
    BY <1>2, <1>5, <2>3 DEF dead, IInv, DeadIsDisabled
  <2> QED BY <2>1, <2>2, <2>3
<1>7. CanceledEnabled(D) \in [Scans -> BOOLEAN]
  BY <1>3, <1>4, SwitchOffCol DEF IInv
<1> HIDE DEF bases
<1> QED BY <1>1, <1>2, <1>3, <1>6, <1>7 DEF Died

LEMMA CanceledTasksCol ==
  ASSUME TypeOK, NEW D
  PROVE  /\ CanceledTasks(D) \in [Scans -> TaskStates]
         /\ \A s \in Scans : CanceledTasks(D)[s] # task[s] =>
              task[s] \in Active /\ CanceledTasks(D)[s] = "CANCELED"
  BY DEF CanceledTasks, TypeOK, TaskStates, Active

-----------------------------------------------------------------------------
LEMMA InitIInv == Init => IInv
  BY BoundsAssumption DEF Init, IInv, TypeOK, RowInv, ProcessInv, ResultInv, BaseInv,
     ChainInv, DeadIsDisabled, NoRow, Row, Scans, NoScan, ScanStates, InProgress,
     FinishedWell, TaskStates, Active, Steps, EarlySteps, IsTarget, IsBase, TargetTypes

-----------------------------------------------------------------------------
(* Each step of a worker process preserves the invariant.                  *)

LEMMA OpenTaskIInv ==
  ASSUME IInv, NEW s \in Scans, OpenTask(s)
  PROVE  IInv'
  BY DEF OpenTask, TaskStates, Active, Steps, EarlySteps, IInv, TypeOK, RowInv, ProcessInv,
     ResultInv, BaseInv, ChainInv, DeadIsDisabled,
     IsTarget, IsBase,
     BaseReady, CanHaveBase, Goto, chainVars, fileVars

LEMMA SetScanToScanningIInv ==
  ASSUME IInv, NEW s \in Scans, SetScanToScanning(s)
  PROVE  IInv'
  BY DEF SetScanToScanning, Calls, SetState, ScanStates, InProgress, FinishedWell,
     Steps, EarlySteps, IInv, TypeOK, RowInv, ProcessInv,
     ResultInv, BaseInv, ChainInv, DeadIsDisabled,
     IsTarget, IsBase,
     BaseReady, CanHaveBase, Goto, chainVars, fileVars

LEMMA CacheRefreshFailsIInv ==
  ASSUME IInv, NEW s \in Scans, CacheRefreshFails(s)
  PROVE  IInv'
  BY DEF CacheRefreshFails, Calls, Steps, EarlySteps, IInv, TypeOK, RowInv, ProcessInv,
     ResultInv, BaseInv, ChainInv, DeadIsDisabled,
     IsTarget, IsBase,
     BaseReady, CanHaveBase, Goto, chainVars, fileVars

LEMMA SkipBaseIInv ==
  ASSUME IInv, NEW s \in Scans, SkipBase(s)
  PROVE  IInv'
  BY DEF SkipBase, Calls, Steps, EarlySteps, IInv, TypeOK, RowInv, ProcessInv,
     ResultInv, BaseInv, ChainInv, DeadIsDisabled,
     IsTarget, IsBase,
     BaseReady, CanHaveBase, Goto, chainVars, fileVars

LEMMA ReuseBaseIInv ==
  ASSUME IInv, NEW s \in Scans, ReuseBase(s)
  PROVE  IInv'
  BY DEF ReuseBase, Calls, Steps, EarlySteps, LatestBinding, LatestResult, IInv, TypeOK, RowInv, ProcessInv,
     ResultInv, BaseInv, ChainInv, DeadIsDisabled,
     IsTarget, IsBase,
     BaseReady, CanHaveBase, Goto, chainVars, fileVars

LEMMA PrepareBaseIInv ==
  ASSUME IInv, NEW s \in Scans, PrepareBase(s)
  PROVE  IInv'
<1> DEFINE b == created + 1
           new == Row("ERRATA_BASE", row[s].base_nvr, None, row[s].stream, s)
<1>1. /\ created' = b /\ row' = [row EXCEPT ![b] = new]
      /\ state' = [state EXCEPT ![b] = "INIT"] /\ base' = [base EXCEPT ![s] = b]
      /\ pc' = [pc EXCEPT ![s] = "set_scan_to_basescanning"]
      /\ UNCHANGED <<parent, enabled, bound, task, uploaded, unpacked, result, clock>>
      /\ row[s].type \in {"ERRATA", "REBASE"} /\ pc[s] = "ensure_base"
  BY DEF PrepareBase, BaseRow, Calls, Goto, SetState, fileVars, CanHaveBase
<1>2. /\ TypeOK /\ RowInv /\ ProcessInv /\ ResultInv /\ BaseInv
      /\ ChainInv /\ DeadIsDisabled
  BY DEF IInv
<1>3. b \in Scans /\ created \in Nat /\ created < b
  BY <1>2, BoundsAssumption DEF TypeOK, Scans, PrepareBase
<1>4. s <= created /\ s # b
  BY <1>1, <1>2, <1>3 DEF RowInv, Scans
(* The new row was blank and nothing refers to it yet.                     *)
<1>5. /\ row[b].type = "NONE" /\ state[b] = "INIT" /\ ~enabled[b] /\ task[b] = "NONE"
      /\ b \notin bound /\ pc[b] = "none" /\ b \notin uploaded
  BY <1>2, <1>3 DEF RowInv, ProcessInv, Scans
<1>6. \A x \in Scans : base[x] # b /\ base[x] <= created /\ parent[x] # b
  <2> TAKE x \in Scans
  <2>1. base[x] <= created /\ base[x] # b
    BY <1>2, <1>3 DEF BaseInv, TypeOK, Scans, NoScan
  <2>2. parent[x] # b
    BY <1>2, <1>3, <1>5 DEF ChainInv, IsTarget, TargetTypes, NoScan, Scans
  <2> QED BY <2>1, <2>2
<1>7. TypeOK'
  <2> DEFINE Rows == [type : TargetTypes \cup {"ERRATA_BASE", "NONE"},
                      nvr : Nvrs \cup {None}, base_nvr : Nvrs \cup {None},
                      stream : Streams \cup {None}, target : Scans \cup {NoScan}]
  <2>1. new \in Rows
    BY <1>2 DEF TypeOK, Row
  <2>2. row' \in [Scans -> Rows]
    <3> HIDE DEF new, Rows
    <3>1. row \in [Scans -> Rows]
      BY <1>2 DEF TypeOK, Rows
    <3> QED BY <1>1, <2>1, <3>1
  <2>3. created' \in 0 .. MaxScans
    BY <1>1, <1>2, <1>3 DEF TypeOK, Scans
  <2> HIDE DEF new, b
  <2>4. /\ state' \in [Scans -> ScanStates] /\ base' \in [Scans -> Scans \cup {NoScan}]
        /\ pc' \in [Scans -> Steps]
    BY <1>1, <1>2, <1>3 DEF TypeOK, ScanStates, InProgress, Steps, EarlySteps
  <2> QED BY <1>1, <1>2, <2>2, <2>3, <2>4 DEF TypeOK
<1>8. /\ new.type = "ERRATA_BASE" /\ new.target = s
      /\ row' \in [Scans -> {row[x] : x \in Scans} \cup {new}]
      /\ row'[b] = new /\ \A x \in Scans \ {b} : row'[x] = row[x]
      /\ base'[s] = b /\ \A x \in Scans \ {s} : base'[x] = base[x]
      /\ state' = state
      /\ pc'[s] = "set_scan_to_basescanning"
      /\ \A x \in Scans \ {s} : pc'[x] = pc[x]
  BY <1>1, <1>2, <1>3, <1>5 DEF TypeOK, Row
<1> HIDE DEF b, new
<1>9. RowInv'
  BY <1>1, <1>2, <1>3, <1>4, <1>5, <1>8 DEF b, RowInv, IsTarget, IsBase, TargetTypes, Scans, NoScan
<1>10. ProcessInv'
  BY <1>1, <1>2, <1>3, <1>4, <1>5, <1>6, <1>8 DEF ProcessInv, EarlySteps
<1>11. ResultInv'
  BY <1>1, <1>2, <1>8 DEF ResultInv
<1>12. BaseInv'
  <2> SUFFICES ASSUME NEW x \in Scans
               PROVE  /\ base'[x] <= created'
                      /\ base'[x] # NoScan /\ row'[base'[x]].target # x => result[base'[x]] > 0
                      /\ state[x] \in FinishedWell =>
                           IsTarget(x)' /\ result[x] > 0 /\ BaseReady(x)'
                      /\ state[x] = "FINISHED" => result[x] > 0
    BY <1>1, <1>8 DEF BaseInv
  <2>1. CASE x = s
    <3>1. state[s] \notin FinishedWell /\ state[s] # "FINISHED"
      BY <1>1, <1>2 DEF BaseInv, ResultInv, ProcessInv, EarlySteps
    <3>2. base'[s] = b /\ created' = b /\ row'[b].target = s /\ b <= b
      BY <1>1, <1>3, <1>8 DEF Scans
    <3> QED BY <2>1, <3>1, <3>2
  <2>2. CASE x # s
    BY <2>2, <1>1, <1>2, <1>3, <1>5, <1>6, <1>8 
       DEF b, BaseInv, TypeOK, Scans, NoScan, IsTarget, BaseReady, CanHaveBase, FinishedWell, TargetTypes
  <2> QED BY <2>1, <2>2
<1>13. ChainInv'
  BY <1>1, <1>2, <1>3, <1>4, <1>5, <1>6, <1>8 DEF b, TypeOK, ChainInv, IsTarget, TargetTypes, NoScan, Scans
<1>14. DeadIsDisabled'
  BY <1>1, <1>2, <1>3, <1>5, <1>8 DEF DeadIsDisabled, IsTarget
<1> QED BY <1>7, <1>9, <1>10, <1>11, <1>12, <1>13, <1>14 DEF IInv

LEMMA SetScanToBasescanningIInv ==
  ASSUME IInv, NEW s \in Scans, SetScanToBasescanning(s)
  PROVE  IInv'
  BY DEF SetScanToBasescanning, Calls, SetState, ScanStates, InProgress, FinishedWell,
     Steps, EarlySteps, IInv, TypeOK, RowInv, ProcessInv,
     ResultInv, BaseInv, ChainInv, DeadIsDisabled,
     IsTarget, IsBase,
     BaseReady, CanHaveBase, Goto, chainVars, fileVars

LEMMA SpawnSubtaskIInv ==
  ASSUME IInv, NEW s \in Scans, SpawnSubtask(s)
  PROVE  IInv'
<1> DEFINE b == base[s]
<1>1. /\ task' = [task EXCEPT ![b] = "FREE"] /\ pc' = [pc EXCEPT ![s] = "create_sb"]
      /\ UNCHANGED <<row, created, parent, base, state, enabled, bound, uploaded,
                     unpacked, result, clock>>
      /\ pc[s] = "spawn_subtask" /\ task[s] = "OPEN"
  BY DEF SpawnSubtask, Calls, Goto, chainVars, fileVars
<1>2. /\ TypeOK /\ RowInv /\ ProcessInv /\ ResultInv /\ BaseInv
      /\ ChainInv /\ DeadIsDisabled
  BY DEF IInv
<1>3. /\ b \in Scans /\ b <= created /\ row[b].target = s
      /\ task[b] = "NONE" /\ b # s
  BY <1>1, <1>2 DEF ProcessInv, BaseInv
<1>4. TypeOK'
  BY <1>1, <1>2, <1>3 DEF TypeOK, TaskStates, Active, Steps, EarlySteps
<1>5. /\ task'[b] = "FREE" /\ \A x \in Scans \ {b} : task'[x] = task[x]
      /\ pc'[s] = "create_sb" /\ \A x \in Scans \ {s} : pc'[x] = pc[x]
  BY <1>1, <1>2, <1>3 DEF TypeOK
<1>6. pc[b] = "none" /\ b \notin uploaded
  BY <1>2, <1>3 DEF ProcessInv
<1> HIDE DEF b
<1>7. RowInv'
  BY <1>1, <1>2, <1>3, <1>5 DEF TypeOK, RowInv, IsTarget, IsBase, Scans
<1>8. ProcessInv'
  <2> SUFFICES ASSUME NEW x \in Scans
               PROVE  /\ task'[x] \in {"NONE", "FREE"} => pc'[x] = "none" /\ x \notin uploaded
                      /\ pc'[x] \in EarlySteps => x \notin uploaded
                      /\ pc'[x] = "finish_scan" => x \in uploaded
                      /\ pc'[x] \in {"set_scan_to_basescanning", "spawn_subtask",
                                     "create_sb", "wait"} =>
                           base[x] \in Scans /\ row[base[x]].target = x
                      /\ pc'[x] \in {"set_scan_to_basescanning", "spawn_subtask"} =>
                           base[x] \notin bound /\ task'[base[x]] = "NONE"
    BY <1>1 DEF ProcessInv
  <2>1. CASE x = s
    BY <2>1, <1>1, <1>2, <1>3, <1>5 DEF b, ProcessInv, EarlySteps
  <2>2. CASE x # s
    <3>1. pc'[x] = pc[x]
      BY <2>2, <1>5
    <3>2. task'[x] \in {"NONE", "FREE"} => pc[x] = "none" /\ x \notin uploaded
      BY <1>2, <1>5, <1>6 DEF ProcessInv
    <3>3. pc[x] \in {"set_scan_to_basescanning", "spawn_subtask"} => task'[base[x]] = task[base[x]]
      BY <2>2, <1>2, <1>3, <1>5 DEF ProcessInv
    <3> QED BY <3>1, <3>2, <3>3, <1>2 DEF ProcessInv
  <2> QED BY <2>1, <2>2
<1>9. (ResultInv /\ BaseInv /\ ChainInv /\ DeadIsDisabled)'
  BY <1>1, <1>2 DEF ResultInv, BaseInv, BaseReady, CanHaveBase, ChainInv, DeadIsDisabled, IsTarget
<1> QED BY <1>4, <1>7, <1>8, <1>9 DEF IInv

LEMMA CreateSbIInv ==
  ASSUME IInv, NEW s \in Scans, CreateSb(s)
  PROVE  IInv'
  BY DEF CreateSb, Calls, Steps, EarlySteps, IInv, TypeOK, RowInv, ProcessInv,
     ResultInv, BaseInv, ChainInv, DeadIsDisabled,
     IsTarget, IsBase,
     BaseReady, CanHaveBase, Goto, chainVars, fileVars

LEMMA WaitIInv ==
  ASSUME IInv, NEW s \in Scans, Wait(s)
  PROVE  IInv'
  BY DEF Wait, Calls, Steps, EarlySteps, IInv, TypeOK, RowInv, ProcessInv,
     ResultInv, BaseInv, ChainInv, DeadIsDisabled,
     IsTarget, IsBase,
     BaseReady, CanHaveBase, Goto, chainVars, fileVars

LEMMA AnalyzeIInv ==
  ASSUME IInv, NEW s \in Scans, Analyze(s)
  PROVE  IInv'
  BY DEF Analyze, Calls, Steps, EarlySteps, IInv, TypeOK, RowInv, ProcessInv,
     ResultInv, BaseInv, ChainInv, DeadIsDisabled,
     IsTarget, IsBase,
     BaseReady, CanHaveBase, Goto, chainVars, fileVars

LEMMA CloseTaskIInv ==
  ASSUME IInv, NEW s \in Scans, CloseTask(s)
  PROVE  IInv'
  BY DEF CloseTask, TaskStates, Active, Steps, EarlySteps, IInv, TypeOK, RowInv, ProcessInv,
     ResultInv, BaseInv, ChainInv, DeadIsDisabled,
     IsTarget, IsBase,
     BaseReady, CanHaveBase, Goto, chainVars, fileVars

LEMMA KillIInv ==
  ASSUME IInv, NEW s \in Scans, Kill(s)
  PROVE  IInv'
  BY DEF Kill, Steps, EarlySteps, IInv, TypeOK, RowInv, ProcessInv,
     ResultInv, BaseInv, ChainInv, DeadIsDisabled,
     IsTarget, IsBase,
     BaseReady, CanHaveBase, Goto, chainVars, fileVars

-----------------------------------------------------------------------------
(* Steps that fail, cancel or finish scans whose tasks and processes end.  *)

(* A task leaves FREE or OPEN for good, and is not the base scan's before  *)
(* spawn_subtask; a process ends or has one more call to make.             *)
TasksEnd ==
  /\ task' \in [Scans -> TaskStates]
  /\ \A s \in Scans : task'[s] # task[s] =>
       /\ task[s] # "NONE" \/ s \in bound
       /\ task'[s] \notin {"NONE", "FREE"}

ProcessesEnd ==
  /\ pc' \in [Scans -> Steps]
  /\ \A s \in Scans : pc'[s] # pc[s] =>
       \/ pc'[s] = "none"
       \/ pc'[s] \in {"fail_task", "close_task"} /\ pc[s] # "none"

LEMMA EndsProcessInv ==
  ASSUME IInv, TasksEnd, ProcessesEnd, UNCHANGED <<chainVars, bound, uploaded>>
  PROVE  /\ ProcessInv'
         /\ \A s \in Scans : s > created => task'[s] = "NONE"
<1>1. TypeOK /\ RowInv /\ ProcessInv
  BY DEF IInv
<1>2. UNCHANGED <<row, base, bound, uploaded>>
  BY DEF chainVars
<1>3. \A s \in Scans : s > created => task'[s] = "NONE"
  BY <1>1 DEF RowInv, TasksEnd, TypeOK, Scans
<1>4. \A s \in Scans : task'[s] \in {"NONE", "FREE"} => task'[s] = task[s] /\ pc'[s] = "none"
  BY <1>1 DEF TasksEnd, ProcessesEnd, ProcessInv
<1>5. \A s \in Scans : pc'[s] \in EarlySteps \cup {"finish_scan"} => pc'[s] = pc[s]
  BY DEF ProcessesEnd, EarlySteps
<1>6. \A s \in Scans : task[s] = "NONE" /\ s \notin bound => task'[s] = "NONE"
  BY DEF TasksEnd
<1>7. ProcessInv'
  BY <1>1, <1>2, <1>4, <1>5, <1>6 DEF ProcessInv, EarlySteps
<1> QED BY <1>3, <1>7

LEMMA DiesIInv ==
  ASSUME IInv, Died(state', enabled'), TasksEnd, ProcessesEnd,
         UNCHANGED <<chainVars, bound, fileVars>>
  PROVE  IInv'
<1>1. /\ TypeOK /\ RowInv /\ ResultInv /\ BaseInv /\ ChainInv /\ DeadIsDisabled
  BY DEF IInv
<1>2. UNCHANGED <<row, created, parent, base, bound, uploaded, unpacked, result, clock>>
  BY DEF chainVars, fileVars
<1>3. ProcessInv' /\ \A s \in Scans : s > created => task'[s] = "NONE"
  BY <1>2, EndsProcessInv
<1>4. TypeOK'
  BY <1>1, <1>2 DEF TypeOK, Died, TasksEnd, ProcessesEnd
<1>5. \A s \in Scans : state'[s] = state[s] \/ state'[s] \in {"FAILED", "CANCELED"}
  BY DEF Died
<1>6. \A s \in Scans : enabled'[s] => state'[s] = state[s] /\ IsTarget(s)
                          /\ state[s] \in InProgress \cup FinishedWell
  BY <1>1 DEF Died, DeadIsDisabled, BaseInv
<1>7. RowInv'
  <2>1. \A s \in Scans : s > created => state'[s] = "INIT" /\ ~enabled'[s]
    BY <1>1 DEF RowInv, Died, Scans, TypeOK, FinishedWell
  <2> QED BY <1>1, <1>2, <1>3, <2>1 DEF RowInv, IsTarget, IsBase
<1>8. ResultInv'
  BY <1>1, <1>2, <1>5 DEF ResultInv, InProgress
<1>9. BaseInv'
  BY <1>1, <1>2, <1>5 DEF BaseInv, FinishedWell, IsTarget, BaseReady, CanHaveBase
<1>10. ChainInv'
  BY <1>1, <1>2 DEF ChainInv, IsTarget
<1>11. DeadIsDisabled'
  BY <1>2, <1>6 DEF DeadIsDisabled, IsTarget
<1> QED BY <1>3, <1>4, <1>7, <1>8, <1>9, <1>10, <1>11 DEF IInv

(* finish_scan, called by the worker or by the admin page.                 *)
LEMMA FinishScanIInv ==
  ASSUME IInv, NEW s \in bound, s \in uploaded, NEW ts, FinishScan(s, ts),
         TasksEnd, ProcessesEnd, UNCHANGED <<chainVars, bound, uploaded>>
  PROVE  IInv'
<1>1. /\ TypeOK /\ RowInv /\ ResultInv /\ BaseInv /\ ChainInv /\ DeadIsDisabled
  BY DEF IInv
<1>2. UNCHANGED <<row, created, parent, base, bound, uploaded>>
  BY DEF chainVars
<1>3. s \in Scans /\ s <= created
  BY <1>1 DEF TypeOK, RowInv
<1>4. ProcessInv' /\ \A x \in Scans : x > created => task'[x] = "NONE"
  BY EndsProcessInv
<1>5. /\ unpacked \subseteq unpacked' /\ unpacked' \subseteq unpacked \cup {s}
      /\ UNCHANGED <<result, clock>> \/ (NewResult(s) /\ BaseReady(s))
  BY DEF FinishScan
<1>6. \/ /\ BaseReady(s) /\ NewResult(s) /\ enabled' = enabled
         /\ \E v \in IF IsBase(s) THEN {"FINISHED"} ELSE Verdicts :
              state' = [state EXCEPT ![s] = v]
      \/ UNCHANGED <<state, enabled, result, clock>>
      \/ FailScan(s)
  BY DEF FinishScan, SetState
<1>7. IsTarget(s) \/ IsBase(s)
  <2>1. row[s].type \in TargetTypes \cup {"ERRATA_BASE", "NONE"}
    BY <1>1, <1>3 DEF TypeOK
  <2>2. row[s].type # "NONE"
    BY <1>1, <1>3 DEF TypeOK, RowInv, Scans
  <2> QED BY <2>1, <2>2 DEF IsTarget, IsBase
<1>8. state' \in [Scans -> ScanStates] /\ enabled' \in [Scans -> BOOLEAN]
  BY <1>1, <1>3, <1>6, FailScanDies, VerdictsAssumption
     DEF TypeOK, Died, ScanStates, FinishedWell, InProgress
<1>9. /\ result' \in [Scans -> 0 .. MaxResults] /\ clock' \in 0 .. MaxResults
      /\ clock <= clock' /\ \A x \in Scans \ {s} : result'[x] = result[x]
      /\ \/ UNCHANGED <<clock, result>>
         \/ clock < clock' /\ result'[s] = clock' /\ BaseReady(s)
  <2>1. /\ clock \in 0 .. MaxResults /\ clock \in Nat /\ clock <= clock
        /\ result \in [Scans -> 0 .. MaxResults]
    BY <1>1, BoundsAssumption DEF TypeOK
  <2>2. CASE UNCHANGED <<result, clock>>
    BY <2>1, <2>2
  <2>3. CASE NewResult(s) /\ BaseReady(s)
    <3>1. clock + 1 \in 0 .. MaxResults /\ clock < clock + 1
      BY <2>1, <2>3, BoundsAssumption DEF NewResult
    <3>2. clock' = clock + 1 /\ result' = [result EXCEPT ![s] = clock + 1]
      BY <2>3 DEF NewResult
    <3> QED BY <1>3, <2>1, <2>3, <3>1, <3>2
  <2> QED BY <1>5, <2>2, <2>3
<1>10. FailScan(s) => Died(state', enabled') /\ state'[s] = "FAILED"
  BY <1>3, FailScanDies DEF FailScan, FailedWith
(* The column state: some scans died or s got a verdict and its Result.    *)
<1>11. \A x \in Scans :
         \/ state'[x] = state[x]
         \/ state'[x] \in {"FAILED", "CANCELED"}
         \/ /\ x = s /\ result'[s] > 0 /\ BaseReady(s)
            /\ state'[s] = "FINISHED" \/ (state'[s] \in FinishedWell /\ IsTarget(s))
  <2>1. CASE FailScan(s)
    BY <1>10, <2>1 DEF Died
  <2>2. ASSUME BaseReady(s), NewResult(s),
               NEW v \in IF IsBase(s) THEN {"FINISHED"} ELSE Verdicts,
               state' = [state EXCEPT ![s] = v]
        PROVE  /\ state'[s] = v /\ \A x \in Scans \ {s} : state'[x] = state[x]
               /\ v = "FINISHED" \/ (v \in FinishedWell /\ IsTarget(s))
               /\ result'[s] > 0
    BY <1>1, <1>3, <1>7, <2>2, VerdictsAssumption DEF TypeOK, FinishedWell, NewResult
  <2> QED BY <1>6, <2>1, <2>2
<1>12. UNCHANGED result \/ state'[s] \notin InProgress
  <2>1. CASE FailScan(s)
    BY <1>10, <2>1 DEF InProgress
  <2>2. ASSUME NEW v \in IF IsBase(s) THEN {"FINISHED"} ELSE Verdicts,
               state' = [state EXCEPT ![s] = v]
        PROVE  state'[s] \notin InProgress
    BY <1>1, <1>3, <2>2, VerdictsAssumption DEF TypeOK, InProgress
  <2> QED BY <1>6, <2>1, <2>2
<1>13. \A x \in Scans : enabled'[x] => IsTarget(x) /\ state'[x] \in InProgress \cup FinishedWell
  <2>1. CASE FailScan(s)
    BY <1>1, <1>10, <2>1 DEF Died, DeadIsDisabled, BaseInv
  <2>2. ASSUME enabled' = enabled, NEW v \in IF IsBase(s) THEN {"FINISHED"} ELSE Verdicts,
               state' = [state EXCEPT ![s] = v], NEW x \in Scans, enabled'[x]
        PROVE  IsTarget(x) /\ state'[x] \in InProgress \cup FinishedWell
    BY <1>1, <1>3, <2>2, VerdictsAssumption
       DEF TypeOK, DeadIsDisabled, FinishedWell, IsTarget, IsBase, TargetTypes
  <2>3. CASE UNCHANGED <<state, enabled, result, clock>>
    BY <1>1, <2>3 DEF DeadIsDisabled
  <2> QED BY <1>6, <2>1, <2>2, <2>3
<1>14. \A x \in Scans : x > created => state'[x] = "INIT" /\ ~enabled'[x]
  <2> SUFFICES ASSUME NEW x \in Scans, x > created
               PROVE  state'[x] = "INIT" /\ ~enabled'[x]
    OBVIOUS
  <2>1. state[x] = "INIT" /\ ~enabled[x] /\ x # s
    BY <1>1, <1>3 DEF RowInv, TypeOK, Scans
  <2>2. CASE FailScan(s)
    BY <1>1, <1>10, <2>1, <2>2 DEF Died, FinishedWell, TypeOK, Scans
  <2>3. ASSUME enabled' = enabled, NEW v, state' = [state EXCEPT ![s] = v]
        PROVE  state'[x] = "INIT" /\ ~enabled'[x]
    BY <1>1, <2>1, <2>3 DEF TypeOK
  <2> QED BY <1>6, <2>1, <2>2, <2>3
<1>15. TypeOK'
  BY <1>1, <1>2, <1>3, <1>5, <1>8, <1>9 DEF TypeOK, TasksEnd, ProcessesEnd
<1>16. RowInv'
  BY <1>1, <1>2, <1>4, <1>14 DEF RowInv, IsTarget, IsBase
<1>17. ResultInv'
  BY <1>1, <1>2, <1>3, <1>9, <1>11, <1>12 DEF ResultInv, TypeOK, InProgress, FinishedWell
<1>18. BaseInv'
  <2> SUFFICES ASSUME NEW x \in Scans
               PROVE  /\ base[x] <= created
                      /\ base[x] # NoScan /\ row[base[x]].target # x => result'[base[x]] > 0
                      /\ state'[x] \in FinishedWell =>
                           IsTarget(x)' /\ result'[x] > 0 /\ BaseReady(x)'
                      /\ state'[x] = "FINISHED" => result'[x] > 0
    BY <1>2 DEF BaseInv
  <2>1. \A y \in Scans : result[y] > 0 => result'[y] > 0
    BY <1>1, <1>3, <1>9, BoundsAssumption DEF TypeOK
  <2>2. base[x] <= created /\ base[x] \in Scans \cup {NoScan}
    BY <1>1, <1>2 DEF BaseInv, TypeOK
  <2>3. base[x] # NoScan /\ row[base[x]].target # x => result'[base[x]] > 0
    BY <1>1, <2>1, <2>2 DEF BaseInv
  <2>4. BaseReady(x) => BaseReady(x)'
    BY <1>2, <1>5 DEF BaseReady, CanHaveBase
  <2>5. IsTarget(x)' <=> IsTarget(x)
    BY <1>2 DEF IsTarget
  <2>6. state'[x] \in FinishedWell => IsTarget(x) /\ result'[x] > 0 /\ BaseReady(x)
    BY <1>1, <1>11, <2>1 DEF BaseInv, FinishedWell
  <2>7. state'[x] = "FINISHED" => result'[x] > 0
    BY <1>1, <1>11, <2>1 DEF BaseInv
  <2> QED BY <2>2, <2>3, <2>4, <2>5, <2>6, <2>7
<1>19. ChainInv'
  BY <1>1, <1>2 DEF ChainInv, IsTarget
<1>20. DeadIsDisabled'
  BY <1>2, <1>13 DEF DeadIsDisabled, IsTarget
<1> QED BY <1>4, <1>15, <1>16, <1>17, <1>18, <1>19, <1>20 DEF IInv

LEMMA WorkerFailScanIInv ==
  ASSUME IInv, NEW s \in Scans, WorkerFailScan(s)
  PROVE  IInv'
<1>1. s <= created /\ pc[s] = "fail_scan"
  BY DEF IInv, RowInv, ProcessInv, TypeOK, WorkerFailScan, Calls, Scans
<1>2. Died(state', enabled')
  BY <1>1, FailScanDies DEF WorkerFailScan
<1>3. TasksEnd /\ ProcessesEnd
  BY <1>1 DEF IInv, TypeOK, WorkerFailScan, Goto, TasksEnd, ProcessesEnd, Steps
<1> QED BY <1>2, <1>3, DiesIInv DEF WorkerFailScan

LEMMA WorkerFinishScanIInv ==
  ASSUME IInv, NEW s \in Scans, WorkerFinishScan(s)
  PROVE  IInv'
<1>1. s \in uploaded /\ pc[s] = "finish_scan"
  BY DEF IInv, ProcessInv, WorkerFinishScan, Calls
<1>2. TasksEnd /\ ProcessesEnd
  BY <1>1 DEF IInv, TypeOK, WorkerFinishScan, Goto, TasksEnd, ProcessesEnd, Steps
<1>3. CASE s \in bound
  BY <1>1, <1>2, <1>3, FinishScanIInv DEF WorkerFinishScan
<1>4. CASE s \notin bound
  BY <1>2, <1>4, DiesIInv DEF WorkerFinishScan, IInv, TypeOK, Died, fileVars
<1> QED BY <1>3, <1>4

LEMMA FailTaskIInv ==
  ASSUME IInv, NEW s \in Scans, FailTask(s)
  PROVE  IInv'
<1>1. s <= created
  BY DEF IInv, RowInv, TypeOK, FailTask, Scans
<1>2. Died(state', enabled')
  BY <1>1, FailScanDies DEF FailTask, IInv, TypeOK, Died
<1>3. TasksEnd /\ ProcessesEnd
  BY DEF IInv, TypeOK, FailTask, Goto, TasksEnd, ProcessesEnd, Steps, TaskStates
<1> QED BY <1>2, <1>3, DiesIInv DEF FailTask

LEMMA InterruptTaskIInv ==
  ASSUME IInv, NEW s \in Scans, InterruptTask(s)
  PROVE  IInv'
<1>1. s <= created
  BY DEF IInv, RowInv, TypeOK, InterruptTask, Scans
<1>2. Died(state', enabled')
  BY <1>1, FailScanDies DEF InterruptTask, IInv, TypeOK, Died
<1>3. TasksEnd /\ ProcessesEnd
  BY DEF IInv, TypeOK, InterruptTask, Goto, TasksEnd, ProcessesEnd, Steps, TaskStates
<1> QED BY <1>2, <1>3, DiesIInv DEF InterruptTask

-----------------------------------------------------------------------------
(* Each step of a user or an administrator preserves the invariant.        *)

LEMMA CanceledTasksEnd ==
  ASSUME IInv, NEW D, task' = CanceledTasks(D), UNCHANGED pc
  PROVE  TasksEnd /\ ProcessesEnd
  BY CanceledTasksCol DEF IInv, TypeOK, TasksEnd, ProcessesEnd, Active

LEMMA CancelTaskIInv ==
  ASSUME IInv, NEW s \in Scans, CancelTask(s)
  PROVE  IInv'
<1>1. Died(state', enabled')
  BY CancelDies DEF CancelTask, CancelScans
<1>2. TasksEnd /\ ProcessesEnd
  BY CanceledTasksEnd DEF CancelTask
<1> QED BY <1>1, <1>2, DiesIInv DEF CancelTask

LEMMA AdminCancelIInv ==
  ASSUME IInv, NEW s \in Scans, AdminCancel(s)
  PROVE  IInv'
<1>1. Died(state', enabled')
  BY CancelDies DEF AdminCancel, CancelScans
<1>2. TasksEnd /\ ProcessesEnd
  BY CanceledTasksEnd DEF AdminCancel
<1> QED BY <1>1, <1>2, DiesIInv DEF AdminCancel

LEMMA AdminFailIInv ==
  ASSUME IInv, NEW s \in Scans, AdminFail(s)
  PROVE  IInv'
<1>1. Died(state', enabled')
  BY FailScanDies DEF AdminFail, IInv, RowInv
<1>2. TasksEnd /\ ProcessesEnd
  BY CanceledTasksEnd DEF AdminFail
<1> QED BY <1>1, <1>2, DiesIInv DEF AdminFail

LEMMA AdminFinishIInv ==
  ASSUME IInv, NEW s \in Scans, AdminFinish(s)
  PROVE  IInv'
<1>1. TasksEnd /\ ProcessesEnd
  BY DEF IInv, TypeOK, AdminFinish, TasksEnd, ProcessesEnd, TaskStates
<1>2. CASE s \in uploaded
  BY <1>1, <1>2, FinishScanIInv DEF AdminFinish
<1>3. CASE s \notin uploaded
  BY <1>1, <1>3, DiesIInv DEF AdminFinish, IInv, TypeOK, Died, fileVars
<1> QED BY <1>2, <1>3

(* What both outcomes of a submission share: older scans die, and a blank  *)
(* row becomes a target that nothing refers to.                            *)
LEMMA NewRowIInv ==
  ASSUME IInv, NEW r \in Streams, NEW b \in Builds, NEW st \in {"QUEUED", "INIT"},
         NewRow(created + 1, st, b, r),
         task' \in [Scans -> TaskStates],
         \A s \in Scans \ {created + 1} : task'[s] # task[s] =>
            task[s] # "NONE" /\ task'[s] \notin {"NONE", "FREE"},
         enabled' \in [Scans -> BOOLEAN],
         \A s \in Scans \ {created + 1} : enabled'[s] => CanceledEnabled(Obsolete(r))[s],
         \/ UNCHANGED <<parent, bound>>
         \/ /\ bound' = bound \cup {created + 1}
            /\ \E child \in Children(r) :
                 parent' = [s \in Scans |-> IF s = child THEN created + 1 ELSE parent[s]],
         UNCHANGED <<base, pc, fileVars>>
  PROVE  IInv'
<1> DEFINE n == created + 1
           new == Row(b.type, b.nvr, b.base_nvr, r, NoScan)
           old == CanceledState(Obsolete(r))
<1>1. /\ TypeOK /\ RowInv /\ ProcessInv /\ ResultInv /\ BaseInv
      /\ ChainInv /\ DeadIsDisabled
  BY DEF IInv
<1>2. /\ n \in Scans /\ created \in Nat /\ created < n /\ created' = n
      /\ row' = [row EXCEPT ![n] = new] /\ state' = [old EXCEPT ![n] = st]
  BY <1>1, BoundsAssumption DEF NewRow, TypeOK, Scans
<1>3. UNCHANGED <<base, pc, uploaded, unpacked, result, clock>>
  BY DEF fileVars
<1>4. Died(old, CanceledEnabled(Obsolete(r)))
  BY CancelDies DEF Obsolete, TargetsOf
<1>5. /\ row[n].type = "NONE" /\ task[n] = "NONE" /\ n \notin bound
      /\ pc[n] = "none" /\ n \notin uploaded /\ result[n] = 0
  BY <1>1, <1>2 DEF RowInv, ProcessInv, ResultInv, TypeOK, Scans
<1>6. \A x \in Scans : base[x] # n /\ base[x] <= created /\ parent[x] # n
  <2> TAKE x \in Scans
  <2>1. base[x] <= created /\ base[x] # n
    BY <1>1, <1>2 DEF BaseInv, TypeOK, Scans, NoScan
  <2>2. parent[x] # n
    BY <1>1, <1>2, <1>5 DEF ChainInv, IsTarget, TargetTypes, NoScan, Scans
  <2> QED BY <2>1, <2>2
<1>7. /\ b \in Submission /\ new.type \in TargetTypes /\ new.target = NoScan
      /\ new.stream = r
  BY BuildsAssumption DEF Submission, Row
<1>8. /\ row'[n] = new /\ \A x \in Scans \ {n} : row'[x] = row[x]
      /\ state'[n] = st /\ \A x \in Scans \ {n} :
           state'[x] = state[x] \/ state'[x] \in {"FAILED", "CANCELED"}
      /\ \A x \in Scans : x > n => state'[x] = state[x]
  BY <1>1, <1>2, <1>4 DEF TypeOK, Died, Scans
<1>9. \A x \in Scans \ {n} : enabled'[x] =>
        /\ state'[x] = state[x] /\ IsTarget(x) /\ state[x] \in InProgress \cup FinishedWell
  BY <1>1, <1>2, <1>4 DEF Died, DeadIsDisabled, BaseInv, TypeOK
<1>10. \/ UNCHANGED <<parent, bound>>
       \/ /\ bound' = bound \cup {n}
          /\ \E c \in {NoScan} \cup TargetsOf(r) :
               parent' = [x \in Scans |-> IF x = c THEN n ELSE parent[x]]
  BY DEF Children, LatestOfPackage, LatestResult
<1> HIDE DEF n, new, old
<1>11. TypeOK'
  <2> DEFINE Rows == [type : TargetTypes \cup {"ERRATA_BASE", "NONE"},
                      nvr : Nvrs \cup {None}, base_nvr : Nvrs \cup {None},
                      stream : Streams \cup {None}, target : Scans \cup {NoScan}]
  <2>1. new \in Rows
    BY <1>7 DEF new, Row, Submission
  <2>2. row' \in [Scans -> Rows]
    <3>1. row \in [Scans -> Rows]
      BY <1>1 DEF TypeOK
    <3> HIDE DEF Rows
    <3> QED BY <1>2, <2>1, <3>1
  <2>3. created' \in 0 .. MaxScans
    BY <1>2 DEF Scans
  <2>4. state' \in [Scans -> ScanStates]
    BY <1>2, <1>4 DEF Died, ScanStates, InProgress
  <2>5. bound' \subseteq Scans /\ parent' \in [Scans -> Scans \cup {NoScan}]
    BY <1>1, <1>2, <1>10 DEF TypeOK
  <2> HIDE DEF Rows
  <2> QED BY <1>1, <1>3, <2>2, <2>3, <2>4, <2>5 DEF TypeOK, Rows
<1>12. RowInv'
  <2> SUFFICES ASSUME NEW x \in Scans
               PROVE  /\ row'[x].type = "NONE" <=> x > n
                      /\ x > n => state'[x] = "INIT" /\ ~enabled'[x] /\ task'[x] = "NONE"
                      /\ x \in bound' => x <= n
                      /\ IsTarget(x)' => row'[x].target = NoScan
                      /\ IsBase(x)' => row'[x].target \in Scans /\ IsTarget(row[x].target)'
    BY <1>2 DEF RowInv, IsTarget, IsBase
  <2>1. CASE x = n
    BY <1>2, <1>7, <1>8, <2>1 DEF TargetTypes, IsTarget, IsBase, Scans
  <2>2. CASE x # n
    <3>1. row'[x].type = "NONE" <=> x > n
      BY <1>1, <1>2, <1>8, <2>2 DEF RowInv, Scans, n
    <3>2. x > n => state'[x] = "INIT" /\ ~enabled'[x] /\ task'[x] = "NONE"
      BY <1>1, <1>2, <1>8, <1>9, <2>2 DEF RowInv, Scans, n, IsTarget, TargetTypes
    <3>3. x \in bound' => x <= n
      BY <1>1, <1>2, <1>10, <2>2 DEF RowInv, Scans
    <3>4. IsTarget(x)' => row'[x].target = NoScan
      BY <1>1, <1>8, <2>2 DEF RowInv, IsTarget
    <3>5. IsBase(x)' => row'[x].target \in Scans /\ IsTarget(row[x].target)'
      BY <1>1, <1>7, <1>8, <2>2 DEF RowInv, IsTarget, IsBase
    <3> QED BY <3>1, <3>2, <3>3, <3>4, <3>5
  <2> QED BY <2>1, <2>2
<1>13. ProcessInv'
  <2> SUFFICES ASSUME NEW x \in Scans
               PROVE  /\ task'[x] \in {"NONE", "FREE"} => pc[x] = "none" /\ x \notin uploaded
                      /\ pc[x] \in {"set_scan_to_basescanning", "spawn_subtask",
                                    "create_sb", "wait"} =>
                           base[x] \in Scans /\ row'[base[x]].target = x
                      /\ pc[x] \in {"set_scan_to_basescanning", "spawn_subtask"} =>
                           base[x] \notin bound' /\ task'[base[x]] = "NONE"
    BY <1>1, <1>3 DEF ProcessInv
  <2>1. task'[x] \in {"NONE", "FREE"} => pc[x] = "none" /\ x \notin uploaded
    BY <1>1, <1>2, <1>5 DEF ProcessInv, n
  <2>2. base[x] \in Scans => row'[base[x]] = row[base[x]]
    BY <1>6, <1>8
  <2>3. base[x] \in Scans /\ task[base[x]] = "NONE" => task'[base[x]] = "NONE"
    BY <1>6 DEF n
  <2>4. base[x] \notin bound => base[x] \notin bound'
    BY <1>6, <1>10
  <2> QED BY <1>1, <2>1, <2>2, <2>3, <2>4 DEF ProcessInv
<1>14. ResultInv'
  BY <1>1, <1>3, <1>5, <1>8, <1>10 DEF ResultInv, InProgress
<1>15. BaseInv'
  <2> SUFFICES ASSUME NEW x \in Scans
               PROVE  /\ base[x] <= n
                      /\ base[x] # NoScan /\ row'[base[x]].target # x => result[base[x]] > 0
                      /\ state'[x] \in FinishedWell =>
                           IsTarget(x)' /\ result[x] > 0 /\ BaseReady(x)'
                      /\ state'[x] = "FINISHED" => result[x] > 0
    BY <1>2, <1>3 DEF BaseInv
  <2>1. base[x] <= n /\ base[x] \in Scans \cup {NoScan}
    BY <1>1, <1>2, <1>6 DEF TypeOK, Scans, NoScan, n
  <2>2. base[x] # NoScan /\ row'[base[x]].target # x => result[base[x]] > 0
    BY <1>1, <1>6, <1>8, <2>1 DEF BaseInv
  <2>3. CASE x = n
    BY <1>8, <2>1, <2>2, <2>3 DEF FinishedWell
  <2>4. CASE x # n
    <3>1. state'[x] \in FinishedWell \cup {"FINISHED"} => state'[x] = state[x]
      BY <1>8, <2>4 DEF FinishedWell
    <3>2. bound \subseteq bound' /\ unpacked' = unpacked /\ row'[x] = row[x] /\ base'[x] = base[x]
      BY <1>3, <1>8, <1>10, <2>4
    <3>3. IsTarget(x) /\ BaseReady(x) => IsTarget(x)' /\ BaseReady(x)'
      BY <3>2 DEF IsTarget, BaseReady, CanHaveBase
    <3> QED BY <1>1, <2>1, <2>2, <3>1, <3>3 DEF BaseInv
  <2> QED BY <2>3, <2>4
<1>16. ChainInv'
  <2>1. CASE UNCHANGED parent
    BY <1>1, <1>2, <1>5, <1>6, <1>8, <2>1 DEF ChainInv, IsTarget, TypeOK, Scans, NoScan, TargetTypes
  <2>2. ASSUME NEW c \in {NoScan} \cup TargetsOf(r),
               parent' = [x \in Scans |-> IF x = c THEN n ELSE parent[x]]
        PROVE  ChainInv'
    <3>1. c \in Scans => c < n /\ IsTarget(c) /\ row[c].stream = r /\ c # n
      BY <1>1, <1>2, <1>5 DEF TargetsOf, RowInv, Scans, NoScan
    <3>2. ASSUME NEW x \in Scans, parent'[x] # NoScan
          PROVE  /\ x < parent'[x] /\ parent'[x] <= created'
                 /\ IsTarget(x)' /\ IsTarget(parent[x])'
                 /\ row'[x].stream = row'[parent'[x]].stream
      <4>1. CASE x = c
        BY <1>2, <1>7, <1>8, <2>2, <3>1, <4>1 DEF IsTarget, Scans
      <4>2. CASE x # c
        <5>1. parent'[x] = parent[x] /\ parent[x] \in Scans /\ parent[x] # n
          BY <1>1, <1>6, <2>2, <3>2, <4>2 DEF TypeOK
        <5>2. x < parent[x] /\ parent[x] <= created /\ IsTarget(x) /\ IsTarget(parent[x])
              /\ row[x].stream = row[parent[x]].stream
          BY <1>1, <5>1 DEF ChainInv, Scans, NoScan
        <5>3. x # n
          BY <1>5, <5>2 DEF IsTarget, TargetTypes
        <5> QED BY <1>2, <1>8, <5>1, <5>2, <5>3 DEF IsTarget, Scans
      <4> QED BY <4>1, <4>2
    <3>3. ASSUME NEW x \in Scans, NEW y \in Scans, parent'[x] = parent'[y],
                 parent'[x] # NoScan
          PROVE  x = y
      BY <1>1, <1>6, <2>2, <3>3 DEF ChainInv
    <3> QED BY <3>2, <3>3 DEF ChainInv
  <2> QED BY <1>10, <2>1, <2>2
<1>17. DeadIsDisabled'
  <2> SUFFICES ASSUME NEW x \in Scans, enabled'[x]
               PROVE  IsTarget(x)' /\ state'[x] \in InProgress \cup FinishedWell
    BY DEF DeadIsDisabled
  <2>1. CASE x = n
    BY <1>7, <1>8, <2>1 DEF IsTarget, InProgress
  <2>2. CASE x # n
    BY <1>8, <1>9, <2>2 DEF IsTarget
  <2> QED BY <2>1, <2>2
<1> QED BY <1>11, <1>12, <1>13, <1>14, <1>15, <1>16, <1>17 DEF IInv

LEMMA SubmitIInv ==
  ASSUME IInv, NEW r \in Streams, NEW b \in Builds,
         SubmitScan(r, b) \/ SubmitFails(r, b)
  PROVE  IInv'
<1> DEFINE n == created + 1
           old == CanceledTasks(Obsolete(r))
<1>1. old \in [Scans -> TaskStates] /\ \A s \in Scans : old[s] # task[s] =>
        task[s] # "NONE" /\ old[s] \notin {"NONE", "FREE"}
  BY CanceledTasksCol DEF IInv, Active
<1>2. CanceledEnabled(Obsolete(r)) \in [Scans -> BOOLEAN]
  BY CancelDies DEF Obsolete, TargetsOf, Died
<1>3. n \in Scans
  BY BoundsAssumption DEF IInv, TypeOK, SubmitScan, SubmitFails, NewRow, Scans
<1> HIDE DEF old
<1>4. CASE SubmitScan(r, b)
  <2>1. task' = [old EXCEPT ![n] = "FREE"]
    BY <1>4 DEF SubmitScan, old
  <2>2. task' \in [Scans -> TaskStates] /\ \A s \in Scans \ {n} : task'[s] # task[s] =>
          task[s] # "NONE" /\ task'[s] \notin {"NONE", "FREE"}
    BY <1>1, <2>1 DEF TaskStates, Active
  <2>3. \E child \in Children(r) :
          enabled' = [s \in Scans |->
                        s = n \/ (s # child /\ CanceledEnabled(Obsolete(r))[s])]
    BY <1>4 DEF SubmitScan
  <2>4. enabled' \in [Scans -> BOOLEAN] /\ \A s \in Scans \ {n} :
          enabled'[s] => CanceledEnabled(Obsolete(r))[s]
    BY <1>2, <2>3
  <2>5. /\ NewRow(n, "QUEUED", b, r) /\ bound' = bound \cup {n}
        /\ \E child \in Children(r) :
             parent' = [s \in Scans |-> IF s = child THEN n ELSE parent[s]]
        /\ UNCHANGED <<base, pc, fileVars>>
    BY <1>4 DEF SubmitScan
  <2> QED BY <2>2, <2>4, <2>5, NewRowIInv
<1>5. CASE SubmitFails(r, b)
  <2>1. task' = old
    BY <1>5 DEF SubmitFails, old
  <2>2. enabled' = [CanceledEnabled(Obsolete(r)) EXCEPT ![n] = TRUE]
    BY <1>5 DEF SubmitFails
  <2>3. enabled' \in [Scans -> BOOLEAN] /\ \A s \in Scans \ {n} :
          enabled'[s] => CanceledEnabled(Obsolete(r))[s]
    BY <1>2, <1>3, <2>2
  <2>4. NewRow(n, "INIT", b, r) /\ UNCHANGED <<parent, bound, base, pc, fileVars>>
    BY <1>5 DEF SubmitFails
  <2> QED BY <1>1, <2>1, <2>3, <2>4, NewRowIInv
<1> QED BY <1>4, <1>5

-----------------------------------------------------------------------------
LEMMA NextIInv == IInv /\ [Next]_vars => IInv'
<1> SUFFICES ASSUME IInv, [Next]_vars PROVE IInv'
  OBVIOUS
<1>1. CASE Submit
  BY <1>1, SubmitIInv DEF Submit
<1>2. ASSUME NEW s \in Scans, WorkerStep(s) PROVE IInv'
  BY <1>2, OpenTaskIInv, SetScanToScanningIInv, CacheRefreshFailsIInv, SkipBaseIInv,
     ReuseBaseIInv, PrepareBaseIInv, SetScanToBasescanningIInv, SpawnSubtaskIInv,
     CreateSbIInv, WaitIInv, AnalyzeIInv, WorkerFailScanIInv, WorkerFinishScanIInv,
     CloseTaskIInv, FailTaskIInv, KillIInv
     DEF WorkerStep
<1>3. ASSUME NEW s \in Scans, Operator(s) PROVE IInv'
  BY <1>3, CancelTaskIInv, InterruptTaskIInv, AdminCancelIInv, AdminFailIInv,
     AdminFinishIInv
     DEF Operator
<1>4. CASE UNCHANGED vars
  BY <1>4 DEF vars, chainVars, fileVars, IInv, TypeOK, RowInv, ProcessInv, ResultInv,
     BaseInv, ChainInv, DeadIsDisabled, IsTarget, IsBase, BaseReady, CanHaveBase
<1> QED BY <1>1, <1>2, <1>3, <1>4 DEF Next

(* The inductive invariant, from which the others follow.                  *)
THEOREM Inductive == Spec => []IInv
  BY InitIInv, NextIInv, PTL DEF Spec

(* Every column keeps its type.                                            *)
THEOREM TypeCorrect == Spec => []TypeOK
<1>1. IInv => TypeOK
  BY DEF IInv
<1> QED BY <1>1, Inductive, PTL

(* A scan is superseded by at most one scan, a later one of its stream,    *)
(* whatever fails between and during the submissions (spawn in scanner.py  *)
(* is the one place that writes the column).                               *)
THEOREM ChainCorrect == Spec => []ChainInv
<1>1. IInv => ChainInv
  BY DEF IInv
<1> QED BY <1>1, Inductive, PTL

(* No failure, cancellation, late call or admin button leaves a failed or  *)
(* a canceled scan enabled.                                                *)
THEOREM DeadDisabled == Spec => []DeadIsDisabled
<1>1. IInv => DeadIsDisabled
  BY DEF IInv
<1> QED BY <1>1, Inductive, PTL

(* A scan in a finished state has a Result of its own, dated apart from    *)
(* every other Result.                                                     *)
THEOREM VerdictsHaveResults == Spec => []VerdictHasResult
<1>1. IInv => VerdictHasResult
  BY DEF IInv, BaseInv, ResultInv, VerdictHasResult
<1> QED BY <1>1, Inductive, PTL

(* Whatever happens to the base scan meanwhile, a target only gets a       *)
(* verdict by comparison with results that exist.                          *)
THEOREM VerdictsHaveBases == Spec => []VerdictHasBase
<1>1. IInv => VerdictHasBase
  BY DEF IInv, BaseInv, BaseReady, VerdictHasBase
<1> QED BY <1>1, Inductive, PTL

(* cancel_scan cancels the base of a canceled target, and never one that   *)
(* another target also uses.                                               *)
THEOREM SharedBasesAreDone == Spec => []SharedBaseIsDone
<1>1. IInv => SharedBaseIsDone
  <2> SUFFICES ASSUME IInv, NEW s \in Scans, base[s] # NoScan, row[base[s]].target # s
               PROVE  state[base[s]] \notin InProgress
    BY DEF SharedBaseIsDone
  <2>1. base[s] \in Scans /\ result[base[s]] > 0
    BY DEF IInv, TypeOK, BaseInv
  <2> QED BY <2>1 DEF IInv, ResultInv
<1> QED BY <1>1, Inductive, PTL

-----------------------------------------------------------------------------
(***************************************************************************)
(* Streams: which scan of a package counts, and that it is the one that    *)
(* CurrentScan says, while nothing goes wrong but the death of worker      *)
(* processes.  IInv is used throughout.                                    *)
(***************************************************************************)
(* A worker may die with its task OPEN at any call.  No process outlives   *)
(* its task, the hub does not raise in create_task or process_scan, tasks  *)
(* end right after the last call about their scan, no admin button.        *)
OnlyCrashes == Faults \subseteq {"crash"}

(* The targets are bound, and one that is in progress has a task.  A       *)
(* scan is canceled together with its task.                                *)
TaskOf(s) ==
  /\ IsTarget(s) => s \in bound
  /\ IsTarget(s) /\ state[s] \in InProgress => task[s] \in Active
  /\ task[s] \in Active => state[s] # "CANCELED"
  /\ task[s] = "FREE" => state[s] \in InProgress
  /\ task[s] = "CLOSED" => state[s] \in FinishedWell \cup {"FINISHED"}

(* How far a process is says what state its scan is in.                    *)
OpenOf(s) ==
  task[s] = "OPEN" =>
    /\ pc[s] # "none"
    /\ pc[s] \in (EarlySteps \ {"wait"}) \cup {"fail_scan", "finish_scan"} =>
         state[s] \in InProgress
    /\ pc[s] = "wait" =>
         state[s] \in InProgress \/ (state[s] = "FAILED" /\ state[base[s]] = "FAILED")
    /\ pc[s] = "fail_task" => state[s] \in InProgress \cup {"FAILED"}
    /\ pc[s] = "close_task" => state[s] \in FinishedWell \cup {"FINISHED"}
    /\ pc[s] \in {"set_scan_to_basescanning", "spawn_subtask"} => state[base[s]] = "INIT"
    /\ pc[s] = "create_sb" => base[s] \notin bound

(* A base belongs to the one scan that prepared it, which waits for it.    *)
PreparedOf(b, s) ==
  row[b].target = s =>
    /\ base[s] = b
    /\ task[s] \notin {"NONE", "FREE"}
    /\ pc[s] \notin {"set_scan_to_scanning", "ensure_base"}
    /\ task[b] \in Active =>
         /\ state[s] \in InProgress \cup {"FAILED"}
         /\ task[s] = "OPEN" => pc[s] \in {"create_sb", "wait"}

ReadyOf(s) ==
  /\ pc[s] \in {"resume", "analyze", "fail_scan", "finish_scan"} => BaseReady(s)
  /\ result[s] > 0 => s \in unpacked

CrashInv ==
  /\ \A s \in Scans : TaskOf(s) /\ OpenOf(s) /\ ReadyOf(s)
  /\ \A b, s \in Scans : PreparedOf(b, s)

(* The scan in progress is the newest one of its package, and a scan that  *)
(* finished later is a later one.                                          *)
NewestInv ==
  \A s, t \in Scans :
    IsTarget(s) /\ IsTarget(t) /\ row[s].stream = row[t].stream =>
      /\ state[s] \in InProgress => t <= s
      /\ state[s] \in FinishedWell /\ state[t] \in FinishedWell /\ s < t =>
           result[s] < result[t]

(* Only scans with a verdict are superseded.  The one that a scan without  *)
(* a verdict superseded is the last one, and nothing else is in progress.  *)
LinkInv ==
  /\ \A c \in Scans : parent[c] # NoScan =>
       /\ state[c] \in FinishedWell
       /\ state[parent[c]] \notin FinishedWell =>
            /\ c \in LatestOfPackage(row[c].stream)
            /\ Obsolete(row[c].stream) \subseteq {parent[c]}
  /\ \A p \in Scans : IsTarget(p) /\ state[p] \in InProgress =>
       \A c \in LatestOfPackage(row[p].stream) : parent[c] = p

(* The scan in progress counts, or else the last one with a verdict.       *)
CurrentInv ==
  \A s \in Scans : IsTarget(s) =>
    (enabled[s] <=> \/ state[s] \in InProgress
                    \/ /\ Obsolete(row[s].stream) = {}
                       /\ s \in LatestOfPackage(row[s].stream))

LEMMA OpenTaskCrash ==
  ASSUME IInv, CrashInv, OnlyCrashes, NEW s \in Scans, OpenTask(s)
  PROVE  CrashInv'
  BY DEF OpenTask, IInv, TypeOK, CrashInv, TaskOf, OpenOf, PreparedOf, ReadyOf,
     BaseReady, CanHaveBase, IsTarget, Active, Goto, chainVars, fileVars

LEMMA SetScanToScanningCrash ==
  ASSUME IInv, CrashInv, OnlyCrashes, NEW s \in Scans, SetScanToScanning(s)
  PROVE  CrashInv'
<1>1. CASE Calls(s, "set_scan_to_scanning") /\ Goto(s, "ensure_base")
  BY <1>1 DEF SetScanToScanning, SetState, IInv, ResultInv, BaseInv, CrashInv, TaskOf,
     OpenOf, PreparedOf, ReadyOf, BaseReady, CanHaveBase, IsTarget, Active, InProgress,
     EarlySteps, Calls, Goto, chainVars, fileVars, OnlyCrashes, Scans, NoScan
<1>2. CASE Calls(s, "resume") /\ Goto(s, "analyze")
  BY <1>2 DEF SetScanToScanning, SetState, IInv, ResultInv, BaseInv, CrashInv, TaskOf,
     OpenOf, PreparedOf, ReadyOf, BaseReady, CanHaveBase, IsTarget, Active, InProgress,
     EarlySteps, Calls, Goto, chainVars, fileVars, OnlyCrashes, Scans, NoScan
<1> QED BY <1>1, <1>2 DEF SetScanToScanning

LEMMA CacheRefreshFailsCrash ==
  ASSUME IInv, CrashInv, OnlyCrashes, NEW s \in Scans, CacheRefreshFails(s)
  PROVE  CrashInv'
  BY DEF CacheRefreshFails, CrashInv, TaskOf, OpenOf, PreparedOf, ReadyOf, BaseReady,
     CanHaveBase, IsTarget, EarlySteps, Calls, Goto, chainVars, fileVars

LEMMA SkipBaseCrash ==
  ASSUME IInv, CrashInv, OnlyCrashes, NEW s \in Scans, SkipBase(s)
  PROVE  CrashInv'
  BY DEF SkipBase, CrashInv, TaskOf, OpenOf, PreparedOf, ReadyOf, BaseReady,
     CanHaveBase, IsTarget, EarlySteps, Calls, Goto, chainVars, fileVars

LEMMA ReuseBaseCrash ==
  ASSUME IInv, CrashInv, OnlyCrashes, NEW s \in Scans, ReuseBase(s)
  PROVE  CrashInv'
  BY DEF ReuseBase, LatestBinding, LatestResult, IInv, TypeOK, CrashInv, TaskOf,
     OpenOf, PreparedOf, ReadyOf, BaseReady, CanHaveBase, IsTarget, EarlySteps, Calls,
     Goto, fileVars

LEMMA PrepareBaseCrash ==
  ASSUME IInv, CrashInv, OnlyCrashes, NEW s \in Scans, PrepareBase(s)
  PROVE  CrashInv'
<1> DEFINE b == created + 1
<1>1. /\ row' = [row EXCEPT ![b] = Row("ERRATA_BASE", row[s].base_nvr, None, row[s].stream, s)]
      /\ state' = [state EXCEPT ![b] = "INIT"] /\ base' = [base EXCEPT ![s] = b]
      /\ pc' = [pc EXCEPT ![s] = "set_scan_to_basescanning"]
      /\ UNCHANGED <<bound, task, unpacked, result>>
      /\ CanHaveBase(s) /\ pc[s] = "ensure_base" /\ task[s] = "OPEN"
  BY DEF PrepareBase, BaseRow, Calls, Goto, SetState, fileVars, OnlyCrashes
<1>2. b \in Scans /\ ~(b <= created) /\ created \in Nat
  BY BoundsAssumption DEF IInv, TypeOK, Scans, PrepareBase
<1>3. /\ row[b].type = "NONE" /\ task[b] = "NONE" /\ b \notin bound /\ state[b] = "INIT"
      /\ pc[b] = "none" /\ \A x \in Scans : base[x] # b
  BY <1>2 DEF IInv, RowInv, ProcessInv, BaseInv, Scans
<1> HIDE DEF b
<1>4. /\ row'[b].type = "ERRATA_BASE" /\ row'[b].target = s
      /\ \A x \in Scans \ {b} : row'[x] = row[x]
      /\ base'[s] = b /\ \A x \in Scans \ {s} : base'[x] = base[x]
      /\ pc'[s] = "set_scan_to_basescanning" /\ \A x \in Scans \ {s} : pc'[x] = pc[x]
      /\ state' = state
  BY <1>1, <1>2, <1>3 DEF Row, IInv, TypeOK
<1>5. \A x \in Scans : TaskOf(x)'
  BY <1>1, <1>2, <1>3, <1>4 DEF CrashInv, TaskOf, IsTarget, TargetTypes
<1>6. \A x \in Scans : OpenOf(x)'
  BY <1>1, <1>2, <1>3, <1>4 DEF CrashInv, OpenOf, EarlySteps
<1>7. \A x \in Scans : ReadyOf(x)'
  BY <1>1, <1>2, <1>3, <1>4 DEF CrashInv, ReadyOf, BaseReady, CanHaveBase
<1>8. ASSUME NEW x \in Scans, NEW y \in Scans PROVE PreparedOf(x, y)'
  <2>1. CASE x = b
    BY <1>1, <1>2, <1>3, <1>4, <2>1 DEF PreparedOf, Active
  <2>2. CASE x # b
    BY <1>1, <1>2, <1>3, <1>4, <2>2 DEF CrashInv, PreparedOf
  <2> QED BY <2>1, <2>2
<1> QED BY <1>5, <1>6, <1>7, <1>8 DEF CrashInv

LEMMA SetScanToBasescanningCrash ==
  ASSUME IInv, CrashInv, OnlyCrashes, NEW s \in Scans, SetScanToBasescanning(s)
  PROVE  CrashInv'
  BY DEF SetScanToBasescanning, SetState, IInv, ResultInv, BaseInv, CrashInv, TaskOf,
     OpenOf, PreparedOf, ReadyOf, BaseReady, CanHaveBase, IsTarget, Active, InProgress,
     EarlySteps, Calls, Goto, chainVars, fileVars, OnlyCrashes, Scans, NoScan

LEMMA SpawnSubtaskCrash ==
  ASSUME IInv, CrashInv, OnlyCrashes, NEW s \in Scans, SpawnSubtask(s)
  PROVE  CrashInv'
  BY DEF SpawnSubtask, IInv, TypeOK, ProcessInv, CrashInv, TaskOf, OpenOf, PreparedOf,
     ReadyOf, BaseReady, CanHaveBase, IsTarget, InProgress, EarlySteps, Calls, Goto,
     chainVars, fileVars

LEMMA CreateSbCrash ==
  ASSUME IInv, CrashInv, OnlyCrashes, NEW s \in Scans, CreateSb(s)
  PROVE  CrashInv'
  BY DEF CreateSb, IInv, TypeOK, ProcessInv, CrashInv, TaskOf, OpenOf, PreparedOf,
     ReadyOf, BaseReady, CanHaveBase, IsTarget, EarlySteps, Calls, Goto, chainVars,
     fileVars

LEMMA WaitCrash ==
  ASSUME IInv, CrashInv, OnlyCrashes, NEW s \in Scans, Wait(s)
  PROVE  CrashInv'
  BY DEF Wait, IInv, ProcessInv, ResultInv, BaseInv, CrashInv, TaskOf, OpenOf,
     PreparedOf, ReadyOf, BaseReady, CanHaveBase, IsTarget, EarlySteps, Calls, Goto,
     chainVars, fileVars

LEMMA AnalyzeCrash ==
  ASSUME IInv, CrashInv, OnlyCrashes, NEW s \in Scans, Analyze(s)
  PROVE  CrashInv'
<1>1. CASE Goto(s, "fail_scan")
  BY <1>1 DEF Analyze, CrashInv, TaskOf, OpenOf, PreparedOf, ReadyOf, BaseReady,
     CanHaveBase, IsTarget, EarlySteps, Calls, Goto, chainVars
<1>2. CASE Goto(s, "finish_scan")
  BY <1>2 DEF Analyze, CrashInv, TaskOf, OpenOf, PreparedOf, ReadyOf, BaseReady,
     CanHaveBase, IsTarget, EarlySteps, Calls, Goto, chainVars
<1> QED BY <1>1, <1>2 DEF Analyze

LEMMA WorkerFailScanCrash ==
  ASSUME IInv, CrashInv, OnlyCrashes, NEW s \in Scans, WorkerFailScan(s)
  PROVE  CrashInv'
  BY DEF WorkerFailScan, FailScan, FailedWith, IInv, TypeOK, ProcessInv, CrashInv,
     TaskOf, OpenOf, PreparedOf, ReadyOf, BaseReady, CanHaveBase, IsTarget, Active,
     InProgress, FinishedWell, EarlySteps, Calls, Goto, chainVars, fileVars,
     OnlyCrashes

LEMMA WorkerFinishScanCrash ==
  ASSUME IInv, CrashInv, OnlyCrashes, NEW s \in Scans, WorkerFinishScan(s)
  PROVE  CrashInv'
<1>1. /\ pc[s] = "finish_scan" /\ task[s] = "OPEN" /\ state[s] \in InProgress /\ BaseReady(s)
  BY DEF WorkerFinishScan, Calls, OnlyCrashes, CrashInv, OpenOf, ReadyOf, EarlySteps
<1>2. CASE s \in bound
  <2>1. /\ UNCHANGED <<row, base, bound, task>> /\ unpacked' = unpacked \cup {s}
        /\ NewResult(s) /\ pc' = [pc EXCEPT ![s] = "close_task"]
        /\ \E v \in IF IsBase(s) THEN {"FINISHED"} ELSE Verdicts : state' = [state EXCEPT ![s] = v]
    BY <1>1, <1>2 DEF WorkerFinishScan, FinishScan, SetState, Goto, OnlyCrashes, chainVars,
       InProgress
  <2>2. PICK v \in FinishedWell \cup {"FINISHED"} : state' = [state EXCEPT ![s] = v]
    BY <2>1, VerdictsAssumption DEF FinishedWell
  <2>3. \A x \in Scans : result'[x] > 0 => result[x] > 0 \/ x = s
    BY <2>1 DEF NewResult, IInv, TypeOK
  <2>4. \A x \in Scans : TaskOf(x)'
    BY <1>1, <1>2, <2>1, <2>2 DEF IInv, TypeOK, CrashInv, TaskOf, IsTarget, Active,
       InProgress, FinishedWell
  <2>5. \A x \in Scans : OpenOf(x)'
    <3> TAKE x \in Scans
    <3>1. CASE x = s
      BY <1>1, <2>1, <2>2, <3>1 DEF IInv, TypeOK, OpenOf, EarlySteps
    <3>2. CASE x # s
      BY <1>1, <2>1, <2>2, <3>2 DEF IInv, TypeOK, ProcessInv, CrashInv, OpenOf, EarlySteps,
         InProgress, FinishedWell
    <3> QED BY <3>1, <3>2
  <2>6. \A x \in Scans : ReadyOf(x)'
    BY <1>1, <2>1, <2>3 DEF IInv, TypeOK, CrashInv, ReadyOf, BaseReady, CanHaveBase
  <2>7. \A x, y \in Scans : PreparedOf(x, y)'
    BY <1>1, <2>1, <2>2 DEF IInv, TypeOK, CrashInv, PreparedOf, InProgress
  <2> QED BY <2>4, <2>5, <2>6, <2>7 DEF CrashInv
<1>3. CASE s \notin bound
  <2>1. /\ UNCHANGED <<row, base, state, bound, task, unpacked, result>>
        /\ pc' = [pc EXCEPT ![s] = "fail_task"]
    BY <1>3 DEF WorkerFinishScan, Goto, chainVars
  <2>2. \A x \in Scans : TaskOf(x)' /\ OpenOf(x)' /\ ReadyOf(x)'
    BY <1>1, <2>1 DEF IInv, TypeOK, CrashInv, TaskOf, OpenOf, ReadyOf, BaseReady, CanHaveBase,
       IsTarget, EarlySteps
  <2>3. \A x, y \in Scans : PreparedOf(x, y)'
    BY <1>1, <2>1 DEF IInv, TypeOK, CrashInv, PreparedOf
  <2> QED BY <2>2, <2>3 DEF CrashInv
<1> QED BY <1>2, <1>3

LEMMA CloseTaskCrash ==
  ASSUME IInv, CrashInv, OnlyCrashes, NEW s \in Scans, CloseTask(s)
  PROVE  CrashInv'
  BY DEF CloseTask, IInv, TypeOK, CrashInv, TaskOf, OpenOf, PreparedOf, ReadyOf,
     BaseReady, CanHaveBase, IsTarget, Active, InProgress, FinishedWell, Goto,
     chainVars, fileVars

LEMMA FailTaskCrash ==
  ASSUME IInv, CrashInv, OnlyCrashes, NEW s \in Scans, FailTask(s)
  PROVE  CrashInv'
<1>1. CASE s \in bound /\ state[s] # "FAILED" /\ IsBase(s)
  <2>1. row[s].target \in Scans /\ state' = [x \in Scans |->
          IF x = s \/ x = row[s].target THEN "FAILED" ELSE state[x]]
    BY <1>1 DEF FailTask, FailScan, FailedWith, IInv, RowInv
  <2>2. /\ pc[s] = "fail_task" /\ task[s] = "OPEN" /\ pc' = [pc EXCEPT ![s] = "none"]
        /\ task' = [task EXCEPT ![s] = "FAILED"]
        /\ UNCHANGED <<row, base, bound, result, unpacked>>
    BY DEF FailTask, Goto, chainVars, fileVars
  <2> QED BY <1>1, <2>1, <2>2 DEF IInv, TypeOK, RowInv, ProcessInv, CrashInv, TaskOf,
     OpenOf, PreparedOf, ReadyOf, BaseReady, CanHaveBase, IsTarget, Active
<1>2. CASE s \in bound /\ state[s] # "FAILED" /\ ~IsBase(s)
  <2>1. state' = [state EXCEPT ![s] = "FAILED"]
    BY <1>2 DEF FailTask, FailScan, FailedWith, IInv, TypeOK
  <2>2. /\ pc[s] = "fail_task" /\ task[s] = "OPEN" /\ pc' = [pc EXCEPT ![s] = "none"]
        /\ task' = [task EXCEPT ![s] = "FAILED"]
        /\ UNCHANGED <<row, base, bound, result, unpacked>>
    BY DEF FailTask, Goto, chainVars, fileVars
  <2> QED BY <1>2, <2>1, <2>2 DEF IInv, TypeOK, ResultInv, BaseInv, CrashInv, TaskOf,
     OpenOf, PreparedOf, ReadyOf, BaseReady, CanHaveBase, IsTarget, Active, InProgress,
     Scans, NoScan
<1>3. CASE s \notin bound \/ state[s] = "FAILED"
  <2>1. /\ pc[s] = "fail_task" /\ task[s] = "OPEN" /\ pc' = [pc EXCEPT ![s] = "none"]
        /\ task' = [task EXCEPT ![s] = "FAILED"]
        /\ UNCHANGED <<row, base, state, bound, result, unpacked>>
    BY <1>3 DEF FailTask, Goto, chainVars, fileVars
  <2>2. \A x \in Scans : TaskOf(x)'
    BY <1>3, <2>1 DEF IInv, TypeOK, CrashInv, TaskOf, OpenOf, IsTarget, Active, InProgress
  <2>3. \A x \in Scans : OpenOf(x)' /\ ReadyOf(x)'
    BY <2>1 DEF IInv, TypeOK, CrashInv, OpenOf, ReadyOf, BaseReady, CanHaveBase, EarlySteps
  <2>4. \A x, y \in Scans : PreparedOf(x, y)'
    BY <2>1 DEF IInv, TypeOK, CrashInv, PreparedOf, Active
  <2> QED BY <2>2, <2>3, <2>4 DEF CrashInv
<1> QED BY <1>1, <1>2, <1>3

LEMMA KillCrash ==
  ASSUME IInv, CrashInv, OnlyCrashes, NEW s \in Scans, Kill(s)
  PROVE  CrashInv'
  BY DEF Kill, CrashInv, TaskOf, OpenOf, PreparedOf, ReadyOf, BaseReady, CanHaveBase,
     IsTarget, Goto, chainVars, fileVars

LEMMA CancelTaskCrash ==
  ASSUME IInv, CrashInv, OnlyCrashes, NEW s \in Scans, CancelTask(s)
  PROVE  CrashInv'
  BY DEF CancelTask, CancelScans, CanceledState, CanceledTasks, IInv, TypeOK, RowInv,
     ProcessInv, ResultInv, BaseInv, CrashInv, TaskOf, OpenOf, PreparedOf, ReadyOf,
     BaseReady, CanHaveBase, IsTarget, IsBase, Active, InProgress, EarlySteps,
     chainVars, fileVars, OnlyCrashes, Scans, NoScan

LEMMA InterruptTaskCrash ==
  ASSUME IInv, CrashInv, OnlyCrashes, NEW s \in Scans, InterruptTask(s)
  PROVE  CrashInv'
<1>1. CASE s \in bound
  BY <1>1 DEF InterruptTask, FailScan, FailedWith, IInv, TypeOK, ProcessInv, CrashInv,
     TaskOf, OpenOf, PreparedOf, ReadyOf, BaseReady, CanHaveBase, IsTarget, Active,
     InProgress, FinishedWell, Goto, chainVars, fileVars
<1>2. CASE s \notin bound
  BY <1>2 DEF InterruptTask, IInv, TypeOK, CrashInv, TaskOf, OpenOf, PreparedOf,
     ReadyOf, BaseReady, CanHaveBase, IsTarget, Active, Goto, chainVars, fileVars
<1> QED BY <1>1, <1>2

LEMMA SubmitCrash ==
  ASSUME IInv, CrashInv, OnlyCrashes, NEW r \in Streams, NEW b \in Builds,
         SubmitScan(r, b)
  PROVE  CrashInv'
<1> SUFFICES ASSUME NEW n, n = created + 1 PROVE CrashInv'
  OBVIOUS
<1> DEFINE D == Obsolete(r)
           st == CanceledState(D)
           tk == CanceledTasks(D)
<1>1. /\ state' = [st EXCEPT ![n] = "QUEUED"] /\ task' = [tk EXCEPT ![n] = "FREE"]
      /\ row' = [row EXCEPT ![n] = Row(b.type, b.nvr, b.base_nvr, r, NoScan)]
      /\ bound' = bound \cup {n}
      /\ UNCHANGED <<base, pc, unpacked, result>>
  BY DEF SubmitScan, NewRow, fileVars
<1>2. n \in Scans /\ ~(n <= created) /\ created \in Nat
  BY BoundsAssumption DEF IInv, TypeOK, Scans, SubmitScan, NewRow
<1>3. /\ task[n] = "NONE" /\ n \notin bound /\ pc[n] = "none" /\ result[n] = 0
      /\ \A x \in Scans : base[x] # n /\ row[x].target # n
  <2>1. /\ task[n] = "NONE" /\ n \notin bound /\ pc[n] = "none" /\ result[n] = 0
        /\ \A x \in Scans : base[x] # n
    BY <1>2 DEF IInv, TypeOK, RowInv, ProcessInv, BaseInv, ResultInv, Scans
  <2> QED BY <1>2, <2>1 DEF CrashInv, PreparedOf
<1>4. /\ D \subseteq bound /\ n \notin D
      /\ \A d \in D : d \in Scans /\ IsTarget(d) /\ state[d] \in InProgress /\ task[d] \in Active
  BY <1>3 DEF Obsolete, TargetsOf, CrashInv, TaskOf, IInv, TypeOK
(* The base of a canceled scan that is in progress is its own.             *)
<1>5. \A x, d \in Scans : IsTarget(d) /\ base[d] = x /\ state[x] \in InProgress => row[x].target = d
  BY DEF IInv, BaseInv, ResultInv, NoScan, Scans
<1>6. \A x \in Scans : st[x] = state[x] \/
        /\ st[x] = "CANCELED" /\ state[x] \in InProgress
        /\ x \in D \/ row[x].target \in D
  BY <1>4, <1>5 DEF CanceledState
<1>7. \A x \in Scans : tk[x] = IF task[x] \in Active /\ (x \in D \/ row[x].target \in D)
                               THEN "CANCELED" ELSE task[x]
  BY <1>4 DEF CanceledTasks
<1>8. /\ b \in Submission /\ row'[n].type \in TargetTypes /\ row'[n].target = NoScan
      /\ \A x \in Scans \ {n} : row'[x] = row[x]
      /\ state'[n] = "QUEUED" /\ \A x \in Scans \ {n} : state'[x] = st[x]
      /\ task'[n] = "FREE" /\ \A x \in Scans \ {n} : task'[x] = tk[x]
  BY <1>1, <1>2, BuildsAssumption DEF Row, Submission, IInv, TypeOK, CanceledState, CanceledTasks
<1>9. \A d \in D : d \in Scans /\ st[d] = "CANCELED"
  BY <1>4 DEF CanceledState
<1>15. bound' = bound \cup {n} /\ UNCHANGED <<base, pc, unpacked, result>>
  BY <1>1
<1> HIDE DEF D, st, tk
<1>10. ASSUME NEW x \in Scans \ {n} PROVE TaskOf(x)'
  <2>1. TaskOf(x) /\ row'[x] = row[x] /\ state'[x] = st[x] /\ task'[x] = tk[x]
    BY <1>8 DEF CrashInv
  <2>2. IsTarget(x) => row[x].target \notin D
    BY <1>4 DEF IInv, RowInv, Scans, NoScan
  <2> QED BY <1>15, <1>4, <1>6, <1>7, <1>9, <2>1, <2>2
          DEF TaskOf, IsTarget, Active, InProgress, FinishedWell
<1>11. ASSUME NEW x \in Scans \ {n} PROVE OpenOf(x)'
  <2>1. /\ OpenOf(x) /\ state'[x] = st[x] /\ task'[x] = tk[x]
        /\ state[x] # st[x] => task'[x] # "OPEN"
    BY <1>6, <1>7, <1>8 DEF CrashInv, Active
  <2>2. task'[x] = "OPEN" => task[x] = "OPEN" /\ x \notin D
    BY <1>4, <1>7, <1>8 DEF Active
  <2>3. /\ task[x] = "OPEN" /\ x \notin D /\ base[x] \in Scans /\ row[base[x]].target = x =>
             state'[base[x]] = state[base[x]]
    BY <1>3, <1>4, <1>6, <1>8 DEF IInv, RowInv, IsTarget, Scans, NoScan
  <2>4. pc[x] \in {"set_scan_to_basescanning", "spawn_subtask", "create_sb", "wait"} =>
          base[x] \in Scans /\ row[base[x]].target = x
    BY DEF IInv, ProcessInv
  <2> QED BY <1>15, <1>3, <2>1, <2>2, <2>3, <2>4 DEF OpenOf
<1>12. ASSUME NEW x \in Scans \ {n} PROVE ReadyOf(x)'
  BY <1>15, <1>8 DEF CrashInv, ReadyOf, BaseReady, CanHaveBase
<1>13. ASSUME NEW x \in Scans \ {n}, NEW y \in Scans \ {n} PROVE PreparedOf(x, y)'
  <2>1. PreparedOf(x, y)
    BY DEF CrashInv
  <2>2. row[x].target = y /\ task[x] \in Active => IsTarget(y) /\ y \notin {NoScan}
    BY DEF IInv, TypeOK, RowInv, IsTarget, IsBase, Scans, NoScan, Active
  <2>3. IsTarget(y) => row[y].target \notin D
    BY <1>4 DEF IInv, RowInv, Scans, NoScan
  <2>4. /\ row'[x] = row[x] /\ state'[y] = st[y] /\ task'[x] = tk[x] /\ task'[y] = tk[y]
        /\ base' = base /\ pc' = pc
    BY <1>8, <1>15
  <2>5. ASSUME row[x].target = y PROVE task'[y] \notin {"NONE", "FREE"}
    BY <1>7, <2>1, <2>4, <2>5 DEF PreparedOf
  <2>6. ASSUME row[x].target = y, task'[x] \in Active
        PROVE  task[x] \in Active /\ state'[y] = state[y] /\ task'[y] = task[y]
    BY <1>6, <1>7, <2>2, <2>3, <2>4, <2>6 DEF Active
  <2> QED BY <2>1, <2>4, <2>5, <2>6 DEF PreparedOf
<1>14. TaskOf(n)' /\ OpenOf(n)' /\ ReadyOf(n)'
  BY <1>3, <1>8, <1>15 DEF TaskOf, OpenOf, ReadyOf, IsTarget, Active, InProgress
<1>16. ASSUME NEW x \in Scans PROVE PreparedOf(x, n)' /\ PreparedOf(n, x)'
  BY <1>2, <1>3, <1>8 DEF PreparedOf, Scans, NoScan
<1>17. \A x, y \in Scans : PreparedOf(x, y)'
  BY <1>13, <1>16
<1>18. \A x \in Scans : TaskOf(x)' /\ OpenOf(x)' /\ ReadyOf(x)'
  BY <1>10, <1>11, <1>12, <1>14
<1> QED BY <1>17, <1>18 DEF CrashInv

LEMMA InitCrash == Init => CrashInv
  BY DEF Init, CrashInv, TaskOf, OpenOf, PreparedOf, ReadyOf, BaseReady, CanHaveBase, IsTarget,
     TargetTypes, Active, NoRow, Row, NoScan, Scans, InProgress

LEMMA NextCrash == IInv /\ CrashInv /\ OnlyCrashes /\ [Next]_vars => CrashInv'
<1> SUFFICES ASSUME IInv, CrashInv, OnlyCrashes, [Next]_vars PROVE CrashInv'
  OBVIOUS
<1>1. CASE Submit
  BY <1>1, SubmitCrash DEF Submit, SubmitFails, OnlyCrashes
<1>2. ASSUME NEW s \in Scans, WorkerStep(s) PROVE CrashInv'
  BY <1>2, OpenTaskCrash, SetScanToScanningCrash, CacheRefreshFailsCrash, SkipBaseCrash,
     ReuseBaseCrash, PrepareBaseCrash, SetScanToBasescanningCrash, SpawnSubtaskCrash,
     CreateSbCrash, WaitCrash, AnalyzeCrash, WorkerFailScanCrash, WorkerFinishScanCrash,
     CloseTaskCrash, FailTaskCrash, KillCrash
     DEF WorkerStep
<1>3. ASSUME NEW s \in Scans, Operator(s) PROVE CrashInv'
  BY <1>3, CancelTaskCrash, InterruptTaskCrash
     DEF Operator, AdminCancel, AdminFail, AdminFinish, OnlyCrashes
<1>4. CASE UNCHANGED vars
  BY <1>4 DEF vars, chainVars, fileVars, CrashInv, TaskOf, OpenOf, PreparedOf, ReadyOf,
     BaseReady, CanHaveBase, IsTarget
<1> QED BY <1>1, <1>2, <1>3, <1>4 DEF Next

-----------------------------------------------------------------------------
(* enable_last_successfull, where every superseded scan has a verdict.     *)

(* The walk ends at the scan itself or at its child.                       *)
LEMMA WalkValue ==
  ASSUME NEW st, \A c \in Scans : parent[c] # NoScan => st[c] \in FinishedWell,
         NEW s \in Scans
  PROVE  EndOfWalk(st)[s] = IF st[s] \in FinishedWell \/ ~\E c \in Scans : parent[c] = s
                            THEN s ELSE CHOOSE c \in Scans : parent[c] = s
<1> DEFINE Stops(x) == st[x] \in FinishedWell \/ ~\E c \in Scans : parent[c] = x
           child(x) == CHOOSE c \in Scans : parent[c] = x
           walk == [x \in Scans |-> IF Stops(x) THEN x ELSE child(x)]
           Body(w) == [x \in Scans |-> IF Stops(x) THEN x ELSE w[child(x)]]
<1>1. \A x \in Scans : ~Stops(x) => child(x) \in Scans /\ Stops(child(x))
  <2> TAKE x \in Scans
  <2> HAVE ~Stops(x)
  <2>1. child(x) \in Scans /\ parent[child(x)] = x
    OBVIOUS
  <2> QED BY <2>1 DEF NoScan, Scans
<1> HIDE DEF Stops, child
<1>2. walk = Body(walk)
  BY <1>1
<1>3. EndOfWalk(st) = CHOOSE w : w = Body(w)
  BY DEF EndOfWalk, Stops, child
<1>4. EndOfWalk(st) = Body(EndOfWalk(st))
  <2> HIDE DEF walk, Body
  <2> QED BY <1>2, <1>3
<1>5. \A x \in Scans : Stops(x) => EndOfWalk(st)[x] = x
  BY <1>4
<1>6. EndOfWalk(st)[s] = IF Stops(s) THEN s ELSE child(s)
  BY <1>1, <1>4, <1>5
<1> QED BY <1>6 DEF Stops, child

(* Switching off a scan without a verdict switches on what it superseded.  *)
LEMMA SwitchOffOne ==
  ASSUME ChainInv, NEW d \in Scans, NEW st, st[d] \notin FinishedWell,
         \A c \in Scans : parent[c] # NoScan => st[c] \in FinishedWell
  PROVE  \A x \in Scans : SwitchOff({d}, st)[x] <=> parent[x] = d \/ (x # d /\ enabled[x])
<1>1. d # NoScan
  BY DEF Scans, NoScan
<1>2. {EndOfWalk(st)[s] : s \in {d}} = {EndOfWalk(st)[d]}
  OBVIOUS
<1>3. \A x \in Scans : parent[x] = d <=> x = EndOfWalk(st)[d] /\ st[x] \in FinishedWell
  <2>1. CASE \E c \in Scans : parent[c] = d
    BY <1>1, <2>1, WalkValue DEF ChainInv
  <2>2. CASE ~\E c \in Scans : parent[c] = d
    BY <2>2, WalkValue
  <2> QED BY <2>1, <2>2
<1> QED BY <1>2, <1>3 DEF SwitchOff

LEMMA SwitchOffNone ==
  ASSUME TypeOK, NEW st
  PROVE  SwitchOff({}, st) = enabled
  BY DEF SwitchOff, TypeOK

-----------------------------------------------------------------------------
(* What a step does to the streams.                                        *)

StreamInv == NewestInv /\ LinkInv /\ CurrentInv

(* The other targets than d stay in progress, or finished, or neither.     *)
Others(d) ==
  /\ UNCHANGED parent
  /\ \A s \in Scans : /\ IsTarget(s)' <=> IsTarget(s)
                      /\ IsTarget(s) => row'[s].stream = row[s].stream
  /\ \A s \in Scans \ {d} : IsTarget(s) =>
       /\ state'[s] \in InProgress <=> state[s] \in InProgress
       /\ state'[s] \in FinishedWell <=> state[s] \in FinishedWell
       /\ result'[s] = result[s]

Quiet ==
  /\ Others(NoScan)
  /\ \A s \in Scans : enabled'[s] <=> enabled[s]

Finishes(d) ==
  /\ IsTarget(d) /\ state[d] \in InProgress
  /\ Others(d)
  /\ state'[d] \in FinishedWell
  /\ \A s \in Scans : result[s] < result'[d]
  /\ \A s \in Scans : enabled'[s] <=> enabled[s]

(* The scan that d superseded, if any, is switched on.                     *)
Abandons(d) ==
  /\ IsTarget(d) /\ state[d] \in InProgress
  /\ Others(d)
  /\ state'[d] \notin InProgress \cup FinishedWell
  /\ \A s \in Scans : enabled'[s] <=> parent[s] = d \/ (s # d /\ enabled[s])

(* A new target takes over its stream.                                     *)
Takes(n, r) ==
  /\ ~IsTarget(n) /\ IsTarget(n)' /\ row'[n].stream = r /\ state'[n] \in InProgress
  /\ \A s \in Scans : IsTarget(s) =>
       /\ s < n /\ IsTarget(s)' /\ row'[s].stream = row[s].stream
       /\ result'[s] = result[s]
       /\ state'[s] \in FinishedWell <=> state[s] \in FinishedWell
       /\ state'[s] \in InProgress <=> state[s] \in InProgress /\ row[s].stream # r
  /\ \A s \in Scans \ {n} : IsTarget(s)' => IsTarget(s)
  /\ \A s \in Scans : parent'[s] = IF s \in LatestOfPackage(r) THEN n ELSE parent[s]
  /\ \A s \in Scans : enabled'[s] <=> s = n \/ (enabled[s] /\ row[s].stream # r)

(* Failing a scan of an OPEN task: the target of a base fails with it.     *)
LEMMA FailScanKind ==
  ASSUME IInv, CrashInv, StreamInv, NEW s \in Scans, task[s] = "OPEN",
         state[s] \in InProgress \cup {"FAILED"}, FailScan(s),
         UNCHANGED <<row, parent, result>>
  PROVE  /\ Quiet \/ \E d \in Scans : Abandons(d)
         /\ \A x \in Scans : state'[x] # state[x] => state[x] \in InProgress
<1> DEFINE st == [x \in Scans |-> IF x \in FailedWith(s) THEN "FAILED" ELSE state[x]]
           dead == {x \in FailedWith(s) : IsTarget(x)}
<1>1. state' = st /\ enabled' = SwitchOff(dead, st)
  BY DEF FailScan
<1>2. \A x \in FailedWith(s) : state[x] \in InProgress \cup {"FAILED"}
  BY DEF FailedWith, CrashInv, PreparedOf, Active
<1>3. \A x \in Scans : state'[x] = IF x \in FailedWith(s) THEN "FAILED" ELSE state[x]
  BY <1>1
<1>4. dead = {} \/ \E d \in Scans : dead = {d} /\ IsTarget(d) /\ d \in FailedWith(s)
  <2>1. CASE IsTarget(s)
    BY <2>1 DEF FailedWith, IsTarget, IsBase, TargetTypes
  <2>2. CASE ~IsTarget(s)
    BY <2>2 DEF FailedWith
  <2> QED BY <2>1, <2>2
<1>5. \A c \in Scans : parent[c] # NoScan => st[c] \in FinishedWell
  BY <1>2 DEF StreamInv, LinkInv, FinishedWell, InProgress
<1>6. \A x \in Scans : state'[x] # state[x] => state[x] \in InProgress
  BY <1>2, <1>3
<1>7. \A x \in Scans : state'[x] # state[x] => x \in FailedWith(s) /\ state'[x] = "FAILED"
  BY <1>3
<1> HIDE DEF dead, st
<1>8. CASE dead = {}
  <2>1. enabled' = enabled
    BY <1>1, <1>8, SwitchOffNone DEF IInv
  <2>2. \A x \in Scans : IsTarget(x) => state'[x] = state[x]
    BY <1>7, <1>8 DEF dead
  <2> QED BY <1>6, <2>1, <2>2 DEF Quiet, Others, IsTarget
<1>9. ASSUME NEW d \in Scans, dead = {d}, IsTarget(d), d \in FailedWith(s)
      PROVE  Quiet \/ \E e \in Scans : Abandons(e)
  <2>1. st[d] = "FAILED" /\ "FAILED" \notin FinishedWell \cup InProgress
    BY <1>1, <1>3, <1>9 DEF FinishedWell, InProgress
  <2>2. \A x \in Scans : enabled'[x] <=> parent[x] = d \/ (x # d /\ enabled[x])
    BY <1>1, <1>5, <1>9, <2>1, SwitchOffOne DEF IInv
  <2>3. \A x \in Scans \ {d} : IsTarget(x) => state'[x] = state[x]
    BY <1>7, <1>9 DEF dead
  <2>4. CASE state[d] \in InProgress
    <3>1. Abandons(d)
      BY <1>1, <1>9, <2>1, <2>2, <2>3, <2>4 DEF Abandons, Others, IsTarget
    <3> QED BY <3>1
  <2>5. CASE state[d] = "FAILED"
    <3>1. \A x \in Scans : parent[x] = d => enabled[x]
      <4> SUFFICES ASSUME NEW x \in Scans, parent[x] = d PROVE enabled[x]
        OBVIOUS
      <4>1. /\ x \in LatestOfPackage(row[x].stream) /\ Obsolete(row[x].stream) \subseteq {d}
            /\ IsTarget(x)
        BY <2>1, <2>5 DEF StreamInv, LinkInv, IInv, ChainInv, NoScan, Scans
      <4>2. Obsolete(row[x].stream) = {}
        BY <2>1, <2>5, <4>1 DEF Obsolete
      <4> QED BY <4>1, <4>2 DEF StreamInv, CurrentInv
    <3>2. ~enabled[d]
      BY <2>1, <2>5 DEF IInv, DeadIsDisabled
    <3>3. \A x \in Scans : enabled'[x] <=> enabled[x]
      BY <2>2, <3>1, <3>2
    <3>4. \A x \in Scans : IsTarget(x) => state'[x] = state[x]
      BY <1>1, <2>1, <2>3, <2>5
    <3> QED BY <3>3, <3>4 DEF Quiet, Others, IsTarget
  <2> QED BY <1>2, <1>9, <2>4, <2>5
<1> QED BY <1>4, <1>6, <1>8, <1>9

(* The steps that leave the targets, or all but their progress, alone.     *)
LEMMA QuietKind ==
  ASSUME IInv, CrashInv, OnlyCrashes, NEW s \in Scans,
         \/ OpenTask(s) \/ SetScanToScanning(s) \/ CacheRefreshFails(s)
         \/ SkipBase(s) \/ ReuseBase(s) \/ PrepareBase(s)
         \/ SetScanToBasescanning(s) \/ SpawnSubtask(s) \/ CreateSb(s) \/ Wait(s)
         \/ Analyze(s) \/ CloseTask(s) \/ Kill(s)
  PROVE  Quiet /\ \A x \in Scans : state'[x] # state[x] => state[x] \in InProgress
<1>1. UNCHANGED <<parent, enabled, result>>
  BY DEF OpenTask, SetScanToScanning, CacheRefreshFails, SkipBase, ReuseBase, PrepareBase,
     SetScanToBasescanning, SpawnSubtask, CreateSb, Wait, Analyze, CloseTask, Kill,
     chainVars, fileVars
<1>2. /\ \A x \in Scans : state'[x] = state[x] \/
           /\ x = s /\ state'[x] \in InProgress
           /\ task[s] = "OPEN" /\ pc[s] \in EarlySteps \ {"wait"}
      /\ row' = row
  \/ PrepareBase(s)
  BY DEF OpenTask, SetScanToScanning, CacheRefreshFails, SkipBase, ReuseBase,
     SetScanToBasescanning, SpawnSubtask, CreateSb, Wait, Analyze, CloseTask, Kill,
     chainVars, SetState, Calls, OnlyCrashes, IInv, TypeOK, InProgress, EarlySteps
<1>3. CASE PrepareBase(s)
  <2> SUFFICES ASSUME NEW b, b = created + 1 PROVE Quiet /\ UNCHANGED state
    OBVIOUS
  <2>1. /\ row' = [row EXCEPT ![b] =
                     Row("ERRATA_BASE", row[s].base_nvr, None, row[s].stream, s)]
        /\ state' = [state EXCEPT ![b] = "INIT"]
    BY <1>3 DEF PrepareBase, BaseRow, SetState
  <2>2. b \in Scans /\ row[b].type = "NONE" /\ state[b] = "INIT"
    BY <1>3, BoundsAssumption DEF IInv, TypeOK, RowInv, Scans, PrepareBase
  <2>3. state' = state
    BY <2>1, <2>2 DEF IInv, TypeOK
  <2>4. \A x \in Scans : /\ IsTarget(x)' <=> IsTarget(x)
                         /\ IsTarget(x) => row'[x] = row[x]
    BY <2>1, <2>2 DEF IInv, TypeOK, IsTarget, TargetTypes, Row
  <2> QED BY <1>1, <2>3, <2>4 DEF Quiet, Others
<1>4. CASE row' = row /\ \A x \in Scans : state'[x] = state[x] \/
             (x = s /\ state'[x] \in InProgress /\ task[s] = "OPEN" /\ pc[s] \in EarlySteps \ {"wait"})
  <2>1. \A x \in Scans : state'[x] # state[x] =>
          state[x] \in InProgress /\ state'[x] \in InProgress
    BY <1>4 DEF CrashInv, OpenOf
  <2> QED BY <1>1, <1>4, <2>1 DEF Quiet, Others, IsTarget, InProgress, FinishedWell
<1> QED BY <1>2, <1>3, <1>4

LEMMA FinishKind ==
  ASSUME IInv, CrashInv, OnlyCrashes, NEW s \in Scans, WorkerFinishScan(s)
  PROVE  /\ Quiet \/ Finishes(s)
         /\ \A x \in Scans : state'[x] # state[x] => state[x] \in InProgress
<1>1. /\ pc[s] = "finish_scan" /\ task[s] = "OPEN" /\ state[s] \in InProgress /\ BaseReady(s)
  BY DEF WorkerFinishScan, Calls, OnlyCrashes, CrashInv, OpenOf, ReadyOf, EarlySteps
<1>2. UNCHANGED <<row, parent, enabled>>
  BY <1>1 DEF WorkerFinishScan, FinishScan, OnlyCrashes, chainVars, InProgress
<1>3. CASE s \in bound
  <2>1. /\ NewResult(s)
        /\ \E v \in IF IsBase(s) THEN {"FINISHED"} ELSE Verdicts : state' = [state EXCEPT ![s] = v]
    BY <1>1, <1>3 DEF WorkerFinishScan, FinishScan, SetState, OnlyCrashes, InProgress
  <2>2. /\ IsTarget(s) => state'[s] \in FinishedWell
        /\ \A x \in Scans \ {s} : state'[x] = state[x]
    BY <2>1, VerdictsAssumption DEF IInv, TypeOK, IsTarget, IsBase, TargetTypes, FinishedWell
  <2>3. /\ \A x \in Scans \ {s} : result'[x] = result[x]
        /\ \A x \in Scans : result[x] < result'[s]
    BY <2>1, BoundsAssumption DEF NewResult, IInv, TypeOK, ResultInv
  <2>4. IsTarget(s) => Finishes(s)
    BY <1>1, <1>2, <2>2, <2>3 DEF Finishes, Others, IsTarget
  <2>5. ~IsTarget(s) => Quiet
    BY <1>2, <2>2, <2>3 DEF Quiet, Others, IsTarget
  <2> QED BY <1>1, <2>2, <2>4, <2>5
<1>4. CASE s \notin bound
  BY <1>2, <1>4 DEF WorkerFinishScan, Quiet, Others, IsTarget
<1> QED BY <1>3, <1>4

LEMMA CancelKind ==
  ASSUME IInv, CrashInv, OnlyCrashes, StreamInv, NEW s \in Scans, CancelTask(s)
  PROVE  /\ Quiet \/ Abandons(s)
         /\ \A x \in Scans : state'[x] # state[x] => state[x] \in InProgress
<1> DEFINE D == {s} \cap bound
           st == CanceledState(D)
<1>1. /\ state' = st /\ enabled' = SwitchOff({d \in D : IsTarget(d)}, st)
      /\ s \in bound => state[s] \in InProgress
      /\ UNCHANGED <<row, parent, result>>
  BY DEF CancelTask, CancelScans, CanceledEnabled, OnlyCrashes, chainVars, fileVars
<1>2. \A x \in Scans : state'[x] # state[x] =>
        state[x] \in InProgress /\ state'[x] = "CANCELED" /\ (x = s \/ ~IsTarget(x))
  (* A base in progress was prepared for its target, so it is no target.   *)
  <2>1. \A x \in Scans : IsTarget(s) /\ base[s] = x /\ state[x] \in InProgress => ~IsTarget(x)
    BY DEF IInv, BaseInv, ResultInv, RowInv, NoScan, Scans
  <2> QED BY <1>1, <2>1 DEF CanceledState
<1>3. CASE IsTarget(s)
  <2>1. /\ {d \in D : IsTarget(d)} = {s} /\ st[s] = "CANCELED" /\ state[s] \in InProgress
    BY <1>1, <1>3 DEF CrashInv, TaskOf, CanceledState
  <2>2. \A c \in Scans : parent[c] # NoScan => st[c] \in FinishedWell
    BY <1>1, <1>2 DEF StreamInv, LinkInv, InProgress, FinishedWell
  <2>3. \A x \in Scans : enabled'[x] <=> parent[x] = s \/ (x # s /\ enabled[x])
    <3> HIDE DEF D, st
    <3> QED BY <1>1, <2>1, <2>2, SwitchOffOne DEF IInv, FinishedWell
  <2>4. "CANCELED" \notin InProgress \cup FinishedWell
    BY DEF InProgress, FinishedWell
  <2>5. Abandons(s)
    <3> HIDE DEF D, st
    <3> QED BY <1>1, <1>2, <1>3, <2>1, <2>3, <2>4 DEF Abandons, Others, IsTarget
  <2> QED BY <1>2, <2>5
<1>4. CASE ~IsTarget(s)
  <2>1. enabled' = enabled
    <3>1. {d \in D : IsTarget(d)} = {}
      BY <1>4
    <3> QED BY <1>1, <3>1, SwitchOffNone DEF IInv
  <2>2. \A x \in Scans : IsTarget(x) => state'[x] = state[x]
    BY <1>2, <1>4
  <2> QED BY <1>1, <1>2, <2>1, <2>2 DEF Quiet, Others, IsTarget
<1> QED BY <1>3, <1>4

(* Two scans of a package do not finish at the same date.                  *)
LEMMA OneLatest ==
  ASSUME IInv, NEW r, NEW s \in LatestOfPackage(r), NEW t \in LatestOfPackage(r)
  PROVE  s = t
<1>1. s \in Scans /\ t \in Scans /\ result[s] > 0 /\ result[t] > 0
  BY DEF LatestOfPackage, LatestResult, TargetsOf, IInv, TypeOK, BaseInv
<1>2. result[s] <= result[t] /\ result[t] <= result[s]
  BY DEF LatestOfPackage, LatestResult
<1> QED BY <1>1, <1>2 DEF IInv, TypeOK, ResultInv

LEMMA OnePending ==
  ASSUME IInv, NewestInv, NEW r, NEW s \in Obsolete(r), NEW t \in Obsolete(r)
  PROVE  s = t
  BY DEF NewestInv, Obsolete, TargetsOf, IInv, TypeOK, Scans

(* Once the scan in progress is canceled, the last one with a verdict is   *)
(* the enabled one of its stream.                                          *)
LEMMA CanceledColumn ==
  ASSUME IInv, CrashInv, StreamInv, NEW r \in Streams
  PROVE  /\ \A s \in Scans : CanceledState(Obsolete(r))[s] # state[s] =>
              /\ state[s] \in InProgress /\ CanceledState(Obsolete(r))[s] = "CANCELED"
              /\ s \in Obsolete(r) \/ ~IsTarget(s)
         /\ \A s \in Obsolete(r) : CanceledState(Obsolete(r))[s] = "CANCELED"
         /\ \A s \in Scans : CanceledEnabled(Obsolete(r))[s] <=>
              s \in LatestOfPackage(r) \/ (enabled[s] /\ row[s].stream # r)
<1> DEFINE D == Obsolete(r)
           st == CanceledState(D)
<1>1. D \subseteq Scans /\ \A d \in D : IsTarget(d) /\ row[d].stream = r /\ state[d] \in InProgress
  BY DEF Obsolete, TargetsOf, IInv, TypeOK
<1>2. \A s \in Scans : st[s] # state[s] =>
        state[s] \in InProgress /\ st[s] = "CANCELED" /\ (s \in D \/ ~IsTarget(s))
  <2>1. \A s, d \in Scans : IsTarget(d) /\ base[d] = s /\ state[s] \in InProgress => ~IsTarget(s)
    BY DEF IInv, BaseInv, ResultInv, RowInv, NoScan, Scans
  <2> QED BY <1>1, <2>1 DEF CanceledState
<1>3. \A d \in D : st[d] = "CANCELED"
  BY <1>1 DEF CanceledState
<1>4. \A s \in Scans : s \in LatestOfPackage(r) => IsTarget(s) /\ row[s].stream = r
  BY DEF LatestOfPackage, LatestResult, TargetsOf
<1>5. CanceledEnabled(D) = SwitchOff(D, st)
  <2>1. {d \in D : IsTarget(d)} = D
    BY <1>1
  <2> QED BY <2>1 DEF CanceledEnabled
<1>6. CASE D = {}
  <2>1. CanceledEnabled(D) = enabled
    BY <1>5, <1>6, SwitchOffNone DEF IInv
  <2>2. \A s \in Scans : enabled[s] => IsTarget(s)
    BY DEF IInv, DeadIsDisabled
  <2>3. \A s \in Scans : IsTarget(s) /\ row[s].stream = r =>
          (enabled[s] <=> s \in LatestOfPackage(r))
    <3>1. \A s \in Scans : IsTarget(s) /\ row[s].stream = r => state[s] \notin InProgress
      BY <1>6 DEF Obsolete, TargetsOf, CrashInv, TaskOf
    <3> QED BY <1>6, <3>1 DEF StreamInv, CurrentInv
  <2> QED BY <1>2, <1>3, <1>4, <2>1, <2>2, <2>3
<1>7. ASSUME NEW d \in D PROVE \A s \in Scans : CanceledEnabled(D)[s] <=>
              s \in LatestOfPackage(r) \/ (enabled[s] /\ row[s].stream # r)
  <2>1. D = {d} /\ d \in Scans /\ st[d] \notin FinishedWell
    BY <1>1, <1>3, <1>7, OnePending DEF StreamInv, FinishedWell
  <2>2. \A c \in Scans : parent[c] # NoScan => st[c] \in FinishedWell
    BY <1>2 DEF StreamInv, LinkInv, InProgress, FinishedWell
  <2>3. \A s \in Scans : CanceledEnabled(D)[s] <=> parent[s] = d \/ (s # d /\ enabled[s])
    <3> HIDE DEF D, st
    <3> QED BY <1>5, <2>1, <2>2, SwitchOffOne DEF IInv
  <2>4. \A s \in Scans : parent[s] = d <=> s \in LatestOfPackage(r)
    <3>1. state[d] \notin FinishedWell
      BY <1>1 DEF InProgress, FinishedWell
    <3>2. \A s \in Scans : parent[s] = d => s \in LatestOfPackage(r)
      BY <1>1, <2>1, <3>1 DEF StreamInv, LinkInv, IInv, ChainInv, NoScan, Scans
    <3>3. \A s \in Scans : s \in LatestOfPackage(r) => parent[s] = d
      BY <1>1, <2>1 DEF StreamInv, LinkInv
    <3> QED BY <3>2, <3>3
  <2>5. \A s \in Scans : enabled[s] /\ row[s].stream = r => s = d
    BY <1>1, <2>1, OnePending DEF StreamInv, CurrentInv, IInv, DeadIsDisabled, Obsolete,
       TargetsOf, CrashInv, TaskOf
  <2>6. row[d].stream = r
    BY <1>1
  <2> QED BY <2>3, <2>4, <2>5, <2>6
<1> QED BY <1>2, <1>3, <1>6, <1>7

LEMMA SubmitKind ==
  ASSUME IInv, CrashInv, StreamInv, NEW r \in Streams, NEW b \in Builds, SubmitScan(r, b)
  PROVE  /\ \E n \in Scans : Takes(n, r)
         /\ \A x \in Scans : state'[x] # state[x] => state[x] \in InProgress
<1> SUFFICES ASSUME NEW n, n = created + 1
             PROVE  /\ n \in Scans /\ Takes(n, r)
                    /\ \A x \in Scans : state'[x] # state[x] => state[x] \in InProgress
  OBVIOUS
<1> DEFINE D == Obsolete(r)
           st == CanceledState(D)
           en == CanceledEnabled(D)
<1>1. /\ state' = [st EXCEPT ![n] = "QUEUED"]
      /\ row' = [row EXCEPT ![n] = Row(b.type, b.nvr, b.base_nvr, r, NoScan)]
      /\ UNCHANGED result
  BY DEF SubmitScan, NewRow, fileVars
<1>2. PICK child \in Children(r) :
        /\ parent' = [s \in Scans |-> IF s = child THEN n ELSE parent[s]]
        /\ enabled' = [s \in Scans |-> s = n \/ (s # child /\ en[s])]
  BY DEF SubmitScan
<1>3. n \in Scans /\ created \in Nat /\ created < n
  BY BoundsAssumption DEF IInv, TypeOK, Scans, SubmitScan, NewRow
<1>4. row[n].type = "NONE" /\ state[n] = "INIT" /\ \A s \in Scans : IsTarget(s) => s < n
  BY <1>3 DEF IInv, RowInv, Scans, IsTarget, TargetTypes
<1>5. /\ st \in [Scans -> ScanStates] /\ \A s \in Scans : st[s] # state[s] =>
           state[s] \in InProgress /\ st[s] = "CANCELED" /\ (s \in D \/ ~IsTarget(s))
      /\ \A s \in D : st[s] = "CANCELED"
      /\ \A s \in Scans : en[s] <=>
           s \in LatestOfPackage(r) \/ (enabled[s] /\ row[s].stream # r)
  BY CanceledColumn, CancelDies DEF Died, Obsolete, TargetsOf
<1>6. \A s \in Scans : s \in D <=> IsTarget(s) /\ row[s].stream = r /\ state[s] \in InProgress
  BY DEF Obsolete, TargetsOf, CrashInv, TaskOf
<1>7. \A s \in Scans : s = child <=> s \in LatestOfPackage(r)
  BY OneLatest DEF Children, Scans, NoScan
<1>8. \A s \in LatestOfPackage(r) : row[s].stream = r
  BY DEF LatestOfPackage, LatestResult, TargetsOf
<1> HIDE DEF D, st, en
<1>9. /\ row'[n].type \in TargetTypes /\ row'[n].stream = r
      /\ \A s \in Scans \ {n} : row'[s] = row[s]
      /\ state'[n] = "QUEUED" /\ \A s \in Scans \ {n} : state'[s] = st[s]
  BY <1>1, <1>3, <1>5, BuildsAssumption DEF IInv, TypeOK, Row, Submission
<1>10. \A s \in Scans : enabled'[s] <=> s = n \/ (enabled[s] /\ row[s].stream # r)
  BY <1>2, <1>5, <1>7, <1>8
<1>11. \A s \in Scans : parent'[s] = IF s \in LatestOfPackage(r) THEN n ELSE parent[s]
  BY <1>2, <1>7
<1>12. \A s \in Scans : IsTarget(s) =>
         /\ s < n /\ IsTarget(s)' /\ row'[s].stream = row[s].stream
         /\ result'[s] = result[s]
         /\ state'[s] \in FinishedWell <=> state[s] \in FinishedWell
         /\ state'[s] \in InProgress <=> state[s] \in InProgress /\ row[s].stream # r
  <2> SUFFICES ASSUME NEW s \in Scans, IsTarget(s)
               PROVE  /\ s < n /\ IsTarget(s)' /\ row'[s].stream = row[s].stream
                      /\ result'[s] = result[s]
                      /\ state'[s] \in FinishedWell <=> state[s] \in FinishedWell
                      /\ state'[s] \in InProgress <=> state[s] \in InProgress /\ row[s].stream # r
    OBVIOUS
  <2>1. s # n /\ s < n
    BY <1>4 DEF IsTarget, TargetTypes
  <2>2. state'[s] = st[s] /\ row'[s] = row[s]
    BY <1>9, <2>1
  <2> QED BY <1>1, <1>5, <1>6, <2>1, <2>2 DEF IsTarget, InProgress, FinishedWell
<1>13. \A s \in Scans \ {n} : IsTarget(s)' => IsTarget(s)
  BY <1>9 DEF IsTarget
<1>14. Takes(n, r)
  BY <1>4, <1>9, <1>10, <1>11, <1>12, <1>13 DEF Takes, IsTarget, InProgress, TargetTypes
<1>15. \A x \in Scans : state'[x] # state[x] => state[x] \in InProgress
  BY <1>4, <1>5, <1>9 DEF InProgress
<1> QED BY <1>3, <1>14, <1>15

(* Under CrashInv the next-state relation has four kinds of steps, and     *)
(* only a scan in progress changes its state.                              *)
LEMMA NextKind ==
  ASSUME IInv, CrashInv, OnlyCrashes, StreamInv, [Next]_vars
  PROVE  /\ \/ Quiet
            \/ \E d \in Scans : Finishes(d) \/ Abandons(d)
            \/ \E n \in Scans, r \in Streams : Takes(n, r)
         /\ \A x \in Scans : state'[x] # state[x] => state[x] \in InProgress
<1> DEFINE Goal == /\ \/ Quiet
                      \/ \E d \in Scans : Finishes(d) \/ Abandons(d)
                      \/ \E n \in Scans, r \in Streams : Takes(n, r)
                   /\ \A x \in Scans : state'[x] # state[x] => state[x] \in InProgress
<1> HIDE DEF Goal
<1> SUFFICES Goal BY DEF Goal
<1>1. CASE Submit
  BY <1>1, SubmitKind DEF Submit, SubmitFails, OnlyCrashes, Goal
<1>2. ASSUME NEW s \in Scans, WorkerStep(s) PROVE Goal
  <2>1. CASE WorkerFailScan(s)
    <3>1. task[s] = "OPEN" /\ state[s] \in InProgress /\ FailScan(s)
      BY <2>1 DEF WorkerFailScan, Calls, OnlyCrashes, CrashInv, OpenOf
    <3> QED BY <2>1, <3>1, FailScanKind DEF WorkerFailScan, chainVars, fileVars, Goal
  <2>2. CASE FailTask(s)
    <3>1. task[s] = "OPEN" /\ state[s] \in InProgress \cup {"FAILED"}
      BY <2>2 DEF FailTask, CrashInv, OpenOf
    <3>2. CASE FailScan(s)
      BY <2>2, <3>1, <3>2, FailScanKind DEF FailTask, chainVars, fileVars, Goal
    <3>3. CASE UNCHANGED <<state, enabled>>
      BY <2>2, <3>3 DEF FailTask, chainVars, fileVars, Quiet, Others, IsTarget, Goal
    <3> QED BY <2>2, <3>2, <3>3 DEF FailTask
  <2>3. CASE WorkerFinishScan(s)
    BY <2>3, FinishKind DEF Goal
  <2> QED BY <1>2, <2>1, <2>2, <2>3, QuietKind DEF WorkerStep, Goal
<1>3. ASSUME NEW s \in Scans, Operator(s) PROVE Goal
  <2>1. CASE CancelTask(s)
    BY <2>1, CancelKind DEF Goal
  <2>2. CASE InterruptTask(s)
    <3>1. task[s] = "OPEN" /\ state[s] \in InProgress \cup {"FAILED"}
      BY <2>2 DEF InterruptTask, OnlyCrashes, CrashInv, OpenOf, IInv, TypeOK, Steps
    <3>2. CASE FailScan(s)
      BY <2>2, <3>1, <3>2, FailScanKind DEF InterruptTask, chainVars, fileVars, Goal
    <3>3. CASE UNCHANGED <<state, enabled>>
      BY <2>2, <3>3 DEF InterruptTask, chainVars, fileVars, Quiet, Others, IsTarget, Goal
    <3> QED BY <2>2, <3>2, <3>3 DEF InterruptTask
  <2> QED BY <1>3, <2>1, <2>2 DEF Operator, AdminCancel, AdminFail, AdminFinish, OnlyCrashes
<1>4. CASE UNCHANGED vars
  BY <1>4 DEF vars, chainVars, fileVars, Quiet, Others, IsTarget, Goal
<1> QED BY <1>1, <1>2, <1>3, <1>4 DEF Next

-----------------------------------------------------------------------------
(* The three sets of a stream before and after each kind of step.          *)

Current(r) == {s \in Scans : enabled[s] /\ row[s].stream = r}

LEMMA Members ==
  ASSUME IInv, CrashInv, NEW r
  PROVE  /\ \A s : s \in Obsolete(r) <=>
              s \in Scans /\ IsTarget(s) /\ row[s].stream = r /\ state[s] \in InProgress
         /\ \A s : s \in LatestOfPackage(r) <=>
              /\ s \in Scans /\ IsTarget(s) /\ row[s].stream = r /\ state[s] \in FinishedWell
              /\ \A t \in Scans : IsTarget(t) /\ row[t].stream = r /\ state[t] \in FinishedWell =>
                   result[t] <= result[s]
         /\ \A s \in Current(r) : IsTarget(s)
<1>1. \A s : s \in TargetsOf(r) <=> s \in Scans /\ IsTarget(s) /\ row[s].stream = r
  BY DEF TargetsOf, CrashInv, TaskOf, IInv, TypeOK
<1>2. \A s \in Current(r) : IsTarget(s)
  BY DEF Current, IInv, DeadIsDisabled
<1> QED BY <1>1, <1>2 DEF Obsolete, LatestOfPackage, LatestResult

LEMMA MembersNext ==
  ASSUME IInv', CrashInv', NEW r
  PROVE  /\ \A s : s \in Obsolete(r)' <=>
              s \in Scans /\ IsTarget(s)' /\ row'[s].stream = r /\ state'[s] \in InProgress
         /\ \A s : s \in LatestOfPackage(r)' <=>
              /\ s \in Scans /\ IsTarget(s)' /\ row'[s].stream = r /\ state'[s] \in FinishedWell
              /\ \A t \in Scans : IsTarget(t)' /\ row'[t].stream = r /\ state'[t] \in FinishedWell =>
                   result'[t] <= result'[s]
         /\ \A s \in Scans : enabled'[s] => IsTarget(s)'
<1>1. \A s : s \in TargetsOf(r)' <=> s \in Scans /\ IsTarget(s)' /\ row'[s].stream = r
  BY DEF TargetsOf, CrashInv, TaskOf, IInv, TypeOK
<1>2. \A s \in Scans : enabled'[s] => IsTarget(s)'
  BY DEF IInv, DeadIsDisabled
<1> QED BY <1>1, <1>2 DEF Obsolete, LatestOfPackage, LatestResult

LEMMA SamePending ==
  ASSUME IInv, CrashInv, IInv', CrashInv', NEW r,
         \A s \in Scans : IsTarget(s)' /\ row'[s].stream = r /\ state'[s] \in InProgress <=>
                          IsTarget(s) /\ row[s].stream = r /\ state[s] \in InProgress
  PROVE  Obsolete(r)' = Obsolete(r)
<1>1. \A s : s \in Obsolete(r)' <=> s \in Obsolete(r)
  BY Members, MembersNext
<1> QED BY <1>1

LEMMA SameLatest ==
  ASSUME IInv, CrashInv, IInv', CrashInv', NEW r,
         \A s \in Scans : IsTarget(s)' /\ row'[s].stream = r /\ state'[s] \in FinishedWell <=>
                          IsTarget(s) /\ row[s].stream = r /\ state[s] \in FinishedWell,
         \A s \in Scans : IsTarget(s) /\ row[s].stream = r /\ state[s] \in FinishedWell =>
                          result'[s] = result[s]
  PROVE  LatestOfPackage(r)' = LatestOfPackage(r)
<1>1. \A s : s \in LatestOfPackage(r)' <=> s \in LatestOfPackage(r)
  BY Members, MembersNext
<1> QED BY <1>1

LEMMA QuietView ==
  ASSUME IInv, CrashInv, IInv', CrashInv', Quiet, NEW r
  PROVE  UNCHANGED <<Obsolete(r), LatestOfPackage(r), Current(r)>>
<1>1. \A s \in Scans : /\ IsTarget(s)' <=> IsTarget(s)
                       /\ IsTarget(s) => /\ row'[s].stream = row[s].stream
                                         /\ state'[s] \in InProgress <=> state[s] \in InProgress
                                         /\ state'[s] \in FinishedWell <=> state[s] \in FinishedWell
                                         /\ result'[s] = result[s]
  BY DEF Quiet, Others, NoScan, Scans
<1>2. Obsolete(r)' = Obsolete(r)
  BY <1>1, SamePending
<1>3. LatestOfPackage(r)' = LatestOfPackage(r)
  BY <1>1, SameLatest
<1>4. Current(r)' = Current(r)
  BY <1>1, Members, MembersNext DEF Quiet, Current
<1> QED BY <1>2, <1>3, <1>4

LEMMA FinishesView ==
  ASSUME IInv, CrashInv, StreamInv, IInv', CrashInv', NEW d \in Scans, Finishes(d), NEW r
  PROVE  IF row[d].stream = r
         THEN /\ Obsolete(r) = {d} /\ Obsolete(r)' = {}
              /\ LatestOfPackage(r)' = {d} /\ Current(r)' = Current(r)
         ELSE UNCHANGED <<Obsolete(r), LatestOfPackage(r), Current(r)>>
<1>1. Current(r)' = Current(r)
  BY Members, MembersNext DEF Finishes, Others, Current
<1>2. state'[d] \notin InProgress
  BY DEF Finishes, InProgress, FinishedWell
<1>3. CASE row[d].stream = r
  <2>1. Obsolete(r) = {d}
    BY <1>3, Members, OnePending DEF Finishes, StreamInv
  <2>2. Obsolete(r)' = {}
    BY <1>2, <2>1, Members, MembersNext DEF Finishes, Others
  <2>3. LatestOfPackage(r)' = {d}
    <3>1. \A s \in Scans \ {d} : result'[d] > result'[s] \/ ~(IsTarget(s) /\ IsTarget(s)')
      BY DEF Finishes, Others
    <3> QED BY <1>3, <3>1, MembersNext DEF LatestResult, Finishes, Others, IInv, TypeOK
  <2> QED BY <1>1, <1>3, <2>1, <2>2, <2>3
<1>4. CASE row[d].stream # r
  <2>1. Obsolete(r)' = Obsolete(r)
    BY <1>4, SamePending DEF Finishes, Others
  <2>2. LatestOfPackage(r)' = LatestOfPackage(r)
    BY <1>4, SameLatest DEF Finishes, Others
  <2> QED BY <1>1, <1>4, <2>1, <2>2
<1> QED BY <1>3, <1>4

LEMMA AbandonsView ==
  ASSUME IInv, CrashInv, StreamInv, IInv', CrashInv', NEW d \in Scans, Abandons(d), NEW r
  PROVE  IF row[d].stream = r
         THEN /\ Obsolete(r) = {d} /\ Obsolete(r)' = {}
              /\ UNCHANGED LatestOfPackage(r) /\ Current(r)' = LatestOfPackage(r)
         ELSE UNCHANGED <<Obsolete(r), LatestOfPackage(r), Current(r)>>
<1>1. state[d] \notin FinishedWell
  BY DEF Abandons, InProgress, FinishedWell
<1>2. LatestOfPackage(r)' = LatestOfPackage(r)
  BY <1>1, SameLatest DEF Abandons, Others
(* What d superseded is the last scan with a verdict.                      *)
<1>3. \A s \in Scans : parent[s] = d <=> s \in LatestOfPackage(row[d].stream)
  <2>1. \A s \in Scans : parent[s] = d => s \in LatestOfPackage(row[d].stream)
    BY <1>1 DEF StreamInv, LinkInv, IInv, ChainInv, NoScan, Scans
  <2>2. \A s \in Scans : s \in LatestOfPackage(row[d].stream) => parent[s] = d
    BY DEF StreamInv, LinkInv, Abandons
  <2> QED BY <2>1, <2>2
<1>4. \A s \in LatestOfPackage(row[d].stream) : IsTarget(s) /\ row[s].stream = row[d].stream
  BY DEF LatestOfPackage, LatestResult, TargetsOf
<1>5. CASE row[d].stream = r
  <2>1. Obsolete(r) = {d}
    BY <1>5, Members, OnePending DEF Abandons, StreamInv
  <2>2. Obsolete(r)' = {}
    BY <2>1, Members, MembersNext DEF Abandons, Others
  <2>3. \A s \in Scans : enabled[s] /\ row[s].stream = r => s = d
    BY <1>5, <2>1 DEF StreamInv, CurrentInv, IInv, DeadIsDisabled, Obsolete, TargetsOf,
       CrashInv, TaskOf
  <2>4. Current(r)' = LatestOfPackage(r)
    <3>1. \A s \in Scans : enabled'[s] => IsTarget(s) /\ row'[s].stream = row[s].stream
      BY MembersNext DEF Abandons, Others
    <3>2. \A s \in Scans : enabled'[s] /\ row'[s].stream = r <=> s \in LatestOfPackage(r)
      BY <1>3, <1>4, <1>5, <2>3, <3>1 DEF Abandons, Others
    <3>3. LatestOfPackage(r) \subseteq Scans
      BY Members DEF LatestResult
    <3> QED BY <3>2, <3>3 DEF Current
  <2> QED BY <1>2, <1>5, <2>1, <2>2, <2>4
<1>6. CASE row[d].stream # r
  <2>1. Obsolete(r)' = Obsolete(r)
    BY <1>6, SamePending DEF Abandons, Others
  <2>2. \A s \in Scans : enabled'[s] => IsTarget(s) /\ row'[s].stream = row[s].stream
    BY MembersNext DEF Abandons, Others
  <2>3. \A s \in Scans : enabled'[s] /\ row'[s].stream = r <=> enabled[s] /\ row[s].stream = r
    BY <1>3, <1>4, <1>6, <2>2, Members DEF Abandons, Others, Current
  <2> QED BY <1>2, <1>6, <2>1, <2>3 DEF Current
<1> QED BY <1>5, <1>6

LEMMA TakesView ==
  ASSUME IInv, CrashInv, IInv', CrashInv', NEW n \in Scans, NEW q, Takes(n, q), NEW r
  PROVE  /\ UNCHANGED LatestOfPackage(r)
         /\ IF r = q THEN Obsolete(r)' = {n} /\ Current(r)' = {n}
                     ELSE UNCHANGED <<Obsolete(r), Current(r)>>
         /\ \A s \in Obsolete(r) \cup LatestOfPackage(r) : s < n
<1>1. state'[n] \notin FinishedWell
  BY DEF Takes, InProgress, FinishedWell
<1>2. \A s \in Scans : IsTarget(s)' <=> IsTarget(s) \/ s = n
  BY DEF Takes
<1>3. LatestOfPackage(r)' = LatestOfPackage(r)
  BY <1>1, <1>2, SameLatest DEF Takes
<1>4. Obsolete(r)' = IF r = q THEN {n} ELSE Obsolete(r)
  <2>1. CASE r = q
    BY <1>2, <2>1, MembersNext DEF Takes
  <2>2. CASE r # q
    BY <1>2, <2>2, SamePending DEF Takes
  <2> QED BY <2>1, <2>2
<1>5. Current(r)' = IF r = q THEN {n} ELSE Current(r)
  <2>1. \A s \in Scans : enabled[s] => IsTarget(s) /\ s # n /\ row'[s].stream = row[s].stream
    BY DEF IInv, DeadIsDisabled, Takes
  <2> QED BY <2>1 DEF Takes, Current
<1>6. \A s \in Obsolete(r) \cup LatestOfPackage(r) : s < n
  BY Members DEF Takes, LatestResult
<1> QED BY <1>3, <1>4, <1>5, <1>6

-----------------------------------------------------------------------------
(* Each kind of step preserves StreamInv.                                  *)

LEMMA CurrentSet ==
  ASSUME IInv, CrashInv, CurrentInv, NEW r
  PROVE  Current(r) = IF Obsolete(r) = {} THEN LatestOfPackage(r) ELSE Obsolete(r)
<1>1. \A s : s \in Current(r) <=> \/ s \in Obsolete(r)
                                  \/ Obsolete(r) = {} /\ s \in LatestOfPackage(r)
  BY Members DEF CurrentInv, Current
<1>2. CASE Obsolete(r) = {}
  BY <1>1, <1>2
<1>3. CASE Obsolete(r) # {}
  BY <1>1, <1>3
<1> QED BY <1>2, <1>3

LEMMA CurrentSetNext ==
  ASSUME IInv', CrashInv',
         \A r : Current(r)' = IF Obsolete(r)' = {} THEN LatestOfPackage(r)' ELSE Obsolete(r)'
  PROVE  CurrentInv'
<1> SUFFICES ASSUME NEW s \in Scans, IsTarget(s)', NEW r, r = row'[s].stream
             PROVE  enabled'[s] <=> \/ state'[s] \in InProgress
                                    \/ Obsolete(r)' = {} /\ s \in LatestOfPackage(r)'
  BY DEF CurrentInv
<1>1. s \in Current(r)' <=> enabled'[s]
  BY DEF Current
<1>2. s \in Obsolete(r)' <=> state'[s] \in InProgress
  BY MembersNext
<1> QED BY <1>1, <1>2

(* The superseded scans, by stream.                                        *)
LEMMA LinkSet ==
  ASSUME IInv, CrashInv, LinkInv, NEW c \in Scans, NEW p \in Scans, parent[c] = p,
         NEW r, r = row[c].stream
  PROVE  /\ IsTarget(c) /\ IsTarget(p) /\ row[p].stream = r /\ state[c] \in FinishedWell
         /\ state[p] \notin FinishedWell =>
              c \in LatestOfPackage(r) /\ Obsolete(r) \subseteq {p}
  BY DEF LinkInv, IInv, ChainInv, NoScan, Scans

LEMMA LinkSetNext ==
  ASSUME IInv', CrashInv',
         \A c, p \in Scans : parent'[c] = p => state'[c] \in FinishedWell,
         \A r : \A c, p \in Scans :
           parent'[c] = p /\ row'[c].stream = r /\ state'[p] \notin FinishedWell =>
             c \in LatestOfPackage(r)' /\ Obsolete(r)' \subseteq {p},
         \A r : \A c, p \in Scans : p \in Obsolete(r)' /\ c \in LatestOfPackage(r)' => parent'[c] = p
  PROVE  LinkInv'
<1>1. ASSUME NEW c \in Scans, parent'[c] # NoScan
      PROVE  /\ state'[c] \in FinishedWell
             /\ state'[parent'[c]] \notin FinishedWell =>
                  /\ c \in LatestOfPackage(row[c].stream)'
                  /\ Obsolete(row[c].stream)' \subseteq {parent'[c]}
  <2> SUFFICES ASSUME NEW p, p = parent'[c], NEW r, r = row'[c].stream
               PROVE  /\ state'[c] \in FinishedWell
                      /\ state'[p] \notin FinishedWell =>
                           c \in LatestOfPackage(r)' /\ Obsolete(r)' \subseteq {p}
    OBVIOUS
  <2>1. p \in Scans
    BY <1>1 DEF IInv, TypeOK
  <2> QED BY <2>1
<1>2. ASSUME NEW p \in Scans, IsTarget(p)', state'[p] \in InProgress,
             NEW c \in LatestOfPackage(row[p].stream)'
      PROVE  parent'[c] = p
  <2> SUFFICES ASSUME NEW r, r = row'[p].stream, c \in LatestOfPackage(r)'
               PROVE  parent'[c] = p
    BY <1>2
  <2>1. p \in Obsolete(r)' /\ c \in Scans
    BY <1>2, MembersNext
  <2> QED BY <2>1
<1> QED BY <1>1, <1>2 DEF LinkInv

LEMMA QuietStreamInv ==
  ASSUME IInv, CrashInv, StreamInv, IInv', CrashInv', Quiet
  PROVE  StreamInv'
<1>1. \A s \in Scans : /\ IsTarget(s)' <=> IsTarget(s)
                       /\ IsTarget(s) => /\ row'[s].stream = row[s].stream
                                         /\ state'[s] \in InProgress <=> state[s] \in InProgress
                                         /\ state'[s] \in FinishedWell <=> state[s] \in FinishedWell
                                         /\ result'[s] = result[s]
  BY DEF Quiet, Others, NoScan, Scans
<1>2. NewestInv'
  BY <1>1 DEF StreamInv, NewestInv
<1>3. \A r : Obsolete(r)' = Obsolete(r) /\ LatestOfPackage(r)' = LatestOfPackage(r)
             /\ Current(r)' = Current(r)
  BY QuietView
<1>4. LinkInv'
  <2>1. parent' = parent
    BY DEF Quiet, Others
  <2>2. ASSUME NEW c \in Scans, NEW p \in Scans, NEW r, parent[c] = p, row'[c].stream = r
        PROVE  /\ state'[c] \in FinishedWell
               /\ state'[p] \notin FinishedWell =>
                    c \in LatestOfPackage(r)' /\ Obsolete(r)' \subseteq {p}
    BY <1>1, <1>3, <2>2, LinkSet DEF StreamInv
  <2>3. ASSUME NEW c \in Scans, NEW p \in Scans, NEW r,
               p \in Obsolete(r)', c \in LatestOfPackage(r)'
        PROVE  parent[c] = p
    BY <1>3, <2>3, Members DEF StreamInv, LinkInv
  <2> QED BY <2>1, <2>2, <2>3, LinkSetNext
<1>5. CurrentInv'
  BY <1>3, CurrentSet, CurrentSetNext DEF StreamInv
<1> QED BY <1>2, <1>4, <1>5 DEF StreamInv

LEMMA FinishesStreamInv ==
  ASSUME IInv, CrashInv, StreamInv, IInv', CrashInv', NEW d \in Scans, Finishes(d)
  PROVE  StreamInv'
<1> SUFFICES ASSUME NEW q, q = row[d].stream PROVE StreamInv'
  OBVIOUS
<1>1. /\ IsTarget(d) /\ state[d] \in InProgress /\ state[d] \notin FinishedWell
      /\ IsTarget(d)' /\ state'[d] \in FinishedWell /\ state'[d] \notin InProgress
      /\ row'[d].stream = q /\ \A s \in Scans : result[s] < result'[d]
  BY DEF Finishes, Others, InProgress, FinishedWell
<1>2. \A s \in Scans : /\ IsTarget(s)' <=> IsTarget(s)
                       /\ IsTarget(s) => row'[s].stream = row[s].stream
  BY DEF Finishes, Others
<1>3. \A s \in Scans \ {d} : IsTarget(s) =>
        /\ state'[s] \in InProgress <=> state[s] \in InProgress
        /\ state'[s] \in FinishedWell <=> state[s] \in FinishedWell
        /\ result'[s] = result[s]
  BY DEF Finishes, Others
<1>4. \A r : IF r = q
             THEN /\ Obsolete(r) = {d} /\ Obsolete(r)' = {}
                  /\ LatestOfPackage(r)' = {d} /\ Current(r)' = Current(r)
             ELSE /\ Obsolete(r)' = Obsolete(r) /\ LatestOfPackage(r)' = LatestOfPackage(r)
                  /\ Current(r)' = Current(r)
  BY FinishesView
<1>5. NewestInv'
  <2> SUFFICES ASSUME NEW s \in Scans, NEW t \in Scans, IsTarget(s), IsTarget(t),
                      row[s].stream = row[t].stream
               PROVE  /\ state'[s] \in InProgress => t <= s
                      /\ state'[s] \in FinishedWell /\ state'[t] \in FinishedWell /\ s < t =>
                           result'[s] < result'[t]
    BY <1>2 DEF NewestInv
  <2>1. state'[s] \in InProgress => t <= s
    BY <1>1, <1>3 DEF StreamInv, NewestInv
  <2>2. CASE t = d
    BY <1>1, <1>3, <2>1, <2>2 DEF Scans
  <2>3. CASE s = d
    BY <1>1, <2>3 DEF StreamInv, NewestInv, Scans
  <2>4. CASE s # d /\ t # d
    BY <1>3, <2>4 DEF StreamInv, NewestInv
  <2> QED BY <2>1, <2>2, <2>3, <2>4
<1>6. LinkInv'
  <2>1. parent' = parent
    BY DEF Finishes, Others
  <2>2. ASSUME NEW c \in Scans, NEW p \in Scans, NEW r, parent[c] = p, row'[c].stream = r
        PROVE  /\ state'[c] \in FinishedWell
               /\ state'[p] \notin FinishedWell =>
                    c \in LatestOfPackage(r)' /\ Obsolete(r)' \subseteq {p}
    <3>1. IsTarget(c) /\ IsTarget(p) /\ state[c] \in FinishedWell /\ row[c].stream = r
      BY <1>2, <2>2, LinkSet DEF StreamInv
    <3>2. c # d /\ state'[c] \in FinishedWell
      BY <1>1, <1>3, <3>1
    <3>3. ASSUME state'[p] \notin FinishedWell
          PROVE  c \in LatestOfPackage(r)' /\ Obsolete(r)' \subseteq {p}
      <4>1. p # d /\ state[p] \notin FinishedWell
        BY <1>1, <1>3, <3>1, <3>3
      <4>2. c \in LatestOfPackage(r) /\ Obsolete(r) \subseteq {p}
        BY <2>2, <3>1, <4>1, LinkSet DEF StreamInv
      <4> QED BY <1>4, <4>1, <4>2
    <3> QED BY <3>2, <3>3
  <2>3. ASSUME NEW c \in Scans, NEW p \in Scans, NEW r,
               p \in Obsolete(r)', c \in LatestOfPackage(r)'
        PROVE  parent[c] = p
    BY <1>4, <2>3, Members DEF StreamInv, LinkInv
  <2> QED BY <2>1, <2>2, <2>3, LinkSetNext
<1>7. CurrentInv'
  <2>1. \A r : Current(r) = IF Obsolete(r) = {} THEN LatestOfPackage(r) ELSE Obsolete(r)
    BY CurrentSet DEF StreamInv
  <2>2. \A r : Current(r)' = IF Obsolete(r)' = {} THEN LatestOfPackage(r)' ELSE Obsolete(r)'
    BY <1>4, <2>1
  <2> QED BY <2>2, CurrentSetNext
<1> QED BY <1>5, <1>6, <1>7 DEF StreamInv

LEMMA AbandonsStreamInv ==
  ASSUME IInv, CrashInv, StreamInv, IInv', CrashInv', NEW d \in Scans, Abandons(d)
  PROVE  StreamInv'
<1> SUFFICES ASSUME NEW q, q = row[d].stream PROVE StreamInv'
  OBVIOUS
<1>1. /\ IsTarget(d) /\ state[d] \in InProgress /\ state[d] \notin FinishedWell
      /\ state'[d] \notin InProgress \cup FinishedWell
  BY DEF Abandons, InProgress, FinishedWell
<1>2. \A s \in Scans : /\ IsTarget(s)' <=> IsTarget(s)
                       /\ IsTarget(s) => /\ row'[s].stream = row[s].stream
                                         /\ state'[s] \in InProgress =>
                                              state[s] \in InProgress /\ s # d
                                         /\ state'[s] \in FinishedWell <=> state[s] \in FinishedWell
  BY <1>1 DEF Abandons, Others
<1>3. \A s \in Scans : IsTarget(s) /\ state[s] \in FinishedWell => result'[s] = result[s]
  BY <1>1 DEF Abandons, Others
<1>4. \A r : IF r = q
             THEN /\ Obsolete(r) = {d} /\ Obsolete(r)' = {}
                  /\ LatestOfPackage(r)' = LatestOfPackage(r)
                  /\ Current(r)' = LatestOfPackage(r)
             ELSE /\ Obsolete(r)' = Obsolete(r) /\ LatestOfPackage(r)' = LatestOfPackage(r)
                  /\ Current(r)' = Current(r)
  BY AbandonsView
<1>5. NewestInv'
  BY <1>2, <1>3 DEF StreamInv, NewestInv
<1>6. LinkInv'
  <2>1. parent' = parent
    BY DEF Abandons, Others
  <2>2. ASSUME NEW c \in Scans, NEW p \in Scans, NEW r, parent[c] = p, row'[c].stream = r
        PROVE  /\ state'[c] \in FinishedWell
               /\ state'[p] \notin FinishedWell =>
                    c \in LatestOfPackage(r)' /\ Obsolete(r)' \subseteq {p}
    <3>1. IsTarget(c) /\ IsTarget(p) /\ state[c] \in FinishedWell /\ row[c].stream = r
      BY <1>2, <2>2, LinkSet DEF StreamInv
    <3>2. state'[c] \in FinishedWell
      BY <1>2, <3>1
    <3>3. ASSUME state'[p] \notin FinishedWell
          PROVE  c \in LatestOfPackage(r)' /\ Obsolete(r)' \subseteq {p}
      <4>1. state[p] \notin FinishedWell
        BY <1>2, <3>1, <3>3
      <4>2. c \in LatestOfPackage(r) /\ Obsolete(r) \subseteq {p}
        BY <2>2, <3>1, <4>1, LinkSet DEF StreamInv
      <4> QED BY <1>4, <4>2
    <3> QED BY <3>2, <3>3
  <2>3. ASSUME NEW c \in Scans, NEW p \in Scans, NEW r,
               p \in Obsolete(r)', c \in LatestOfPackage(r)'
        PROVE  parent[c] = p
    BY <1>4, <2>3, Members DEF StreamInv, LinkInv
  <2> QED BY <2>1, <2>2, <2>3, LinkSetNext
<1>7. CurrentInv'
  <2>1. \A r : Current(r) = IF Obsolete(r) = {} THEN LatestOfPackage(r) ELSE Obsolete(r)
    BY CurrentSet DEF StreamInv
  <2>2. \A r : Current(r)' = IF Obsolete(r)' = {} THEN LatestOfPackage(r)' ELSE Obsolete(r)'
    BY <1>4, <2>1
  <2> QED BY <2>2, CurrentSetNext
<1> QED BY <1>5, <1>6, <1>7 DEF StreamInv

LEMMA TakesStreamInv ==
  ASSUME IInv, CrashInv, StreamInv, IInv', CrashInv', NEW n \in Scans, NEW q \in Streams,
         Takes(n, q)
  PROVE  StreamInv'
<1>1. /\ ~IsTarget(n) /\ IsTarget(n)' /\ row'[n].stream = q
      /\ state'[n] \in InProgress /\ state'[n] \notin FinishedWell
      /\ \A s \in Scans : IsTarget(s)' <=> IsTarget(s) \/ s = n
  BY DEF Takes, InProgress, FinishedWell
<1>2. \A s \in Scans : IsTarget(s) =>
        /\ s < n /\ row'[s].stream = row[s].stream /\ result'[s] = result[s]
        /\ state'[s] \in FinishedWell <=> state[s] \in FinishedWell
        /\ state'[s] \in InProgress => state[s] \in InProgress /\ row[s].stream # q
  BY DEF Takes
<1>3. \A r : /\ LatestOfPackage(r)' = LatestOfPackage(r)
             /\ IF r = q THEN Obsolete(r)' = {n} /\ Current(r)' = {n}
                         ELSE Obsolete(r)' = Obsolete(r) /\ Current(r)' = Current(r)
  BY TakesView
<1>4. NewestInv'
  <2> SUFFICES ASSUME NEW s \in Scans, NEW t \in Scans, IsTarget(s)', IsTarget(t)',
                      row'[s].stream = row'[t].stream
               PROVE  /\ state'[s] \in InProgress => t <= s
                      /\ state'[s] \in FinishedWell /\ state'[t] \in FinishedWell /\ s < t =>
                           result'[s] < result'[t]
    BY DEF NewestInv
  <2>1. CASE s = n
    BY <1>1, <1>2, <2>1 DEF Scans
  <2>2. CASE t = n
    BY <1>1, <1>2, <2>2 DEF Scans
  <2>3. CASE s # n /\ t # n
    BY <1>1, <1>2, <2>3 DEF StreamInv, NewestInv
  <2> QED BY <2>1, <2>2, <2>3
<1>5. LinkInv'
  <2>1. \A s \in Scans : parent'[s] = IF s \in LatestOfPackage(q) THEN n ELSE parent[s]
    BY DEF Takes
  <2>2. ASSUME NEW c \in Scans, NEW p \in Scans, NEW r, parent'[c] = p, row'[c].stream = r
        PROVE  /\ state'[c] \in FinishedWell
               /\ state'[p] \notin FinishedWell =>
                    c \in LatestOfPackage(r)' /\ Obsolete(r)' \subseteq {p}
    <3>1. CASE c \in LatestOfPackage(q)
      <4>1. IsTarget(c) /\ row[c].stream = q /\ state[c] \in FinishedWell /\ p = n
        BY <2>1, <2>2, <3>1, Members
      <4>2. r = q /\ state'[c] \in FinishedWell
        BY <1>2, <2>2, <4>1
      <4> QED BY <1>3, <3>1, <4>1, <4>2
    <3>2. CASE c \notin LatestOfPackage(q)
      <4>1. parent[c] = p
        BY <2>1, <2>2, <3>2
      <4>2. IsTarget(c) /\ IsTarget(p) /\ state[c] \in FinishedWell
        BY <4>1, LinkSet DEF StreamInv
      <4>3. row[c].stream = r /\ state'[c] \in FinishedWell
        BY <1>2, <2>2, <4>2
      <4>4. ASSUME state'[p] \notin FinishedWell
            PROVE  c \in LatestOfPackage(r)' /\ Obsolete(r)' \subseteq {p}
        <5>1. state[p] \notin FinishedWell
          BY <1>2, <4>2, <4>4
        <5>2. c \in LatestOfPackage(r) /\ Obsolete(r) \subseteq {p}
          BY <4>1, <4>3, <5>1, LinkSet DEF StreamInv
        <5> QED BY <1>3, <3>2, <5>2
      <4> QED BY <4>3, <4>4
    <3> QED BY <3>1, <3>2
  <2>3. ASSUME NEW c \in Scans, NEW p \in Scans, NEW r,
               p \in Obsolete(r)', c \in LatestOfPackage(r)'
        PROVE  parent'[c] = p
    <3>1. c \in LatestOfPackage(r) /\ IsTarget(c) /\ row[c].stream = r
      BY <1>3, <2>3, Members
    <3>2. CASE r = q
      BY <1>3, <2>1, <2>3, <3>1, <3>2
    <3>3. CASE r # q
      <4>1. p \in Obsolete(r) /\ IsTarget(p) /\ row[p].stream = r /\ state[p] \in InProgress
        BY <1>3, <2>3, <3>3, Members
      <4>2. parent[c] = p
        BY <3>1, <4>1 DEF StreamInv, LinkInv
      <4>3. c \notin LatestOfPackage(q)
        BY <3>1, <3>3, Members
      <4> QED BY <2>1, <4>2, <4>3
    <3> QED BY <3>2, <3>3
  <2> QED BY <2>2, <2>3, LinkSetNext
<1>6. CurrentInv'
  <2>1. \A r : Current(r) = IF Obsolete(r) = {} THEN LatestOfPackage(r) ELSE Obsolete(r)
    BY CurrentSet DEF StreamInv
  <2>2. \A r : Current(r)' = IF Obsolete(r)' = {} THEN LatestOfPackage(r)' ELSE Obsolete(r)'
    BY <1>3, <2>1
  <2> QED BY <2>2, CurrentSetNext
<1> QED BY <1>4, <1>5, <1>6 DEF StreamInv

-----------------------------------------------------------------------------
StreamsInv == IInv /\ CrashInv /\ StreamInv

LEMMA InitStreams == Init => StreamsInv
<1> SUFFICES ASSUME Init PROVE StreamsInv
  OBVIOUS
<1>1. \A s \in Scans : ~IsTarget(s) /\ parent[s] = NoScan
  BY DEF Init, NoRow, Row, IsTarget, TargetTypes
<1>2. StreamInv
  BY <1>1 DEF StreamInv, NewestInv, LinkInv, CurrentInv
<1> QED BY <1>2, InitIInv, InitCrash DEF StreamsInv

LEMMA NextStreams == StreamsInv /\ OnlyCrashes /\ [Next]_vars => StreamsInv'
<1> SUFFICES ASSUME StreamsInv, OnlyCrashes, [Next]_vars PROVE StreamsInv'
  OBVIOUS
<1>1. IInv' /\ CrashInv'
  BY NextIInv, NextCrash DEF StreamsInv
<1>2. StreamInv'
  BY <1>1, NextKind, QuietStreamInv, FinishesStreamInv, AbandonsStreamInv, TakesStreamInv
     DEF StreamsInv
<1> QED BY <1>1, <1>2 DEF StreamsInv

LEMMA StreamsInductive == ASSUME OnlyCrashes PROVE Spec => []StreamsInv
<1>1. Init => StreamsInv
  BY InitStreams
<1>2. StreamsInv /\ [Next]_vars => StreamsInv'
  BY NextStreams
<1> QED BY <1>1, <1>2, PTL DEF Spec

(* While only worker processes die, at most one scan of a package in a     *)
(* release is enabled: enable_last_successfull never switches on a second  *)
(* one, and spawn of a new scan switches off the one it supersedes.        *)
THEOREM OneIsEnabled ==
  ASSUME Faults \subseteq {"crash"}
  PROVE  Spec => []OneEnabled
<1>1. StreamsInv => OneEnabled
  <2> SUFFICES ASSUME StreamsInv, NEW s \in Scans, NEW t \in Scans,
                      enabled[s], enabled[t], row[s].stream = row[t].stream,
                      NEW r, r = row[s].stream
               PROVE  s = t
    BY DEF OneEnabled
  <2>1. IInv /\ CrashInv /\ NewestInv /\ CurrentInv
    BY DEF StreamsInv, StreamInv
  <2>2. s \in Current(r) /\ t \in Current(r)
    BY DEF Current
  <2>3. CASE Obsolete(r) = {}
    BY <2>1, <2>2, <2>3, CurrentSet, OneLatest
  <2>4. CASE Obsolete(r) # {}
    BY <2>1, <2>2, <2>4, CurrentSet, OnePending
  <2> QED BY <2>3, <2>4
<1>2. OnlyCrashes
  BY DEF OnlyCrashes
<1> QED BY <1>1, <1>2, StreamsInductive, PTL

(* Under the same faults the waiver page never says "This is not the       *)
(* newest scan." of a scan that no later scan of its package superseded.   *)
THEOREM DisabledAreNotNewest ==
  ASSUME Faults \subseteq {"crash"}
  PROVE  Spec => []DisabledIsNotNewest
<1>1. StreamsInv => DisabledIsNotNewest
  <2> SUFFICES ASSUME StreamsInv, NEW s \in Scans, state[s] \in FinishedWell, ~enabled[s],
                      NEW r, r = row[s].stream
               PROVE  \E t \in bound : /\ IsTarget(t) /\ row[t].stream = r /\ t > s
                                       /\ state[t] \in InProgress \cup FinishedWell
    BY DEF DisabledIsNotNewest
  <2>1. /\ IInv /\ CrashInv /\ NewestInv /\ CurrentInv
        /\ IsTarget(s) /\ state[s] \notin InProgress
    BY DEF StreamsInv, StreamInv, IInv, BaseInv, InProgress, FinishedWell
  <2>2. s \notin Current(r)
    BY DEF Current
  (* It is not the last one with a verdict, or another one is in progress. *)
  <2>3. PICK t \in Scans : /\ IsTarget(t) /\ row[t].stream = r /\ t # s
                           /\ \/ state[t] \in InProgress
                              \/ state[t] \in FinishedWell /\ ~(result[t] <= result[s])
    <3>1. CASE Obsolete(r) = {}
      <4>1. s \notin LatestOfPackage(r)
        BY <2>1, <2>2, <3>1, CurrentSet
      <4>2. \A x \in Scans : result[x] <= result[x]
        BY DEF StreamsInv, IInv, TypeOK
      <4> QED BY <2>1, <4>1, <4>2, Members
    <3>2. CASE Obsolete(r) # {}
      <4>1. PICK x : x \in Obsolete(r)
        BY <3>2
      <4> QED BY <2>1, <4>1, Members
    <3> QED BY <3>1, <3>2
  <2>4. t \in bound
    BY <2>1, <2>3 DEF CrashInv, TaskOf
  <2>5. s < t
    <3>1. CASE state[t] \in InProgress
      BY <2>1, <2>3, <3>1 DEF NewestInv, Scans
    <3>2. CASE state[t] \in FinishedWell /\ ~(result[t] <= result[s])
      <4>1. s < t \/ t < s
        BY <2>3 DEF Scans
      <4>2. t < s => result[t] < result[s]
        BY <2>1, <2>3, <3>2 DEF NewestInv
      <4> QED BY <3>2, <4>1, <4>2 DEF StreamsInv, IInv, TypeOK
    <3> QED BY <2>3, <3>1, <3>2
  <2> QED BY <2>3, <2>4, <2>5 DEF Scans
<1>2. OnlyCrashes
  BY DEF OnlyCrashes
<1> QED BY <1>1, <1>2, StreamsInductive, PTL

(* A canceled scan stays canceled: no late answer of the worker, no end of *)
(* its base and no submission changes it.                                  *)
THEOREM CanceledStayCanceled ==
  ASSUME Faults \subseteq {"crash"}
  PROVE  Spec => CanceledIsFinal
<1>1. OnlyCrashes
  BY DEF OnlyCrashes
<1>2. StreamsInv /\ [Next]_vars =>
        [\A s \in Scans : state[s] = "CANCELED" => state'[s] = "CANCELED"]_vars
  BY <1>1, NextKind DEF StreamsInv, InProgress
<1> QED BY <1>1, <1>2, StreamsInductive, PTL DEF Spec, CanceledIsFinal

(* A failed scan stays failed, too.                                        *)
THEOREM FailedStayFailed ==
  ASSUME Faults \subseteq {"crash"}
  PROVE  Spec => FailedIsFinal
<1>1. OnlyCrashes
  BY DEF OnlyCrashes
<1>2. StreamsInv /\ [Next]_vars =>
        [\A s \in Scans : state[s] = "FAILED" => state'[s] = "FAILED"]_vars
  BY <1>1, NextKind DEF StreamsInv, InProgress
<1> QED BY <1>1, <1>2, StreamsInductive, PTL DEF Spec, FailedIsFinal

-----------------------------------------------------------------------------
(* ScanLifecycle implements CurrentScan in every stream.                   *)

LEMMA StreamInit ==
  ASSUME Init, NEW r \in Streams
  PROVE  Stream(r)!Init
<1>1. \A s \in Scans : ~IsTarget(s) /\ ~enabled[s]
  BY DEF Init, NoRow, Row, IsTarget, TargetTypes
<1>2. Obsolete(r) = {} /\ LatestOfPackage(r) = {}
  BY DEF Init, Obsolete, LatestOfPackage, LatestResult, TargetsOf
<1> QED BY <1>1, <1>2 DEF Stream!Init

LEMMA StreamStep ==
  ASSUME StreamsInv, OnlyCrashes, [Next]_vars, NEW r \in Streams
  PROVE  [Stream(r)!Next]_(Stream(r)!vars)
<1>1. IInv /\ CrashInv /\ StreamInv /\ IInv' /\ CrashInv'
  BY NextIInv, NextCrash DEF StreamsInv
<1>2. Stream(r)!vars = <<Obsolete(r), LatestOfPackage(r), Current(r)>>
  BY DEF Stream!vars, Current
<1>3. ASSUME NEW d \in Scans, Finishes(d), row[d].stream = r
      PROVE  Stream(r)!Finish
  BY <1>1, <1>3, FinishesView DEF Stream!Finish, Current
<1>4. ASSUME NEW d \in Scans, Abandons(d), row[d].stream = r
      PROVE  Stream(r)!Abandon
  BY <1>1, <1>4, AbandonsView DEF Stream!Abandon, Current
<1>5. ASSUME NEW n \in Scans, Takes(n, r)
      PROVE  Stream(r)!Submit(n)
  BY <1>1, <1>5, TakesView DEF Stream!Submit, Current
<1>6. CASE UNCHANGED <<Obsolete(r), LatestOfPackage(r), Current(r)>>
  BY <1>6 DEF Stream!vars, Current
<1>7. CASE Quiet
  BY <1>1, <1>6, <1>7, QuietView
<1>8. ASSUME NEW d \in Scans, Finishes(d)
      PROVE  [Stream(r)!Next]_(Stream(r)!vars)
  BY <1>1, <1>3, <1>6, <1>8, FinishesView DEF Stream!Next
<1>9. ASSUME NEW d \in Scans, Abandons(d)
      PROVE  [Stream(r)!Next]_(Stream(r)!vars)
  BY <1>1, <1>4, <1>6, <1>9, AbandonsView DEF Stream!Next
<1>10. ASSUME NEW n \in Scans, NEW q \in Streams, Takes(n, q)
       PROVE  [Stream(r)!Next]_(Stream(r)!vars)
  <2>1. CASE q = r
    BY <1>5, <1>10, <2>1 DEF Stream!Next
  <2>2. CASE q # r
    BY <1>1, <1>6, <1>10, <2>2, TakesView
  <2> QED BY <2>1, <2>2
<1> QED BY <1>1, <1>7, <1>8, <1>9, <1>10, NextKind

(* Every stream of packages behaves as CurrentScan says: the only steps    *)
(* that show are a submission that takes over, a verdict of the scan in    *)
(* progress, and its failure or cancellation, after which the last scan    *)
(* with a verdict counts again.                                            *)
THEOREM StreamsRefine ==
  ASSUME Faults \subseteq {"crash"}
  PROVE  Spec => StreamsAreCurrent
<1>1. OnlyCrashes
  BY DEF OnlyCrashes
<1>2. Init => \A r \in Streams : Stream(r)!Init
  BY StreamInit
<1>3. StreamsInv /\ [Next]_vars =>
        [\A r \in Streams : [Stream(r)!Next]_(Stream(r)!vars)]_vars
  BY <1>1, StreamStep
<1> QED BY <1>1, <1>2, <1>3, StreamsInductive, PTL DEF Spec, StreamsAreCurrent
=============================================================================
