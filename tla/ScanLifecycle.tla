---------------------------- MODULE ScanLifecycle ----------------------------
(***************************************************************************)
(* The life of an Errata Tool scan: the hub's Scan and ScanBinding tables, *)
(* the kobo task of each scan, and the worker process that runs the task.  *)
(*                                                                         *)
(* One action is one handler of the hub, run to its end: handle_scan, the  *)
(* XML-RPC calls ErrataDiffBuild.run makes one after the other, the client *)
(* and admin handlers.  Between two calls of a worker anything may happen. *)
(* A scan and its task share an id (ScanBinding is one-to-one).            *)
(*                                                                         *)
(* The operators whose name starts with Mut are the operator below them    *)
(* with a plausible bug; no specification uses them.  They show which      *)
(* property would notice the bug.                                          *)
(***************************************************************************)
EXTENDS Naturals

CONSTANTS
  MaxScans,    \* bound: rows of the Scan table
  MaxResults,  \* bound: waiving.Result rows ever created
  Streams,     \* (package, release) pairs; every lookup of the chain is in one
  Nvrs,        \* builds
  None,        \* stands for a missing build or stream
  Builds,      \* submissions the Errata Tool may make
  Verdicts,    \* states a target may finish in; no handler here tells them apart
  Faults       \* what may go wrong, a subset of AllFaults

AllFaults ==
  { "crash",               \* a worker process dies with its task OPEN ...
    "after_finish",        \* ... or dies or is canceled between the scan's
                           \*     last call and the end of its task
    "processing",          \* process_scan raises on the hub
    "submit",              \* create_task raises inside handle_scan
    "late",                \* a process outlives its task and keeps calling
    "admin" }              \* buttons of the Scan admin page

Scans  == 1 .. MaxScans
NoScan == 0

TargetTypes == {"ERRATA", "REBASE", "NEWPKG"}
InProgress  == {"QUEUED", "SCANNING", "BASE_SCANNING", "INIT"}
FinishedWell ==
  {"NEEDS_INSPECTION", "WAIVED", "PASSED", "DISPUTED", "BUG_CONFIRMED"}
ScanStates == InProgress \cup FinishedWell \cup {"FINISHED", "FAILED", "CANCELED"}

Active     == {"FREE", "OPEN"}         \* kobo: CREATED, FREE, ASSIGNED | OPEN
TaskStates == Active \cup {"NONE", "CLOSED", "FAILED", "INTERRUPTED", "CANCELED"}

(* The next call of a worker process; the early ones precede the upload.   *)
EarlySteps == { "set_scan_to_scanning", "ensure_base", "set_scan_to_basescanning",
                "spawn_subtask", "create_sb", "wait", "resume", "analyze" }
Steps == EarlySteps \cup {"fail_scan", "finish_scan", "close_task", "fail_task", "none"}

Submission == [type : TargetTypes, nvr : Nvrs, base_nvr : Nvrs \cup {None}]

ASSUME BoundsAssumption == MaxScans \in Nat /\ MaxResults \in Nat
ASSUME BuildsAssumption ==
  None \notin Nvrs \cup Streams /\ Builds \subseteq Submission
ASSUME VerdictsAssumption ==
  Verdicts \subseteq {"BUG_CONFIRMED", "PASSED", "NEEDS_INSPECTION"}
ASSUME FaultsAssumption == Faults \subseteq AllFaults

VARIABLES
  created,   \* rows of Scan so far; ids are handed out in order
  row,       \* columns of Scan that never change, and Scan.target
  state,     \* Scan.state
  enabled,   \* Scan.enabled
  parent,    \* Scan.parent: the scan that superseded this one
  base,      \* Scan.base
  bound,     \* scans that have a ScanBinding
  result,    \* date_submitted of ScanBinding.result, 0 when it is null
  clock,     \* date of the latest Result
  task,      \* kobo state of the scan's task
  pc,        \* the next call of the process that runs the task
  uploaded,  \* scans whose tarball is in the task directory
  unpacked   \* scans whose tarball has been extracted (task_has_results)

chainVars == <<row, created, parent, base>>
fileVars  == <<uploaded, unpacked, result, clock>>
vars == <<chainVars, state, enabled, bound, task, pc, fileVars>>

-----------------------------------------------------------------------------
(* The tables.                                                             *)

Row(type, nvr, base_nvr, stream, target) ==
  [type |-> type, nvr |-> nvr, base_nvr |-> base_nvr,
   stream |-> stream, target |-> target]

NoRow == Row("NONE", None, None, None, NoScan)

IsTarget(s)    == row[s].type \in TargetTypes
IsBase(s)      == row[s].type = "ERRATA_BASE"
CanHaveBase(s) == row[s].type \in {"ERRATA", "REBASE"}

TargetsOf(r) == {s \in bound : IsTarget(s) /\ row[s].stream = r}

(* The bindings `.latest()` picks: at most one, result dates being distinct. *)
LatestResult(S) == {s \in S : \A t \in S : result[t] <= result[s]}

(* Bug: the scan_type filter is gone and a base that FINISHED counts too.  *)
MutLatestOfPackage(r) ==
  LatestResult({s \in bound : row[s].stream = r
                              /\ state[s] \in FinishedWell \cup {"FINISHED"}})

LatestOfPackage(r) == LatestResult({s \in TargetsOf(r) : state[s] \in FinishedWell})

LatestBinding(nvr) ==
  LET done   == {s \in bound : row[s].nvr = nvr /\ result[s] > 0 /\ state[s] # "FAILED"}
      newest == {s \in done : \A t \in done : t <= s}
  IN  IF \E s \in newest : state[s] \in {"QUEUED", "SCANNING"}
      THEN newest ELSE LatestResult(done)

(* Bug: only the scan itself is looked at, not its children.               *)
MutEndOfWalk(st) == [s \in Scans |-> s]

(* Where the walk of enable_last_successfull ends: the first scan that     *)
(* finished well on the way from a scan to its children, or the last child. *)
EndOfWalk(st) ==
  LET walk[s \in Scans] ==
        IF st[s] \in FinishedWell \/ ~\E c \in Scans : parent[c] = s
        THEN s
        ELSE walk[CHOOSE c \in Scans : parent[c] = s]
  IN  walk

(* Bug: the scan is not switched off before the walk.                      *)
MutSwitchOff(dead, st) ==
  LET found == {EndOfWalk(st)[s] : s \in dead}
  IN  [s \in Scans |-> enabled[s] \/ (s \in found /\ st[s] \in FinishedWell)]

(* Column `enabled` once the targets `dead` are switched off and each has  *)
(* looked for the last successful scan below it.                           *)
SwitchOff(dead, st) ==
  LET found == {EndOfWalk(st)[s] : s \in dead}
  IN  [s \in Scans |-> \/ s \in found /\ st[s] \in FinishedWell
                       \/ s \notin dead /\ enabled[s]]

-----------------------------------------------------------------------------
(* fail_scan and cancel_scan, shared by the handlers.                      *)

(* Failing a base scan fails the target that spawned it; without a binding *)
(* fail_scan raises before it gets there.                                  *)
FailedWith(s) == {s} \cup {t \in Scans : IsBase(s) /\ s \in bound /\ t = row[s].target}

FailScan(s) ==
  LET st == [x \in Scans |-> IF x \in FailedWith(s) THEN "FAILED" ELSE state[x]]
  IN  /\ state' = st
      /\ enabled' = SwitchOff({x \in FailedWith(s) : IsTarget(x)}, st)

CanceledState(D) ==
  LET bases == {b \in Scans : state[b] \in InProgress /\
                                \E d \in D : IsTarget(d) /\ base[d] = b}
  IN  [x \in Scans |-> IF x \in D \cup bases THEN "CANCELED" ELSE state[x]]

CanceledEnabled(D) == SwitchOff({d \in D : IsTarget(d)}, CanceledState(D))

(* kobo cancels a task that has not finished, and its subtasks with it.    *)
CanceledTasks(D) ==
  LET roots == {d \in D : task[d] \in Active}
  IN  [x \in Scans |-> IF /\ task[x] \in Active
                          /\ x \in roots \/ row[x].target \in roots
                       THEN "CANCELED" ELSE task[x]]

CancelScans(D) ==
  /\ state' = CanceledState(D)
  /\ enabled' = CanceledEnabled(D)

-----------------------------------------------------------------------------
(* Submission by the Errata Tool: handle_scan.                             *)

(* Bug: a scan that waits for its base is not taken for unfinished.        *)
MutObsolete(r) == {s \in TargetsOf(r) : state[s] \in InProgress \ {"BASE_SCANNING"}}

Obsolete(r) == {s \in TargetsOf(r) : state[s] \in InProgress}

(* Bug: no scan is found, so the last one is neither linked nor disabled.  *)
MutChildren(r) == {NoScan}

(* The scan that becomes the child of a new one, NoScan if there is none.  *)
Children(r) == IF LatestOfPackage(r) = {} THEN {NoScan} ELSE LatestOfPackage(r)

NewRow(n, st, b, r) ==
  /\ created < MaxScans
  /\ created' = n
  /\ row' = [row EXCEPT ![n] = Row(b.type, b.nvr, b.base_nvr, r, NoScan)]
  /\ state' = [CanceledState(Obsolete(r)) EXCEPT ![n] = st]

SubmitScan(r, b) ==
  LET n == created + 1
  IN  /\ NewRow(n, "QUEUED", b, r)
      /\ task' = [CanceledTasks(Obsolete(r)) EXCEPT ![n] = "FREE"]
      /\ bound' = bound \cup {n}
      /\ \E child \in Children(r) :
           /\ parent' = [s \in Scans |-> IF s = child THEN n ELSE parent[s]]
           /\ enabled' = [s \in Scans |->
                            s = n \/ (s # child /\ CanceledEnabled(Obsolete(r))[s])]
      /\ UNCHANGED <<base, pc, fileVars>>

(* create_task raises: the older scan is already canceled, the new row     *)
(* stays behind without a task and the Errata Tool is told ERROR.          *)
SubmitFails(r, b) ==
  LET n == created + 1
  IN  /\ "submit" \in Faults
      /\ NewRow(n, "INIT", b, r)
      /\ task' = CanceledTasks(Obsolete(r))
      /\ enabled' = [CanceledEnabled(Obsolete(r)) EXCEPT ![n] = TRUE]
      /\ UNCHANGED <<parent, base, bound, pc, fileVars>>

-----------------------------------------------------------------------------
(* ErrataDiffBuild.run: the calls of the process that runs the task of s,  *)
(* for a target and for the base scan it spawns.                           *)

(* Bug: a process goes on after its task was canceled.                     *)
MutCalls(s, step) == pc[s] = step

(* Once its task is no longer OPEN a process is killed before its next     *)
(* call, unless it is "late".                                              *)
Calls(s, step) == pc[s] = step /\ (task[s] = "OPEN" \/ "late" \in Faults)

Goto(s, step) == pc' = [pc EXCEPT ![s] = step]

SetState(s, st) == state' = [state EXCEPT ![s] = st]

OpenTask(s) ==
  /\ task[s] = "FREE"
  /\ task' = [task EXCEPT ![s] = "OPEN"]
  /\ Goto(s, "set_scan_to_scanning")
  /\ UNCHANGED <<chainVars, state, enabled, bound, fileVars>>

SetScanToScanning(s) ==
  /\ \/ Calls(s, "set_scan_to_scanning") /\ Goto(s, "ensure_base")
     \/ Calls(s, "resume") /\ Goto(s, "analyze")
  /\ SetState(s, "SCANNING")
  /\ UNCHANGED <<chainVars, enabled, bound, task, fileVars>>

(* ensure_cache spawned an AnalyzerVersionRetriever that did not CLOSE.    *)
CacheRefreshFails(s) ==
  /\ Calls(s, "ensure_base")
  /\ Goto(s, "fail_task")
  /\ UNCHANGED <<chainVars, state, enabled, bound, task, fileVars>>

SkipBase(s) ==
  /\ Calls(s, "ensure_base")
  /\ ~CanHaveBase(s)
  /\ Goto(s, "analyze")
  /\ UNCHANGED <<chainVars, state, enabled, bound, task, fileVars>>

(* Bug: the base may still be in progress.                                 *)
MutReuseBase(s) ==
  /\ Calls(s, "ensure_base")
  /\ CanHaveBase(s)
  /\ \E b \in bound : row[b].nvr = row[s].base_nvr /\ base' = [base EXCEPT ![s] = b]
  /\ Goto(s, "analyze")
  /\ UNCHANGED <<row, created, parent, state, enabled, bound, task, fileVars>>

(* obtain_base returned a scan; whether its analyzers are still actual is  *)
(* not modelled, so PrepareBase is possible too.                           *)
ReuseBase(s) ==
  /\ Calls(s, "ensure_base")
  /\ CanHaveBase(s)
  /\ \E b \in LatestBinding(row[s].base_nvr) \cap unpacked :
       base' = [base EXCEPT ![s] = b]
  /\ Goto(s, "analyze")
  /\ UNCHANGED <<row, created, parent, state, enabled, bound, task, fileVars>>

(* The row that BaseScheduler stores for the base of s.                    *)
BaseRow(s) == Row("ERRATA_BASE", row[s].base_nvr, None, row[s].stream, s)

PrepareBase(s) ==
  LET b == created + 1
  IN  /\ Calls(s, "ensure_base")
      /\ CanHaveBase(s)
      /\ created < MaxScans
      /\ created' = b
      /\ row' = [row EXCEPT ![b] = BaseRow(s)]
      /\ SetState(b, "INIT")
      /\ base' = [base EXCEPT ![s] = b]
      /\ Goto(s, "set_scan_to_basescanning")
      /\ UNCHANGED <<parent, enabled, bound, task, fileVars>>

SetScanToBasescanning(s) ==
  /\ Calls(s, "set_scan_to_basescanning")
  /\ SetState(s, "BASE_SCANNING")
  /\ Goto(s, "spawn_subtask")
  /\ UNCHANGED <<chainVars, enabled, bound, task, fileVars>>

SpawnSubtask(s) ==
  /\ Calls(s, "spawn_subtask")
  /\ task[s] = "OPEN"
  /\ task' = [task EXCEPT ![base[s]] = "FREE"]
  /\ Goto(s, "create_sb")
  /\ UNCHANGED <<chainVars, state, enabled, bound, fileVars>>

CreateSb(s) ==
  /\ Calls(s, "create_sb")
  /\ bound' = bound \cup {base[s]}
  /\ Goto(s, "wait")
  /\ UNCHANGED <<chainVars, state, enabled, task, fileVars>>

(* Bug: the end of the subtask is awaited, its failure is not noticed.     *)
MutWait(s) ==
  /\ Calls(s, "wait")
  /\ task[base[s]] \notin Active
  /\ Goto(s, "resume")
  /\ UNCHANGED <<chainVars, state, enabled, bound, task, fileVars>>

(* Bug: only a subtask that is CLOSED ends the wait.                       *)
MutWaitForever(s) ==
  /\ Calls(s, "wait")
  /\ task[base[s]] = "CLOSED"
  /\ Goto(s, "resume")
  /\ UNCHANGED <<chainVars, state, enabled, bound, task, fileVars>>

(* wait() returns when the subtask is CLOSED and fails the task when the   *)
(* subtask ended in any other way.                                         *)
Wait(s) ==
  /\ Calls(s, "wait")
  /\ task[base[s]] \notin Active
  /\ Goto(s, IF task[base[s]] = "CLOSED" THEN "resume" ELSE "fail_task")
  /\ UNCHANGED <<chainVars, state, enabled, bound, task, fileVars>>

(* csmock: no results, or a tarball that is uploaded, with a return code   *)
(* that is zero or not.                                                    *)
Analyze(s) ==
  /\ Calls(s, "analyze")
  /\ \/ Goto(s, "fail_scan") /\ uploaded' \in {uploaded, uploaded \cup {s}}
     \/ Goto(s, "finish_scan") /\ uploaded' = uploaded \cup {s}
  /\ UNCHANGED <<chainVars, state, enabled, bound, task, unpacked, result, clock>>

WorkerFailScan(s) ==
  /\ Calls(s, "fail_scan")
  /\ FailScan(s)
  /\ Goto(s, "fail_task")
  /\ UNCHANGED <<chainVars, bound, task, fileVars>>

(* Bug: a missing base is diffed against as if it had no defects.          *)
MutBaseReady(s) == TRUE

(* process_scan needs the extracted results of the base to diff against.   *)
BaseReady(s) == CanHaveBase(s) => base[s] \in bound \cap unpacked

NewResult(s) ==
  /\ clock < MaxResults
  /\ clock' = clock + 1
  /\ result' = [result EXCEPT ![s] = clock + 1]

(* finish_scan of a bound scan whose task is in the state `ts`.            *)
FinishScan(s, ts) ==
  \/ /\ state[s] = "FAILED" /\ ts # "CLOSED"
     /\ UNCHANGED <<state, enabled, unpacked, result, clock>>
  \/ /\ ~(state[s] = "FAILED" /\ ts # "CLOSED")
     /\ BaseReady(s)
     /\ unpacked' = unpacked \cup {s}
     /\ NewResult(s)
     /\ \E verdict \in IF IsBase(s) THEN {"FINISHED"} ELSE Verdicts :
          SetState(s, verdict)
     /\ UNCHANGED enabled
  \/ /\ ~(state[s] = "FAILED" /\ ts # "CLOSED")
     /\ ~BaseReady(s) \/ "processing" \in Faults
     /\ FailScan(s)
     /\ \/ UNCHANGED <<unpacked, result, clock>>
        \/ unpacked' = unpacked \cup {s} /\ UNCHANGED <<result, clock>>
        \/ unpacked' = unpacked \cup {s} /\ BaseReady(s) /\ NewResult(s)

WorkerFinishScan(s) ==
  /\ Calls(s, "finish_scan")
  /\ IF s \in bound
     THEN FinishScan(s, task[s]) /\ Goto(s, "close_task")
     ELSE Goto(s, "fail_task") /\ UNCHANGED <<state, enabled, unpacked, result, clock>>
  /\ UNCHANGED <<chainVars, bound, task, uploaded>>

CloseTask(s) ==
  /\ pc[s] = "close_task"
  /\ task[s] = "OPEN"
  /\ task' = [task EXCEPT ![s] = "CLOSED"]
  /\ Goto(s, "none")
  /\ UNCHANGED <<chainVars, state, enabled, bound, fileVars>>

FailTask(s) ==
  /\ pc[s] = "fail_task"
  /\ task[s] = "OPEN"
  /\ task' = [task EXCEPT ![s] = "FAILED"]
  /\ Goto(s, "none")
  /\ IF s \in bound /\ state[s] # "FAILED"
     THEN FailScan(s)
     ELSE UNCHANGED <<state, enabled>>
  /\ UNCHANGED <<chainVars, bound, fileVars>>

(* The task manager kills a process whose task is no longer OPEN.          *)
Kill(s) ==
  /\ pc[s] # "none"
  /\ task[s] # "OPEN"
  /\ Goto(s, "none")
  /\ UNCHANGED <<chainVars, state, enabled, bound, task, fileVars>>

(* The worker restarts, finds an OPEN task without a process and calls     *)
(* interrupt_tasks.                                                        *)
InterruptTask(s) ==
  /\ task[s] = "OPEN"
  /\ (IF pc[s] = "close_task" THEN "after_finish" ELSE "crash") \in Faults
  /\ task' = [task EXCEPT ![s] = "INTERRUPTED"]
  /\ Goto(s, "none")
  /\ IF s \in bound THEN FailScan(s) ELSE UNCHANGED <<state, enabled>>
  /\ UNCHANGED <<chainVars, bound, fileVars>>

-----------------------------------------------------------------------------
(* Users and administrators.                                               *)

(* client.cancel_task and worker.cancel_task: kobo cancels the tasks, then *)
(* the hub cancels the scan.                                               *)
CancelTask(s) ==
  /\ task[s] \in Active
  /\ s \in bound /\ state[s] \notin InProgress => "after_finish" \in Faults
  /\ task' = CanceledTasks({s})
  /\ CancelScans({s} \cap bound)
  /\ UNCHANGED <<chainVars, bound, pc, fileVars>>

AdminCancel(s) ==
  /\ "admin" \in Faults
  /\ s \in bound
  /\ task' = CanceledTasks({s})
  /\ CancelScans({s})
  /\ UNCHANGED <<chainVars, bound, pc, fileVars>>

AdminFail(s) ==
  /\ "admin" \in Faults
  /\ s \in bound
  /\ task' = CanceledTasks({s})
  /\ FailScan(s)
  /\ UNCHANGED <<chainVars, bound, pc, fileVars>>

(* The task is saved as CLOSED first; without a tarball glob(...)[0] then  *)
(* raises.                                                                 *)
AdminFinish(s) ==
  /\ "admin" \in Faults
  /\ s \in bound
  /\ task' = [task EXCEPT ![s] = "CLOSED"]
  /\ IF s \in uploaded
     THEN FinishScan(s, "CLOSED")
     ELSE UNCHANGED <<state, enabled, unpacked, result, clock>>
  /\ UNCHANGED <<chainVars, bound, pc, uploaded>>

-----------------------------------------------------------------------------
Init ==
  /\ created = 0
  /\ row = [s \in Scans |-> NoRow]
  /\ state = [s \in Scans |-> "INIT"]
  /\ enabled = [s \in Scans |-> FALSE]
  /\ parent = [s \in Scans |-> NoScan]
  /\ base = [s \in Scans |-> NoScan]
  /\ bound = {}
  /\ result = [s \in Scans |-> 0]
  /\ clock = 0
  /\ task = [s \in Scans |-> "NONE"]
  /\ pc = [s \in Scans |-> "none"]
  /\ uploaded = {}
  /\ unpacked = {}

Submit == \E r \in Streams, b \in Builds : SubmitScan(r, b) \/ SubmitFails(r, b)

WorkerStep(s) ==
  \/ OpenTask(s) \/ SetScanToScanning(s) \/ CacheRefreshFails(s)
  \/ SkipBase(s) \/ ReuseBase(s) \/ PrepareBase(s)
  \/ SetScanToBasescanning(s) \/ SpawnSubtask(s) \/ CreateSb(s) \/ Wait(s)
  \/ Analyze(s) \/ WorkerFailScan(s) \/ WorkerFinishScan(s)
  \/ CloseTask(s) \/ FailTask(s) \/ Kill(s)

Operator(s) ==
  \/ CancelTask(s) \/ InterruptTask(s)
  \/ AdminCancel(s) \/ AdminFail(s) \/ AdminFinish(s)

Next == Submit \/ \E s \in Scans : WorkerStep(s) \/ Operator(s)

Spec == Init /\ [][Next]_vars

(* A worker polls for free tasks and its processes run until their task    *)
(* ends; nobody has to submit, cancel, crash or press a button.            *)
FairSpec == Spec /\ \A s \in Scans : WF_vars(WorkerStep(s))

-----------------------------------------------------------------------------
(* What holds whatever goes wrong.                                         *)

(* Each column has its type.                                               *)
TypeOK ==
  /\ created \in 0 .. MaxScans
  /\ row \in [Scans -> [type : TargetTypes \cup {"ERRATA_BASE", "NONE"},
                        nvr : Nvrs \cup {None}, base_nvr : Nvrs \cup {None},
                        stream : Streams \cup {None}, target : Scans \cup {NoScan}]]
  /\ state \in [Scans -> ScanStates]
  /\ enabled \in [Scans -> BOOLEAN]
  /\ parent \in [Scans -> Scans \cup {NoScan}]
  /\ base \in [Scans -> Scans \cup {NoScan}]
  /\ bound \subseteq Scans
  /\ result \in [Scans -> 0 .. MaxResults]
  /\ clock \in 0 .. MaxResults
  /\ task \in [Scans -> TaskStates]
  /\ pc \in [Scans -> Steps]
  /\ uploaded \subseteq Scans
  /\ unpacked \subseteq Scans

(* get_child_scan never finds two children, and the walk down the children *)
(* ends: a scan is superseded by at most one scan, a later one of the same *)
(* package and release, and supersedes at most one.                        *)
ChainInv ==
  /\ \A c \in Scans : parent[c] # NoScan =>
       /\ c < parent[c]
       /\ parent[c] <= created
       /\ IsTarget(c) /\ IsTarget(parent[c])
       /\ row[c].stream = row[parent[c]].stream
  /\ \A c, d \in Scans : parent[c] = parent[d] /\ parent[c] # NoScan => c = d

(* A failed or canceled scan is never counted in the statistics.           *)
DeadIsDisabled ==
  \A s \in Scans : enabled[s] => IsTarget(s) /\ state[s] \in InProgress \cup FinishedWell

(* A scan with a verdict has a Result, so ordering by result date is total *)
(* on the finished scans and the pages of the scan can be shown.           *)
VerdictHasResult ==
  \A s \in Scans : state[s] \in FinishedWell \cup {"FINISHED"} =>
    /\ s \in bound
    /\ result[s] > 0
    /\ \A t \in Scans : result[t] = result[s] => t = s

(* A target with a verdict was compared with a base whose results exist.   *)
VerdictHasBase ==
  \A s \in Scans : state[s] \in FinishedWell /\ CanHaveBase(s) =>
    base[s] \in bound \cap unpacked

(* A base scan that several targets share is done: canceling one of them   *)
(* cannot cancel the base under the others.                                *)
SharedBaseIsDone ==
  \A s \in Scans : base[s] # NoScan /\ row[base[s]].target # s =>
    state[base[s]] \notin InProgress

-----------------------------------------------------------------------------
(* What holds while some of the faults stay away.                          *)

(* A canceled scan stays canceled: no answer of its worker, no failure of  *)
(* its base and no later submission revives it.                            *)
CanceledIsFinal ==
  [][\A s \in Scans : state[s] = "CANCELED" => state'[s] = "CANCELED"]_vars

(* A failed target stays failed: its results are not processed any more.   *)
FailedIsFinal ==
  [][\A s \in Scans : state[s] = "FAILED" => state'[s] = "FAILED"]_vars

(* At most one scan of a package in a release is counted in statistics.    *)
OneEnabled ==
  \A s, t \in Scans :
    enabled[s] /\ enabled[t] /\ row[s].stream = row[t].stream => s = t

(* The waiver page of a disabled scan says "This is not the newest scan.": *)
(* some later scan of its package is in progress or has a verdict.         *)
DisabledIsNotNewest ==
  \A s \in Scans : state[s] \in FinishedWell /\ ~enabled[s] =>
    \E t \in bound : /\ IsTarget(t) /\ row[t].stream = row[s].stream /\ t > s
                     /\ state[t] \in InProgress \cup FinishedWell

(* Every submitted scan gets a verdict, fails or is canceled, and then is  *)
(* out of progress for good.                                               *)
ScanSettles ==
  \A s \in Scans : <>[](s \in bound /\ IsTarget(s) => state[s] \notin InProgress)

(* A package in a release, seen from outside: the scan in progress, the    *)
(* last one with a verdict and the ones that are enabled.                  *)
Stream(r) == INSTANCE CurrentScan WITH
  Ids     <- Scans,
  pending <- Obsolete(r),
  last    <- LatestOfPackage(r),
  current <- {s \in Scans : enabled[s] /\ row[s].stream = r}

StreamsAreCurrent ==
  /\ \A r \in Streams : Stream(r)!Init
  /\ [][\A r \in Streams : [Stream(r)!Next]_(Stream(r)!vars)]_vars
=============================================================================
