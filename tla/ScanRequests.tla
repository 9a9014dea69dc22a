---------------------------- MODULE ScanRequests ----------------------------
(***************************************************************************)
(* Submission and finish_scan statement by statement, for the scans of one *)
(* package in one release that need no base.  Both handlers take long and  *)
(* run without a transaction: a submission talks to Koji and creates the   *)
(* task in several steps, finish_scan holds the Scan and the Task it read  *)
(* before the results are unpacked and processed.  save() writes all       *)
(* columns of such a copy back.                                            *)
(*                                                                         *)
(* The short handlers (cancel_scan, fail_scan, set_scan_to_scanning) are   *)
(* one step each.                                                          *)
(***************************************************************************)
EXTENDS Naturals, FiniteSets

CONSTANTS
  MaxScans,     \* bound: rows of Scan
  MaxResults,   \* bound: rows of Result
  MaxOverlaps,  \* bound: kinds of overlap in one behaviour
  Slots,        \* submissions the hub serves at a time
  Verdicts      \* states a scan may finish in

Scans  == 1 .. MaxScans
NoScan == 0

InProgress   == {"QUEUED", "SCANNING", "INIT"}
FinishedWell == {"NEEDS_INSPECTION", "WAIVED", "PASSED", "DISPUTED", "BUG_CONFIRMED"}
Unfinished   == {"CREATED", "FREE", "OPEN"}

ASSUME BoundsAssumption == MaxScans \in Nat /\ MaxResults \in Nat /\ MaxOverlaps \in Nat
ASSUME SlotsAssumption == IsFiniteSet(Slots)
ASSUME VerdictsAssumption ==
  Verdicts \subseteq {"BUG_CONFIRMED", "PASSED", "NEEDS_INSPECTION"}

VARIABLES
  created,   \* rows of Scan so far
  scan,      \* Scan: state, enabled, parent
  bound,     \* scans with a ScanBinding
  result,    \* date_submitted of ScanBinding.result, or 0
  clock,     \* date of the latest Result
  task,      \* kobo state of the task of a scan
  pc,        \* the next call of the worker process of a scan
  sub,       \* the submission a slot serves
  fin,       \* the finish_scan the hub runs for a scan
  overlaps,  \* history: which requests overlapped
  before     \* history: the stream before the only request in flight

tables  == <<created, scan, bound, result, clock>>
history == <<overlaps, before>>
vars    == <<tables, task, pc, sub, fin, history>>

(* No stream.                                                              *)
None == [pending |-> {}, last |-> {}, current |-> {}]

Nothing == [step |-> "none"]

Submitting == {u \in Slots : sub[u] # Nothing}
Finishing  == {s \in Scans : fin[s] # Nothing}

-----------------------------------------------------------------------------
(* The tables.                                                             *)

LatestResult(S) == {s \in S : \A t \in S : result[t] <= result[s]}

Obsolete == {s \in bound : scan[s].state \in InProgress}

LatestOfPackage == LatestResult({s \in bound : scan[s].state \in FinishedWell})

(* Where enable_last_successfull ends, starting at a scan that is dead.    *)
EndOfWalk(sc) ==
  LET walk[s \in Scans] ==
        LET children == {c \in Scans : sc[c].parent = s}
        IN  IF sc[s].state \in FinishedWell \/ children = {}
            THEN s ELSE walk[CHOOSE c \in children : TRUE]
  IN  walk

(* Bug: the column state is not written, only the one that counts.         *)
MutDead(D, st) == [s \in Scans |-> [scan[s] EXCEPT !.enabled = @ /\ s \notin D]]

(* Each of the scans D gets the state st, is switched off, and looks for   *)
(* the last successful scan below it.                                      *)
Dead(D, st) ==
  LET off   == [s \in Scans |-> IF s \in D
                                THEN [scan[s] EXCEPT !.state = st, !.enabled = FALSE]
                                ELSE scan[s]]
      found == {s \in {EndOfWalk(off)[d] : d \in D} : off[s].state \in FinishedWell}
  IN  [s \in Scans |-> IF s \in found THEN [off[s] EXCEPT !.enabled = TRUE] ELSE off[s]]

Canceled(D) == [s \in Scans |-> IF s \in D /\ task[s] \in Unfinished THEN "CANCELED" ELSE task[s]]

(* What CurrentScan shows of the tables.                                   *)
Stream ==
  [pending |-> Obsolete, last |-> LatestOfPackage,
   current |-> {s \in Scans : scan[s].enabled}]

Overlap(kinds) ==
  /\ overlaps' = overlaps \cup kinds
  /\ Cardinality(overlaps') <= MaxOverlaps

(* A step of the kind `by` meets the requests in flight.                   *)
Meets(by) ==
  /\ Overlap({ <<by, k>> : k \in (IF Submitting = {} THEN {} ELSE {"submit"})
                               \cup (IF Finishing = {} THEN {} ELSE {"finish"}) })
  /\ before' = IF overlaps' = {} THEN Stream ELSE None

-----------------------------------------------------------------------------
(* handle_scan                                                             *)

Step(u, r) == sub' = [sub EXCEPT ![u] = r] /\ UNCHANGED history

CancelObsolete(u) ==
  /\ sub[u] = Nothing
  /\ created + Cardinality({v \in Slots : sub[v].step = "create"}) < MaxScans
  /\ scan' = Dead(Obsolete, "CANCELED")
  /\ task' = Canceled(Obsolete)
  /\ sub' = [sub EXCEPT ![u] = [step |-> "create"]]
  /\ Meets("submit")
  /\ UNCHANGED <<created, bound, result, clock, pc, fin>>

CreateScan(u) ==
  LET n == created + 1
  IN  /\ sub[u].step = "create"
      /\ created' = n
      /\ scan' = [scan EXCEPT ![n] = [state |-> "INIT", enabled |-> TRUE, parent |-> NoScan]]
      /\ Step(u, [step |-> "bind", s |-> n])
      /\ UNCHANGED <<bound, result, clock, task, pc, fin>>

(* create_task and create_sb.                                              *)
Bind(u) ==
  LET s == sub[u].s
  IN  /\ sub[u].step = "bind"
      /\ task' = [task EXCEPT ![s] = "CREATED"]
      /\ bound' = bound \cup {s}
      /\ Step(u, [step |-> "free", s |-> s])
      /\ UNCHANGED <<created, scan, result, clock, pc, fin>>

(* kobo frees a task that is CREATED and raises for any other.             *)
FreeTask(u) ==
  LET s == sub[u].s
  IN  /\ sub[u].step = "free"
      /\ IF task[s] = "CREATED"
         THEN task' = [task EXCEPT ![s] = "FREE"] /\ Step(u, [step |-> "child", s |-> s])
         ELSE task' = task /\ Step(u, Nothing)
      /\ UNCHANGED <<tables, pc, fin>>

ReadChild(u) ==
  LET s == sub[u].s
  IN  /\ sub[u].step = "child"
      /\ IF LatestOfPackage = {}
         THEN Step(u, [step |-> "queue", s |-> s])
         ELSE \E c \in LatestOfPackage :
                Step(u, [step |-> "link", s |-> s, child |-> c, row |-> scan[c]])
      /\ UNCHANGED <<tables, task, pc, fin>>

(* Bug: the older scan stays enabled.                                      *)
MutLinkChild(u) ==
  LET q == sub[u]
  IN  /\ q.step = "link"
      /\ scan' = [scan EXCEPT ![q.child] = [q.row EXCEPT !.parent = q.s]]
      /\ Step(u, [step |-> "queue", s |-> q.s])
      /\ UNCHANGED <<created, bound, result, clock, task, pc, fin>>

LinkChild(u) ==
  LET q == sub[u]
  IN  /\ q.step = "link"
      /\ scan' = [scan EXCEPT ![q.child] = [q.row EXCEPT !.parent = q.s, !.enabled = FALSE]]
      /\ Step(u, [step |-> "queue", s |-> q.s])
      /\ UNCHANGED <<created, bound, result, clock, task, pc, fin>>

(* set_state_queued on the object made by create_scan.                     *)
Queue(u) ==
  LET s == sub[u].s
  IN  /\ sub[u].step = "queue"
      /\ scan' = [scan EXCEPT ![s] = [state |-> "QUEUED", enabled |-> TRUE, parent |-> NoScan]]
      /\ Step(u, Nothing)
      /\ UNCHANGED <<created, bound, result, clock, task, pc, fin>>

-----------------------------------------------------------------------------
(* The worker process of a scan, and finish_scan on the hub.               *)

Goto(s, call) == pc' = [pc EXCEPT ![s] = call]

OpenTask(s) ==
  /\ task[s] = "FREE"
  /\ task' = [task EXCEPT ![s] = "OPEN"]
  /\ Goto(s, "scanning")
  /\ UNCHANGED <<tables, sub, fin, history>>

SetScanToScanning(s) ==
  /\ pc[s] = "scanning" /\ task[s] = "OPEN"
  /\ scan' = [scan EXCEPT ![s].state = "SCANNING"]
  /\ Goto(s, "report")
  /\ Overlap(IF \E u \in Submitting : sub[u].step # "create" /\ sub[u].s = s
             THEN {<<"scanning", "submit">>} ELSE {})
  /\ UNCHANGED <<created, bound, result, clock, task, sub, fin, before>>

(* The rows finish_scan reads; a failed scan is let alone.                 *)
StartFinish(s) ==
  /\ pc[s] = "report" /\ task[s] = "OPEN"
  /\ IF scan[s].state = "FAILED"
     THEN fin' = fin /\ Goto(s, "close") /\ UNCHANGED history
     ELSE /\ fin' = [fin EXCEPT ![s] = [step |-> "unpack", scan |-> scan[s], task |-> task[s]]]
          /\ Goto(s, "wait")
          /\ Meets("finish")
  /\ UNCHANGED <<tables, task, sub>>

(* unpack_results saves the task with its new result text.                 *)
Unpack(s) ==
  /\ fin[s].step = "unpack"
  /\ task' = [task EXCEPT ![s] = fin[s].task]
  /\ fin' = [fin EXCEPT ![s].step = "load"]
  /\ UNCHANGED <<tables, pc, sub, history>>

(* ResultsLoader, or an exception and fail_scan, which reads a row of its  *)
(* own.                                                                    *)
LoadResult(s) ==
  /\ fin[s].step = "load"
  /\ \/ /\ clock < MaxResults
        /\ clock' = clock + 1
        /\ result' = [result EXCEPT ![s] = clock + 1]
        /\ fin' = [fin EXCEPT ![s].step = "verdict"]
        /\ UNCHANGED <<scan, pc>>
     \/ /\ scan' = Dead({s}, "FAILED")
        /\ fin' = [fin EXCEPT ![s] = Nothing]
        /\ Goto(s, IF pc[s] = "wait" THEN "close" ELSE "none")
        /\ UNCHANGED <<result, clock>>
  /\ UNCHANGED <<created, bound, task, sub, history>>

SaveVerdict(s) ==
  /\ fin[s].step = "verdict"
  /\ \E verdict \in Verdicts :
       scan' = [scan EXCEPT ![s] = [fin[s].scan EXCEPT !.state = verdict]]
  /\ fin' = [fin EXCEPT ![s] = Nothing]
  /\ Goto(s, IF pc[s] = "wait" THEN "close" ELSE "none")
  /\ UNCHANGED <<created, bound, result, clock, task, sub, history>>

(* Bug: the process ends and leaves its task OPEN.                         *)
MutCloseTask(s) ==
  /\ pc[s] = "close" /\ task[s] = "OPEN"
  /\ Goto(s, "none")
  /\ UNCHANGED <<tables, task, sub, fin, history>>

CloseTask(s) ==
  /\ pc[s] = "close" /\ task[s] = "OPEN"
  /\ task' = [task EXCEPT ![s] = "CLOSED"]
  /\ Goto(s, "none")
  /\ UNCHANGED <<tables, sub, fin, history>>

(* Bug: the task fails and its scan is not told.                           *)
MutFailTask(s) ==
  /\ pc[s] = "report" /\ task[s] = "OPEN"
  /\ task' = [task EXCEPT ![s] = "FAILED"]
  /\ Goto(s, "none")
  /\ Meets("fail")
  /\ UNCHANGED <<tables, sub, fin>>

(* The analysis fails: fail_scan and then fail_task.                       *)
FailTask(s) ==
  /\ pc[s] = "report" /\ task[s] = "OPEN"
  /\ task' = [task EXCEPT ![s] = "FAILED"]
  /\ scan' = Dead({s}, "FAILED")
  /\ Goto(s, "none")
  /\ Meets("fail")
  /\ UNCHANGED <<created, bound, result, clock, sub, fin>>

(* The process of a task that is no longer OPEN is killed.  The hub goes   *)
(* on with what it was asked for.                                          *)
Kill(s) ==
  /\ pc[s] # "none" /\ task[s] # "OPEN"
  /\ Goto(s, "none")
  /\ UNCHANGED <<tables, task, sub, fin, history>>

(* client.cancel_task                                                      *)
CancelTask(s) ==
  /\ task[s] \in Unfinished /\ s \in bound
  /\ scan[s].state \in InProgress
  /\ task' = Canceled({s})
  /\ scan' = Dead({s}, "CANCELED")
  /\ Meets("cancel")
  /\ UNCHANGED <<created, bound, result, clock, pc, sub, fin>>

-----------------------------------------------------------------------------
Init ==
  /\ created = 0
  /\ scan = [s \in Scans |-> [state |-> "NONE", enabled |-> FALSE, parent |-> NoScan]]
  /\ bound = {}
  /\ result = [s \in Scans |-> 0]
  /\ clock = 0
  /\ task = [s \in Scans |-> "NONE"]
  /\ pc = [s \in Scans |-> "none"]
  /\ sub = [u \in Slots |-> Nothing]
  /\ fin = [s \in Scans |-> Nothing]
  /\ overlaps = {}
  /\ before = None

Submission(u) ==
  \/ CancelObsolete(u) \/ CreateScan(u) \/ Bind(u) \/ FreeTask(u)
  \/ ReadChild(u) \/ LinkChild(u) \/ Queue(u)

Worker(s) ==
  \/ OpenTask(s) \/ SetScanToScanning(s) \/ StartFinish(s) \/ CloseTask(s)
  \/ FailTask(s) \/ Kill(s)

Finish(s) == Unpack(s) \/ LoadResult(s) \/ SaveVerdict(s)

Next ==
  \/ \E u \in Slots : Submission(u)
  \/ \E s \in Scans : Worker(s) \/ Finish(s) \/ CancelTask(s)

Spec == Init /\ [][Next]_vars

-----------------------------------------------------------------------------
Calm == Submitting = {} /\ Finishing = {}

Shown == IF Calm THEN Stream ELSE before

Alone == INSTANCE CurrentScan WITH
  Ids <- Scans, pending <- Shown.pending, last <- Shown.last, current <- Shown.current

(* A submission or a finish_scan that is alone in the hub is one step of   *)
(* CurrentScan, or none.                                                   *)
RequestsAreCurrent ==
  Alone!Init /\ [][overlaps' # {} \/ [Alone!Next]_(Alone!vars)]_vars

(* A scan is left in progress by a dead task only if its submission met    *)
(* another one, a cancellation or its own worker: set_state_queued then    *)
(* writes over what they wrote.  What finish_scan meets does no such harm. *)
InProgressHasTask ==
  Calm /\ overlaps \cap ({"submit", "cancel", "scanning"} \X {"submit"}) = {} =>
    \A s \in bound : scan[s].state \in InProgress => task[s] \in Unfinished

(* check_obsolete_scan: a package has one scan in progress, unless two     *)
(* submissions looked for obsolete scans before either made its own.       *)
OneInProgress ==
  <<"submit", "submit">> \notin overlaps => Cardinality(Obsolete) <= 1

(* A task that is OPEN is run by a process, unless the scan was canceled   *)
(* or superseded while finish_scan held the task as it was before.         *)
OpenHasProcess ==
  Calm /\ overlaps \cap ({"submit", "cancel"} \X {"finish"}) = {} =>
    \A s \in bound : task[s] = "OPEN" => pc[s] # "none"
=============================================================================
