----------------------------- MODULE ResultFiles -----------------------------
(***************************************************************************)
(* The files in the directory of a task: the tarball the worker uploads,   *)
(* the results extracted from it, and the diffs against the base task that *)
(* csdiff writes into added.js and fixed.js.  service/processing.py and    *)
(* path.py, the first half of waiving/results_loader.py, and the script    *)
(* osh-retention, which removes directories.                               *)
(*                                                                         *)
(* Errata scans are processed by process_scan, which the worker calls and  *)
(* the admin page may call again, at any time; VersionDiffBuild tasks of a *)
(* client once, by finish_task.  One action is one operation on a file; a  *)
(* file that is being written, or whose writer failed, is "part".          *)
(***************************************************************************)
EXTENDS Naturals

CONSTANTS
  Runs,       \* processes of the hub that may work on the task
  MaxRuns,    \* bound: runs started
  Methods,    \* methods of the task
  Faults      \* what may go wrong, a subset of AllFaults

AllFaults ==
  { "upload",          \* the tarball is missing or lacks the results
    "disk",            \* extraction fails half-way
    "csdiff",          \* csdiff fails half-way
    "killed",          \* the process on the hub is killed
    "overlap",         \* a run starts while another one is not done
    "base_removed",    \* retention removes the directory of the base
    "removed" }        \* retention removes the directory of the task

ASSUME BoundsAssumption == MaxRuns \in Nat
ASSUME MethodsAssumption == Methods \subseteq {"ErrataDiffBuild", "VersionDiffBuild"}
ASSUME FaultsAssumption == Faults \subseteq AllFaults

Contents == {"none", "part", "whole"}
Diffs    == {"added", "fixed"}
Ops      == {"none", "unpack", "extract", "extracted", "is_diffed",
             "open", "write", "title", "entitle", "load"}

VARIABLES
  method,    \* Task.method
  base,      \* scan-results.js of the base task
  dir,       \* whether the task has its directory
  tarball,   \* the tarball in it
  results,   \* scan-results.js in it
  diff,      \* added.js and fixed.js in it
  run,       \* the next operation of a process, and the diff it is about
  runs,      \* runs started
  outcome,   \* of the scan or the task: "open", "done" or "failed"
  faults     \* history: what went wrong so far

files == <<base, dir, tarball, results, diff>>
vars  == <<method, files, run, runs, outcome, faults>>

IsErrata == method = "ErrataDiffBuild"

Step(op, d) == [op |-> op, diff |-> d]
Idle        == Step("none", "added")

Active == {p \in Runs : run[p] # Idle}

At(p, op, d) == run[p] = Step(op, d)

Go(p, op, d) ==
  run' = [run EXCEPT ![p] = Step(op, d)] /\ UNCHANGED <<outcome, faults>>

Goto(p, op) == Go(p, op, "added")

Stop(p, how) == run' = [run EXCEPT ![p] = Idle] /\ outcome' = how

End(p, how) == Stop(p, how) /\ UNCHANGED faults

(* An exception: fail_scan for a scan; for a task a failed call of its     *)
(* worker, or fail_task.                                                   *)
Raise(p) == End(p, "failed")

Fault(f) == f \in Faults /\ faults' = faults \cup {f}

-----------------------------------------------------------------------------
(* TaskResultsProcessor.unpack_results                                     *)

Start(p) ==
  /\ run[p] = Idle
  /\ runs < MaxRuns
  /\ runs > 0 => IsErrata
  /\ runs' = runs + 1
  /\ run' = [run EXCEPT ![p] = Step("unpack", "added")]
  /\ IF Active = {} THEN UNCHANGED faults ELSE Fault("overlap")
  /\ dir' = TRUE
  /\ UNCHANGED <<method, base, tarball, results, diff, outcome>>

(* task_has_results is looked at before the file is written.               *)
Unpack(p) ==
  /\ At(p, "unpack", "added")
  /\ IF tarball = "none" THEN Raise(p)
     ELSE IF results # "none" THEN Goto(p, "is_diffed")
     ELSE Goto(p, "extract")
  /\ UNCHANGED <<method, files, runs>>

Extract(p) ==
  /\ At(p, "extract", "added")
  /\ dir' = TRUE
  /\ IF tarball = "whole"
     THEN results' = "part" /\ Goto(p, "extracted")
     ELSE UNCHANGED results /\ Goto(p, "is_diffed")
  /\ UNCHANGED <<method, base, tarball, diff, runs>>

Extracted(p) ==
  /\ At(p, "extracted", "added")
  /\ \/ results' = (IF dir THEN "whole" ELSE "none") /\ Goto(p, "is_diffed")
     \/ /\ UNCHANGED results
        /\ Stop(p, "failed")
        /\ Fault("disk")
  /\ UNCHANGED <<method, base, dir, tarball, diff, runs>>

-----------------------------------------------------------------------------
(* generate_diffs                                                          *)

Diffed(p) == IF IsErrata THEN Go(p, "load", "fixed") ELSE End(p, "done")

(* Bug: the results of the task itself are not looked for.                 *)
MutIsDiffed(p) ==
  /\ At(p, "is_diffed", "added")
  /\ IF \E d \in Diffs : diff[d] # "none" THEN Diffed(p)
     ELSE IF base = "none" THEN Raise(p)
     ELSE Go(p, "open", "added")
  /\ UNCHANGED <<method, files, runs>>

(* Bug: a task that is diffed is diffed again.                             *)
MutDiffedAgain(p) ==
  /\ At(p, "is_diffed", "added")
  /\ IF results = "none" \/ base = "none" THEN Raise(p)
     ELSE Go(p, "open", "added")
  /\ UNCHANGED <<method, files, runs>>

(* task_is_diffed, and the first half of diff_results.                     *)
IsDiffed(p) ==
  /\ At(p, "is_diffed", "added")
  /\ IF \E d \in Diffs : diff[d] # "none" THEN Diffed(p)
     ELSE IF results = "none" \/ base = "none" THEN Raise(p)
     ELSE Go(p, "open", "added")
  /\ UNCHANGED <<method, files, runs>>

Set(d, content) == diff' = [diff EXCEPT ![d] = content]

(* The shell opens the file before csdiff starts.                          *)
Open(p, d) ==
  /\ At(p, "open", d)
  /\ IF dir THEN Set(d, "part") /\ Go(p, "write", d)
            ELSE UNCHANGED diff /\ Diffed(p)
  /\ UNCHANGED <<method, base, dir, tarball, results, runs>>

(* The answer of generate_diff_files is ignored by both callers.           *)
Write(p, d) ==
  /\ At(p, "write", d)
  /\ \/ /\ results = "whole" /\ base = "whole" /\ dir
        /\ Set(d, "whole")
        /\ IF d = "added" THEN Go(p, "open", "fixed") ELSE Go(p, "title", "added")
     \/ /\ ~(results = "whole" /\ base = "whole" /\ dir)
        /\ UNCHANGED diff
        /\ Diffed(p)
     \/ /\ UNCHANGED diff
        /\ IF IsErrata
           THEN run' = [run EXCEPT ![p] = Step("load", "fixed")] /\ UNCHANGED outcome
           ELSE Stop(p, "done")
        /\ Fault("csdiff")
  /\ UNCHANGED <<method, base, dir, tarball, results, runs>>

(* add_title_to_json reads the file, truncates it and writes it anew.      *)
Title(p, d) ==
  /\ At(p, "title", d)
  /\ IF diff[d] = "whole" THEN Set(d, "part") /\ Go(p, "entitle", d)
                          ELSE UNCHANGED diff /\ Raise(p)
  /\ UNCHANGED <<method, base, dir, tarball, results, runs>>

Entitle(p, d) ==
  /\ At(p, "entitle", d)
  /\ IF dir THEN Set(d, "whole") ELSE UNCHANGED diff
  /\ IF d = "added" THEN Go(p, "title", "fixed") ELSE Diffed(p)
  /\ UNCHANGED <<method, base, dir, tarball, results, runs>>

-----------------------------------------------------------------------------
(* ResultsLoader reads the results, then the fixed and the added defects.  *)

(* Bug: a diff that cannot be read counts as one without defects.          *)
MutLoad(p) ==
  /\ At(p, "load", "fixed")
  /\ dir' = TRUE
  /\ IF results = "whole" /\ diff["fixed"] # "none" THEN Go(p, "load", "added") ELSE Raise(p)
  /\ UNCHANGED <<method, base, tarball, results, diff, runs>>

Load(p) ==
  /\ At(p, "load", "fixed")
  /\ dir' = TRUE
  /\ IF results = "whole" /\ diff["fixed"] = "whole" THEN Go(p, "load", "added") ELSE Raise(p)
  /\ UNCHANGED <<method, base, tarball, results, diff, runs>>

LoadAdded(p) ==
  /\ At(p, "load", "added")
  /\ IF diff["added"] = "whole" THEN End(p, "done") ELSE Raise(p)
  /\ UNCHANGED <<method, files, runs>>

-----------------------------------------------------------------------------
(* The environment.                                                        *)

Killed(p) ==
  /\ run[p] # Idle
  /\ Stop(p, IF IsErrata THEN outcome ELSE "failed")
  /\ Fault("killed")
  /\ UNCHANGED <<method, files, runs>>

(* osh-retention, for tasks that are finished.                             *)
RemoveBase ==
  /\ base # "none"
  /\ base' = "none"
  /\ Fault("base_removed")
  /\ UNCHANGED <<method, dir, tarball, results, diff, run, runs, outcome>>

RemoveTask ==
  /\ outcome # "open"
  /\ dir
  /\ dir' = FALSE
  /\ tarball' = "none"
  /\ results' = "none"
  /\ diff' = [d \in Diffs |-> "none"]
  /\ Fault("removed")
  /\ UNCHANGED <<method, base, run, runs, outcome>>

Init ==
  /\ method \in Methods
  /\ base = "whole"
  /\ dir = TRUE
  /\ \/ tarball = "whole" /\ faults = {}
     \/ tarball \in {"none", "part"} /\ "upload" \in Faults /\ faults = {"upload"}
  /\ results = "none"
  /\ diff = [d \in Diffs |-> "none"]
  /\ run = [p \in Runs |-> Idle]
  /\ runs = 0
  /\ outcome = "open"

Process(p) ==
  \/ Unpack(p) \/ Extract(p) \/ Extracted(p) \/ IsDiffed(p)
  \/ \E d \in Diffs : Open(p, d) \/ Write(p, d) \/ Title(p, d) \/ Entitle(p, d)
  \/ Load(p) \/ LoadAdded(p)

Next ==
  \/ \E p \in Runs : Start(p) \/ Process(p) \/ Killed(p)
  \/ RemoveBase \/ RemoveTask

Spec == Init /\ [][Next]_vars

-----------------------------------------------------------------------------
TypeOK ==
  /\ method \in Methods
  /\ {base, tarball, results} \subseteq Contents
  /\ diff \in [Diffs -> Contents]
  /\ dir \in BOOLEAN
  /\ run \in [Runs -> [op : Ops, diff : Diffs]]
  /\ runs \in 0 .. MaxRuns
  /\ outcome \in {"open", "done", "failed"}
  /\ faults \subseteq Faults

(* A verdict rests on both diffs, whole, whatever failed in earlier runs   *)
(* and whatever retention removed; a task that is not of the Errata Tool   *)
(* may close without its diffs only if csdiff failed or lost the base.     *)
DoneHasDiffs ==
  [][outcome # "done" /\ outcome' = "done" /\ "overlap" \notin faults =>
       \/ \A d \in Diffs : diff'[d] = "whole"
       \/ ~IsErrata /\ faults' \cap {"csdiff", "base_removed"} # {}]_vars

(* A run that fails, on an incomplete upload or on a directory removed      *)
(* under it, leaves nothing behind that makes every later run fail.        *)
Retryable ==
  /\ results # "part"
  /\ diff["added"] = diff["fixed"]
  /\ diff["added"] # "part"

RetryWorks == Active = {} /\ faults \subseteq {"upload", "removed"} => Retryable

(* A scan that has a verdict keeps it when it is finished once more, even  *)
(* without its base.                                                       *)
VerdictStands ==
  [][outcome = "done" /\ outcome' # "done" =>
       faults' \cap {"overlap", "removed"} # {}]_vars
=============================================================================
