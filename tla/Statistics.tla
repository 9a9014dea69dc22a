------------------------------- MODULE Statistics ------------------------------
(***************************************************************************)
(* Statistics: stats/stattypes.py, service.py and models.py.               *)
(*                                                                         *)
(* Once a day osh-stats computes each statistic from the tables of scans,  *)
(* results, groups and waivers, and stores the values that differ from     *)
(* the last ones; the pages show the last value.  The tables change while  *)
(* it runs.  No statistic reads what another stored, so a behaviour        *)
(* follows one of them, any of the catalogue.                              *)
(***************************************************************************)
EXTENDS Integers, Sequences, FiniteSets, FiniteSetsExt

CONSTANTS
  MaxScans,    \* bound: rows of Scan
  MaxChanges,  \* bound: changes of the tables
  MaxRuns,     \* bound: statistics computed, of this kind
  Packages,
  Releases,    \* SystemRelease
  Everywhere,  \* not a release: results without one
  Child,       \* SystemRelease.child: the release before, or Everywhere
  Keys,        \* statistics to follow
  Seconds,     \* Result.scanning_time and Task.time of every scan
  Lines        \* Result.lines

ASSUME BoundsAssumption ==
  MaxScans \in Nat /\ MaxChanges \in Nat /\ MaxRuns \in Nat
ASSUME ReleasesAssumption == IsFiniteSet(Releases)
ASSUME ChildAssumption ==
  Everywhere \notin Releases /\ Child \in [Releases -> Releases \cup {Everywhere}]
ASSUME MeasuresAssumption == Seconds \in Nat /\ Lines \in Nat

Scans     == 1 .. MaxScans
Kinds     == {"ERRATA", "REBASE", "NEWPKG"}      \* SCAN_TYPES_TARGET
Types     == Kinds \cup {"ERRATA_BASE"}
Decisions == {"IS_A_BUG", "NOT_A_BUG", "FIX_LATER"}

VARIABLES
  scan,     \* Scan with its task, result, group of new defects and waiver
  active,   \* SystemRelease.active
  key,      \* the statistic that is followed
  pending,  \* the values computed and not stored yet, by release
  results,  \* StatResults of it, oldest first
  version,  \* changes of the tables so far
  taken,    \* version that pending was computed from
  shown,    \* history: version of the last value stored, by release
  runs

tables == <<scan, active>>
vars == <<scan, active, key, pending, results, version, taken, shown, runs>>

NoScan ==
  [type |-> "NONE", package |-> Everywhere, release |-> Everywhere, enabled |-> FALSE,
   closed |-> FALSE, result |-> 0, new |-> 0, fixed |-> 0, open |-> FALSE,
   waiver |-> "NONE", is_active |-> FALSE]

-----------------------------------------------------------------------------
(* The querysets.  "total" is all kinds, Everywhere all releases.          *)

OfKind(s, kind) == kind = "total" \/ scan[s].type = kind
By(s, r) == r = Everywhere \/ scan[s].release = r
Present == {s \in Scans : scan[s].type # "NONE"}

Chosen(kind, r) == {s \in Present : OfKind(s, kind) /\ By(s, r)}
Enabled(kind, r) == {s \in Chosen(kind, r) : scan[s].enabled}
Target(S) == {s \in S : scan[s].type \in Kinds}

Sum(f, S) == MapThenSumSet(LAMBDA s : f[s], S)

New   == [s \in Scans |-> scan[s].new]
Fixed == [s \in Scans |-> scan[s].fixed]

-----------------------------------------------------------------------------
(* stattypes.py.                                                           *)

(* Bug: superseded scans count as rebases and so on.                       *)
MutScanCount(kind, r) ==
  Cardinality(Target(IF kind = "total" THEN Enabled(kind, r) ELSE Chosen(kind, r)))

ScanCount(kind, r) == Cardinality(Target(Enabled(kind, r)))

LineCount(r) ==
  LET counted == {s \in Enabled("total", r) : scan[s].result # 0}
  IN  Lines * Cardinality(counted)

Defects(count, kind, r) == Sum(count, Enabled(kind, r))

(* The binding with the first result of the package, disabled or not.      *)
First(s) ==
  LET related == {t \in Target(Chosen("total", scan[s].release)) :
                    scan[t].package = scan[s].package /\ scan[t].closed}
      dated == {t \in related : scan[t].result # 0}
  IN  {t \in dated : \A u \in dated : scan[t].result <= scan[u].result}

(* Without one of the two results the difference is 0.                     *)
Difference(count, s, T) ==
  IF scan[s].result = 0 THEN 0 ELSE Sum([t \in Scans |-> count[t] - count[s]], T)

InPackage(count, kind, r) ==
  Sum([s \in Scans |-> Difference(count, s, First(s))], Enabled(kind, r))

(* latest() puts a binding without a result before all others.             *)
Previous(s) ==
  LET before == {t \in Enabled("total", Child[scan[s].release]) :
                   scan[t].package = scan[s].package}
  IN  IF Child[scan[s].release] = Everywhere \/ \E t \in before : scan[t].result = 0
      THEN {}
      ELSE {t \in before : \A u \in before : scan[u].result <= scan[t].result}

Between(count, r) ==
  Sum([s \in Scans |-> 0 - Difference(count, s, Previous(s))], Enabled("total", r))

(* The manager of Waiver.waivers leaves out comments and what was revoked. *)
Waived(kind, r) == {s \in Chosen(kind, r) : scan[s].is_active}

Submitted(kind, r) == Cardinality(Waived(kind, r))

Missing(kind, r) == Cardinality({s \in Enabled(kind, r) : scan[s].open})

Decided(decision, kind, r) ==
  Cardinality({s \in Waived(kind, r) : scan[s].waiver = decision})

BusyMinutes == (Seconds * Cardinality({s \in Present : scan[s].closed})) \div 60

MinutesScanning == (Seconds * Cardinality({s \in Present : scan[s].result # 0})) \div 60

(* The catalogue: what is counted, of which kind of scans, by release?     *)
Both(what, kinds) == [what : {what}, kind : kinds, by_release : BOOLEAN]
ByRelease(what, kinds) == [what : {what}, kind : kinds, by_release : {TRUE}]
Global(what) == [what : {what}, kind : {"total"}, by_release : {FALSE}]

AnyKind == Kinds \cup {"total"}

Catalogue ==
  UNION { UNION {Both(w, AnyKind) : w \in {"scans", "submitted", "missing"}},
          UNION {Both(w, {"total", "REBASE", "ERRATA"}) : w \in {"fixed", "new"}},
          UNION {Both(w, {"total"}) : w \in Decisions \cup {"lines"}},
          UNION {ByRelease(w, Kinds) : w \in Decisions \cup {"eliminated"}},
          UNION {ByRelease(w, {"total"}) :
                   w \in {"fixed in", "fixed between", "new between"}},
          UNION {Global(w) : w \in {"busy", "scanning"}} }

ASSUME KeysAssumption == Keys \subseteq Catalogue

Value(k, r) ==
  CASE k.what = "scans"         -> ScanCount(k.kind, r)
    [] k.what = "lines"         -> LineCount(r)
    [] k.what = "fixed"         -> Defects(Fixed, k.kind, r)
    [] k.what = "new"           -> Defects(New, k.kind, r)
    [] k.what = "eliminated"    -> InPackage(New, k.kind, r)
    [] k.what = "fixed in"      -> InPackage(Fixed, k.kind, r)
    [] k.what = "fixed between" -> Between(Fixed, r)
    [] k.what = "new between"   -> Between(New, r)
    [] k.what = "submitted"     -> Submitted(k.kind, r)
    [] k.what = "missing"       -> Missing(k.kind, r)
    [] k.what \in Decisions     -> Decided(k.what, k.kind, r)
    [] k.what = "busy"          -> BusyMinutes
    [] k.what = "scanning"      -> MinutesScanning

(* The releases that a statistic is computed for.                          *)
Measured(k) ==
  IF ~k.by_release
  THEN {Everywhere}
  ELSE {r \in active : k.what = "fixed between" => Child[r] # Everywhere}

-----------------------------------------------------------------------------
(* osh-stats.                                                              *)

NoValues == [r \in {} |-> 0]

Measure ==
  /\ runs < MaxRuns
  /\ runs' = runs + 1
  /\ pending' = [r \in Measured(key) |-> Value(key, r)]
  /\ taken' = version
  /\ UNCHANGED <<scan, active, key, results, version, shown>>

(* _get_stat_results: a statistic by release has no result without one.    *)
ResultsOf(r) == {i \in DOMAIN results : results[i].release = r}

(* latest()                                                                *)
Latest(r) == {i \in ResultsOf(r) : \A j \in ResultsOf(r) : j <= i}

(* Bug: a value that was there once is not stored again.                   *)
MutIsNew(r, value) == \A i \in ResultsOf(r) : results[i].value # value

IsNew(r, value) == \A i \in Latest(r) : results[i].value # value

create_stat_result(r) ==
  /\ r \in DOMAIN pending
  /\ results' = IF IsNew(r, pending[r])
                THEN Append(results, [release |-> r, value |-> pending[r]])
                ELSE results
  /\ pending' = [q \in DOMAIN pending \ {r} |-> pending[q]]
  /\ shown' = [shown EXCEPT ![r] = taken]
  /\ UNCHANGED <<scan, active, key, version, taken, runs>>

(* A statistic after the first that raises is not computed that day, one   *)
(* that is computed may be lost with the process.                          *)
Abort ==
  /\ pending # NoValues
  /\ pending' = NoValues
  /\ UNCHANGED <<scan, active, key, results, version, taken, shown, runs>>

display_value(r) ==
  IF ResultsOf(r) = {} THEN 0 ELSE results[CHOOSE i \in Latest(r) : TRUE].value

-----------------------------------------------------------------------------
(* What the rest of the hub does to the tables: see ScanLifecycle, Waiving. *)

Change ==
  /\ version <= MaxChanges
  /\ version' = version + 1
  /\ UNCHANGED <<key, pending, results, taken, shown, runs>>

Put(s, row) == scan' = [scan EXCEPT ![s] = row] /\ UNCHANGED active

Submit(s, type, p, r) ==
  /\ scan[s].type = "NONE"
  /\ \A t \in Scans : t < s => t \in Present
  /\ Put(s, [NoScan EXCEPT !.type = type, !.package = p, !.release = r, !.enabled = TRUE])
  /\ Change

Results == Cardinality({t \in Scans : scan[t].result # 0})

(* finish_scan; only targets are compared with a base.                     *)
Load(s, new, fixed) ==
  /\ s \in Present /\ ~scan[s].closed /\ scan[s].result = 0
  /\ scan[s].type \in Kinds \/ (new = 0 /\ fixed = 0)
  /\ Put(s, [scan[s] EXCEPT !.result = Results + 1, !.new = new, !.fixed = fixed,
                            !.open = new > 0])
  /\ Change

Close(s) ==
  /\ s \in Present /\ ~scan[s].closed
  /\ Put(s, [scan[s] EXCEPT !.closed = TRUE])
  /\ Change

(* A scan is superseded, or the one that superseded it died.               *)
Enable(s) ==
  /\ s \in Present
  /\ Put(s, [scan[s] EXCEPT !.enabled = ~@])
  /\ Change

PostWaiver(s, decision) ==
  /\ scan[s].new > 0
  /\ Put(s, [scan[s] EXCEPT !.waiver = decision, !.is_active = TRUE, !.open = FALSE])
  /\ Change

PostComment(s) ==
  /\ scan[s].new > 0 /\ scan[s].waiver = "NONE"
  /\ Put(s, [scan[s] EXCEPT !.waiver = "COMMENT"])
  /\ Change

RemoveWaiver(s, open) ==
  /\ scan[s].is_active
  /\ Put(s, [scan[s] EXCEPT !.is_active = FALSE, !.open = open])
  /\ Change

(* The admin no longer follows a release.                                  *)
Retire(r) ==
  /\ r \in active
  /\ active' = active \ {r}
  /\ UNCHANGED scan
  /\ Change

-----------------------------------------------------------------------------
(* The hub is in use: the first scan is finished.                          *)
Finished(t, p, r, new) ==
  [NoScan EXCEPT !.type = t, !.package = p, !.release = r, !.enabled = TRUE,
                 !.closed = TRUE, !.result = 1, !.new = new, !.open = new > 0]

Init ==
  /\ \E t \in Kinds, p \in Packages, r \in Releases, new \in {0, 1} :
       scan = [s \in Scans |-> IF s = 1 THEN Finished(t, p, r, new) ELSE NoScan]
  /\ active = Releases
  /\ key \in Keys
  /\ pending = NoValues
  /\ results = <<>>
  /\ version = 1
  /\ taken = 1
  /\ shown = [r \in Releases \cup {Everywhere} |-> 0]
  /\ runs = 0

Tables(s) ==
  \/ \E t \in Types, p \in Packages, r \in Releases : Submit(s, t, p, r)
  \/ \E new, fixed \in {0, 1} : Load(s, new, fixed)
  \/ \E d \in Decisions : PostWaiver(s, d)
  \/ \E open \in BOOLEAN : RemoveWaiver(s, open)
  \/ Close(s) \/ Enable(s) \/ PostComment(s)

Next ==
  \/ \E s \in Scans : Tables(s)
  \/ \E r \in Releases : Retire(r)
  \/ pending = NoValues /\ Measure
  \/ \E r \in DOMAIN pending : create_stat_result(r)
  \/ Abort

Spec == Init /\ [][Next]_vars

-----------------------------------------------------------------------------
(* A page shows what the statistic was when it was computed last: if no    *)
(* table changed since, what it is now.  Values that come back, a value    *)
(* of zero, another release and a run that was cut short make no           *)
(* difference, although equal values are not stored.                       *)
ShownIsCurrent ==
  \A r \in DOMAIN shown : shown[r] = version => display_value(r) = Value(key, r)

(* Statistics that are there with and without releases.                    *)
Summed == {k \in Catalogue : [k EXCEPT !.by_release = ~@] \in Catalogue /\ ~k.by_release}

(* Statistics that a reader adds up do add up, whatever happened to scans  *)
(* and waivers: kinds of scans to all scans, decisions to all waivers,     *)
(* releases to everything.                                                 *)
PartsMakeTotal ==
  /\ \A r \in Releases \cup {Everywhere} :
       /\ ScanCount("total", r) = Sum([k \in Kinds |-> ScanCount(k, r)], Kinds)
       /\ Missing("total", r) = Sum([k \in Kinds |-> Missing(k, r)], Kinds)
       /\ \A kind \in AnyKind :
            Submitted(kind, r) = Sum([d \in Decisions |-> Decided(d, kind, r)], Decisions)
  /\ \A k \in Summed :
       Value(k, Everywhere) = Sum([r \in Releases |-> Value(k, r)], Releases)
=============================================================================
