---------------------------- MODULE AnalyzerCache ----------------------------
(***************************************************************************)
(* The cache of analyzer versions: which versions a mock config scans      *)
(* with, for the decision whether the base of a target has to be scanned   *)
(* again.  It is refreshed by AnalyzerVersionRetriever and by every result *)
(* that is loaded.                                                         *)
(*                                                                         *)
(* update_analyzers_versions is one transaction, at PostgreSQL's default   *)
(* level: its DELETE waits for a transaction that deletes the same rows,   *)
(* but does not see what that one inserts, and its SELECTs see committed   *)
(* rows only.  Neither Analyzer nor AnalyzerVersion is unique.             *)
(*                                                                         *)
(* A job is the run of an ErrataDiffBuild task with its subtasks; all      *)
(* targets have the same base build and profile.                           *)
(***************************************************************************)
EXTENDS Naturals, FiniteSets

CONSTANTS
  Jobs,       \* tasks that run at a time
  Mocks,      \* mock configs
  NoMock,     \* none of them
  Names,      \* analyzers
  Loose,      \* those whose version is not under our control: gcc, clang
  Upgrades    \* bound: analyzers of which a newer version is installed, once

ASSUME UpgradesAssumption == Upgrades \in Nat
ASSUME NoMockAssumption == NoMock \notin Mocks
ASSUME SortsAssumption == Jobs \cap Mocks = {} /\ "base" \notin Jobs \cup Mocks
ASSUME LooseAssumption == Loose \subseteq Names

VARIABLES
  installed,  \* versions in the build roots
  known,      \* AnalyzerVersion: name, version and who inserted the row
  analyzers,  \* MockConfig.analyzers
  checked,    \* ANALYZERS_VERSIONS_LAST_CHECKED: mocks whose time is recent
  base,       \* analyzers of the newest result of the base build
  at,         \* the task of a job: its own, the base's, the retriever's
  step,       \* what the hub does for it
  mock,       \* its mock config
  report,     \* versions that csmock reported
  used,       \* analyzers of the base it is compared with
  tx,         \* its open transaction
  stale,      \* history: what is not there, or older than the last upgrade
  overlaps    \* history: kinds of transactions that overlapped

tables == <<known, analyzers, checked, base>>
vars   == <<installed, tables, at, step, mock, report, used, tx, stale, overlaps>>

NoReport == [n \in Names |-> 1]
NoTx == [rows |-> {}, new |-> {}, gone |-> {}, stamps |-> {}]

Goto(j, place, next) == at' = [at EXCEPT ![j] = place] /\ step' = [step EXCEPT ![j] = next]

Drop(j) == tx' = [tx EXCEPT ![j] = NoTx] /\ report' = [report EXCEPT ![j] = NoReport]

(* A job ends.                                                             *)
Leave(j) ==
  /\ Goto(j, "idle", "none")
  /\ mock' = [mock EXCEPT ![j] = NoMock]
  /\ used' = [used EXCEPT ![j] = {}]
  /\ stale' = stale \ {j}
  /\ Drop(j)

-----------------------------------------------------------------------------
(* ScanBinding.analyzers_match                                             *)

(* Bug: versions are not compared.                                         *)
MutMatch(wanted, found) == Cardinality(wanted) = Cardinality(found)

Match(wanted, found) ==
  /\ Cardinality(wanted) = Cardinality(found)
  /\ \A a \in wanted, b \in found :
       a.name = b.name /\ a.name \notin Loose => a.version = b.version

(* AnalyzerVersionManager.get_or_create_ of every analyzer reported.       *)
Found(j) == {r \in known : r.version = report[j][r.name]}

(* get() found several rows.                                               *)
Multiple(j) == \E r, q \in Found(j) : r # q /\ r.name = q.name

(* Bug: create() instead of get_or_create().                               *)
MutCreated(j) == {[name |-> n, version |-> report[j][n], by |-> j] : n \in Names}

Created(j) ==
  {[name |-> n, version |-> report[j][n], by |-> j] :
     n \in {m \in Names : \A r \in Found(j) : r.name # m}}

SameNew(j, k) ==
  \E r \in Created(j), q \in tx[k].new : r.name = q.name /\ r.version = q.version

-----------------------------------------------------------------------------
(* The worker: ErrataDiffBuild.run                                         *)

ensure_cache(j, m) ==
  /\ at[j] = "idle"
  /\ Goto(j, IF m \in checked THEN "ensure_base" ELSE "retriever", "none")
  /\ mock' = [mock EXCEPT ![j] = m]
  /\ UNCHANGED <<installed, tables, report, used, tx, stale, overlaps>>

(* csmock runs, for the retriever without a package.                       *)
Analyze(j) ==
  /\ at[j] \in {"retriever", "base", "target"} /\ step[j] = "none"
  /\ Goto(j, at[j], IF at[j] = "retriever" THEN "update" ELSE "results")
  /\ report' = [report EXCEPT ![j] = installed]
  /\ stale' = stale \ {j}
  /\ UNCHANGED <<installed, tables, mock, used, tx, overlaps>>

(* ensure_base_is_scanned_properly, once obtain_base has a binding.        *)
ensure_base(j) ==
  LET cached == base # {} /\ Match(analyzers[mock[j]], base)
  IN  /\ at[j] = "ensure_base"
      /\ Goto(j, IF cached THEN "target" ELSE "base", "none")
      /\ used' = [used EXCEPT ![j] = IF cached THEN base ELSE {}]
      /\ stale' = IF mock[j] \in stale THEN stale \cup {j} ELSE stale \ {j}
      /\ UNCHANGED <<installed, tables, mock, report, tx, overlaps>>

-----------------------------------------------------------------------------
(* The hub: finish_scan and finish_analyzers_version_retrieval.            *)

(* A target runs on when the results of its base cannot be loaded.         *)
Fail(j) ==
  /\ IF at[j] = "base"
     THEN Goto(j, "target", "none") /\ Drop(j) /\ UNCHANGED <<mock, used, stale>>
     ELSE Leave(j)
  /\ UNCHANGED <<tables, overlaps>>

(* Result.set_analyzers, a transaction of its own.                         *)
set_analyzers(j) ==
  /\ step[j] = "results"
  /\ \/ Multiple(j) /\ Fail(j)
     \/ /\ ~Multiple(j)
        /\ Goto(j, at[j], "created")
        /\ tx' = [tx EXCEPT ![j].rows = Found(j) \cup Created(j), ![j].new = Created(j)]
        /\ overlaps' = overlaps \cup {k \in {"create"} : \E i \in Jobs \ {j} : SameNew(j, i)}
        /\ UNCHANGED <<tables, mock, report, used, stale>>
  /\ UNCHANGED installed

CommitCreated(j) ==
  /\ step[j] = "created"
  /\ Goto(j, at[j], "update")
  /\ known' = known \cup tx[j].new
  /\ tx' = [tx EXCEPT ![j].new = {}]
  /\ UNCHANGED <<installed, analyzers, checked, base, mock, report, used, stale, overlaps>>

(* Bug: the former analyzers of the mock are not cleared.                  *)
MutClear(j) ==
  /\ step[j] = "update"
  /\ Goto(j, at[j], "cleared")
  /\ UNCHANGED <<installed, tables, mock, report, used, tx, stale, overlaps>>

(* update_analyzers_versions: mock.analyzers.clear() starts.               *)
Clear(j) ==
  /\ step[j] = "update"
  /\ Goto(j, at[j], "cleared")
  /\ tx' = [tx EXCEPT ![j].gone = analyzers[mock[j]]]
  /\ overlaps' = overlaps \cup
       {k \in {"update"} : \E i \in Jobs \ {j} :
                             mock[i] = mock[j] /\ step[i] \in {"cleared", "stamped"}}
  /\ UNCHANGED <<installed, tables, mock, report, used, stale>>

(* Bug: the times of the other mock configs are forgotten.                 *)
MutStamps(j) == {mock[j]}

(* settings_set_last_versions_check changes one entry of all.              *)
Stamps(j) == checked \cup {mock[j]}

(* It returns when nobody else is about to delete those rows; then         *)
(* get_or_create_bulk, and the settings are read.                          *)
Look(j) ==
  /\ step[j] = "cleared"
  /\ \A i \in Jobs \ {j} :
       mock[i] = mock[j] /\ step[i] = "stamped" => tx[i].gone \cap tx[j].gone = {}
  /\ \/ Multiple(j) /\ Fail(j)
     \/ /\ ~Multiple(j)
        /\ Goto(j, at[j], "stamped")
        /\ tx' = [tx EXCEPT ![j].rows = Found(j) \cup Created(j), ![j].new = Created(j),
                            ![j].stamps = Stamps(j)]
        /\ overlaps' = overlaps
             \cup {k \in {"create"} : \E i \in Jobs \ {j} : SameNew(j, i)}
             \cup {k \in {"stamp"} : \E i \in Jobs \ {j} : step[i] = "stamped"}
        /\ UNCHANGED <<tables, mock, report, used, stale>>
  /\ UNCHANGED installed

(* What is deleted by now is not deleted again by the transaction that     *)
(* waited for it, and stays when it was inserted anew.                     *)
Commit(j) ==
  LET m     == mock[j]
      after == IF at[j] = "retriever" THEN NoTx ELSE [NoTx EXCEPT !.rows = tx[j].rows]
  IN  /\ step[j] = "stamped"
      /\ IF at[j] = "retriever" THEN Goto(j, "ensure_base", "none") ELSE Goto(j, at[j], "save")
      /\ known' = known \cup tx[j].new
      /\ analyzers' = [analyzers EXCEPT ![m] = (@ \ tx[j].gone) \cup tx[j].rows]
      /\ checked' = tx[j].stamps
      /\ tx' = [k \in Jobs |->
                  IF k = j THEN after
                  ELSE IF mock[k] = m THEN [tx[k] EXCEPT !.gone = @ \ tx[j].gone]
                  ELSE tx[k]]
      /\ stale' = IF j \in stale THEN stale \cup {m} ELSE stale \ {m}
      /\ UNCHANGED <<installed, base, mock, report, used, overlaps>>

(* The binding gets its result.  Of two results of the base that are       *)
(* loaded at once the one bound last is taken for the newest.              *)
SaveResult(j) ==
  /\ step[j] = "save"
  /\ IF at[j] = "base"
     THEN /\ Goto(j, "target", "none")
          /\ base' = tx[j].rows
          /\ used' = [used EXCEPT ![j] = tx[j].rows]
          /\ stale' = IF j \in stale THEN stale \cup {"base"} ELSE stale \ {"base"}
          /\ Drop(j)
          /\ UNCHANGED mock
     ELSE Leave(j) /\ UNCHANGED base
  /\ UNCHANGED <<installed, known, analyzers, checked, overlaps>>

-----------------------------------------------------------------------------
(* The build roots and the clock.                                          *)

Upgrade(n) ==
  /\ Cardinality({m \in Names : installed[m] = 2}) < Upgrades
  /\ installed[n] = 1
  /\ installed' = [installed EXCEPT ![n] = 2]
  /\ stale' = Mocks \cup {"base"} \cup {j \in Jobs : mock[j] # NoMock}
  /\ UNCHANGED <<tables, at, step, mock, report, used, tx, overlaps>>

(* A time is older than the cache duration, also in copies of it.          *)
Expire(m) ==
  /\ m \in checked
  /\ checked' = checked \ {m}
  /\ tx' = [j \in Jobs |-> [tx[j] EXCEPT !.stamps = @ \ {m}]]
  /\ UNCHANGED <<installed, known, analyzers, base, at, step, mock, report, used, stale, overlaps>>

Init ==
  /\ installed = [n \in Names |-> 1]
  /\ known = {} /\ base = {}
  /\ analyzers = [m \in Mocks |-> {}]
  /\ checked = {}
  /\ at = [j \in Jobs |-> "idle"] /\ step = [j \in Jobs |-> "none"]
  /\ mock = [j \in Jobs |-> NoMock]
  /\ report = [j \in Jobs |-> NoReport]
  /\ used = [j \in Jobs |-> {}]
  /\ tx = [j \in Jobs |-> NoTx]
  /\ stale = Mocks \cup {"base"} /\ overlaps = {}

Worker(j) == Analyze(j) \/ ensure_base(j) \/ \E m \in Mocks : ensure_cache(j, m)

Hub(j) ==
  \/ set_analyzers(j) \/ CommitCreated(j)
  \/ Clear(j) \/ Look(j) \/ Commit(j) \/ SaveResult(j)

Next ==
  \/ \E j \in Jobs : Worker(j) \/ Hub(j)
  \/ \E n \in Names : Upgrade(n)
  \/ \E m \in Mocks : Expire(m)

Spec == Init /\ [][Next]_vars

-----------------------------------------------------------------------------
(* Results can be loaded, unless two transactions inserted the same new    *)
(* version: from then on each result that reports it raises.               *)
LoadsWork ==
  "create" \notin overlaps =>
    \A j \in Jobs : step[j] \in {"results", "cleared"} => ~Multiple(j)

(* A target is not compared with a base that other versions scanned,       *)
(* unless one was installed since the cache was refreshed; transactions    *)
(* that overlap do not change that.                                        *)
DiffedAlike ==
  \A j \in Jobs :
    at[j] = "target" /\ step[j] = "none" /\ j \notin stale =>
      \A r \in used[j] : r.name \notin Loose => r.version = installed[r.name]

(* A base of the installed versions is not scanned again, unless two       *)
(* refreshes of the mock overlapped and it has the versions of both.       *)
NoNeedlessRescan ==
  overlaps \cap {"create", "update"} = {} =>
    \A m \in Mocks : m \notin stale /\ "base" \notin stale => Match(analyzers[m], base)

(* A refresh of one mock is not forgotten when another one is refreshed,   *)
(* unless both read the settings before either saved them.                 *)
StampsStay ==
  [][\/ checked \subseteq checked'
     \/ \E m \in Mocks : Expire(m)
     \/ "stamp" \in overlaps']_vars
=============================================================================
