-------------------------- MODULE AnalyzerCacheProofs --------------------------
(***************************************************************************)
(* Proofs about AnalyzerCache for any number of jobs, mock configs and     *)
(* analyzers.                                                              *)
(***************************************************************************)
EXTENDS AnalyzerCache, TLAPS

Releases  == {1, 2}
RowType   == [name : Names, version : Releases, by : Jobs]
TxType    == [rows : SUBSET RowType, new : SUBSET RowType, gone : SUBSET RowType,
              stamps : SUBSET Mocks]
Results   == {"retriever", "base", "target"}
Steps     == {"none", "results", "created", "update", "cleared", "stamped", "save"}

TypeOK ==
  /\ installed \in [Names -> Releases]
  /\ known \subseteq RowType /\ base \subseteq RowType
  /\ analyzers \in [Mocks -> SUBSET RowType]
  /\ checked \subseteq Mocks
  /\ at \in [Jobs -> Results \cup {"idle", "ensure_base"}]
  /\ step \in [Jobs -> Steps]
  /\ mock \in [Jobs -> Mocks \cup {NoMock}]
  /\ report \in [Jobs -> [Names -> Releases]]
  /\ used \in [Jobs -> SUBSET RowType]
  /\ tx \in [Jobs -> TxType]

PlaceInv ==
  \A j \in Jobs :
    /\ at[j] # "idle" => mock[j] \in Mocks
    /\ step[j] # "none" => at[j] \in Results
    /\ at[j] = "base" => used[j] = {}

(* A set of rows that says of every analyzer what v says, and only that.   *)
Covers(rows, v) == \A n \in Names : \E r \in rows : r.name = n /\ r.version = v[n]
Agrees(rows, v) == \A r \in rows : r.version = v[r.name]

(* What is not stale tells the installed versions.                         *)
FreshInv ==
  /\ \A j \in Jobs : step[j] # "none" /\ j \notin stale => report[j] = installed
  /\ \A j \in Jobs : step[j] \in {"created", "stamped", "save"} =>
       Covers(tx[j].rows, report[j]) /\ Agrees(tx[j].rows, report[j])
  /\ \A m \in Mocks : m \notin stale => Covers(analyzers[m], installed)

Same(r, q) == r.name = q.name /\ r.version = q.version

(* No version is there twice, or about to be.                              *)
UniqueInv ==
  "create" \notin overlaps =>
    /\ \A r, q \in known : Same(r, q) => r = q
    /\ \A j \in Jobs : \A r \in tx[j].new : \A q \in known : ~Same(r, q)
    /\ \A j \in Jobs : \A r, q \in tx[j].new : Same(r, q) => r = q
    /\ \A j, k \in Jobs : \A r \in tx[j].new, q \in tx[k].new : Same(r, q) => j = k

(* Who is about to save the settings knows what they say.                  *)
StampInv ==
  "stamp" \notin overlaps =>
    /\ \A j \in Jobs : step[j] = "stamped" => checked \subseteq tx[j].stamps
    /\ \A j, k \in Jobs : step[j] = "stamped" /\ step[k] = "stamped" => j = k

Typed == TypeOK /\ PlaceInv

IInv == Typed /\ FreshInv /\ DiffedAlike /\ UniqueInv /\ StampInv

USE NoMockAssumption, SortsAssumption, LooseAssumption
USE DEF Releases, Results

-----------------------------------------------------------------------------
(* Operators.                                                              *)

LEMMA TxFields ==
  \A t \in TxType : /\ t.rows \subseteq RowType /\ t.new \subseteq RowType
                    /\ t.gone \subseteq RowType /\ t.stamps \subseteq Mocks
  BY DEF TxType

LEMMA TxUpdates ==
  ASSUME NEW t \in TxType, NEW R \in SUBSET RowType, NEW N \in SUBSET RowType,
         NEW S \in SUBSET Mocks
  PROVE  /\ [t EXCEPT !.rows = R, !.new = N] \in TxType
         /\ [t EXCEPT !.rows = R, !.new = N, !.stamps = S] \in TxType
         /\ [t EXCEPT !.new = R] \in TxType
         /\ [t EXCEPT !.gone = R] \in TxType
         /\ [t EXCEPT !.gone = @ \ R] \in TxType
         /\ \A m : [t EXCEPT !.stamps = @ \ {m}] \in TxType
  BY DEF TxType

LEMMA Looked ==
  ASSUME TypeOK, NEW j \in Jobs
  PROVE  /\ Found(j) \cup Created(j) \subseteq RowType /\ Created(j) \subseteq RowType
         /\ Covers(Found(j) \cup Created(j), report[j])
         /\ Agrees(Found(j) \cup Created(j), report[j])
         /\ \A r \in Created(j) : \A q \in known : ~Same(r, q)
         /\ \A r, q \in Created(j) : Same(r, q) => r = q
<1>1. Found(j) \subseteq RowType /\ Agrees(Found(j), report[j])
  BY DEF Found, TypeOK, Agrees
<1>2. \A r \in Created(j) :
        /\ r \in RowType /\ r.version = report[j][r.name] /\ r.by = j
        /\ \A q \in Found(j) : q.name # r.name
  BY DEF Created, TypeOK, RowType
<1>3. Covers(Found(j) \cup Created(j), report[j])
  <2> SUFFICES ASSUME NEW n \in Names
               PROVE  \E r \in Found(j) \cup Created(j) : r.name = n /\ r.version = report[j][n]
    BY DEF Covers
  <2>1. CASE \E r \in Found(j) : r.name = n
    BY <2>1 DEF Found
  <2>2. CASE \A r \in Found(j) : r.name # n
    <3>1. [name |-> n, version |-> report[j][n], by |-> j] \in Created(j)
      BY <2>2 DEF Created
    <3> QED BY <3>1
  <2> QED BY <2>1, <2>2
<1>4. \A r \in Created(j) : \A q \in known : ~Same(r, q)
  BY <1>2 DEF Found, Same
<1>5. \A r, q \in Created(j) : Same(r, q) => r = q
  BY DEF Created, Same
<1> QED BY <1>1, <1>2, <1>3, <1>4, <1>5 DEF Agrees

-----------------------------------------------------------------------------
LEMMA InitIInv == Init => IInv
<1> SUFFICES ASSUME Init PROVE IInv
  OBVIOUS
<1> USE DEF Init
<1>1. Typed
  BY DEF Typed, TypeOK, PlaceInv, NoReport, NoTx, TxType, Steps
<1>2. FreshInv /\ DiffedAlike
  BY DEF FreshInv, DiffedAlike
<1>3. UniqueInv /\ StampInv
  BY DEF UniqueInv, StampInv, NoTx
<1> QED BY <1>1, <1>2, <1>3 DEF IInv

LEMMA NoTxType == NoTx \in TxType /\ NoReport \in [Names -> Releases]
  BY DEF NoTx, TxType, NoReport

LEMMA DropTyped ==
  ASSUME Typed, NEW j \in Jobs, Drop(j)
  PROVE  tx' \in [Jobs -> TxType] /\ report' \in [Jobs -> [Names -> Releases]]
<1>1. tx \in [Jobs -> TxType] /\ report \in [Jobs -> [Names -> Releases]]
  BY DEF Typed, TypeOK
<1> QED BY <1>1, NoTxType DEF Drop

(* A step of one job keeps the types when what it writes has them.         *)
LEMMA StepTyped ==
  ASSUME TypeOK, NEW j \in Jobs, UNCHANGED installed,
         known' \subseteq RowType, base' \subseteq RowType, checked' \subseteq Mocks,
         analyzers' \in [Mocks -> SUBSET RowType],
         tx' \in [Jobs -> TxType], report' \in [Jobs -> [Names -> Releases]],
         at' = [at EXCEPT ![j] = at'[j]], at'[j] \in Results \cup {"idle", "ensure_base"},
         step' = [step EXCEPT ![j] = step'[j]], step'[j] \in Steps,
         mock' = [mock EXCEPT ![j] = mock'[j]], mock'[j] \in Mocks \cup {NoMock},
         used' = [used EXCEPT ![j] = used'[j]], used'[j] \subseteq RowType
  PROVE  TypeOK'
<1>1. at' \in [Jobs -> Results \cup {"idle", "ensure_base"}]
  BY DEF TypeOK
<1>2. step' \in [Jobs -> Steps]
  BY DEF TypeOK
<1>3. mock' \in [Jobs -> Mocks \cup {NoMock}]
  BY DEF TypeOK
<1>4. used' \in [Jobs -> SUBSET RowType]
  BY DEF TypeOK
<1>5. installed' \in [Names -> Releases]
  BY DEF TypeOK
<1> QED BY <1>1, <1>2, <1>3, <1>4, <1>5 DEF TypeOK

(* What Fail does to the variables, whichever task failed.                 *)
LEMMA FailEffects ==
  ASSUME Typed, NEW j \in Jobs, step[j] # "none", Fail(j)
  PROVE  /\ Drop(j) /\ UNCHANGED <<tables, overlaps>>
         /\ at' = [at EXCEPT ![j] = at'[j]] /\ step' = [step EXCEPT ![j] = "none"]
         /\ mock' = [mock EXCEPT ![j] = mock'[j]] /\ used' = [used EXCEPT ![j] = {}]
         /\ \/ at'[j] = "target" /\ mock'[j] = mock[j]
            \/ at'[j] = "idle" /\ mock'[j] = NoMock
         /\ stale' \in {stale, stale \ {j}}
<1>0. TypeOK /\ PlaceInv
  BY DEF Typed
<1>1. CASE at[j] = "base"
  <2>1. /\ Drop(j) /\ UNCHANGED <<mock, used, stale, tables, overlaps>>
        /\ at' = [at EXCEPT ![j] = "target"] /\ step' = [step EXCEPT ![j] = "none"]
    BY <1>1 DEF Fail, Goto
  <2>2. used[j] = {}
    BY <1>0, <1>1 DEF PlaceInv
  <2> QED BY <1>0, <2>1, <2>2 DEF TypeOK
<1>2. CASE at[j] # "base"
  <2>1. /\ Drop(j) /\ UNCHANGED <<tables, overlaps>> /\ stale' = stale \ {j}
        /\ at' = [at EXCEPT ![j] = "idle"] /\ step' = [step EXCEPT ![j] = "none"]
        /\ mock' = [mock EXCEPT ![j] = NoMock] /\ used' = [used EXCEPT ![j] = {}]
    BY <1>2 DEF Fail, Leave, Goto
  <2> QED BY <1>0, <2>1 DEF TypeOK
<1> QED BY <1>1, <1>2

LEMMA FailTyped ==
  ASSUME Typed, NEW j \in Jobs, step[j] # "none", Fail(j), UNCHANGED installed
  PROVE  Typed'
<1>0. TypeOK /\ PlaceInv
  BY DEF Typed
<1>1. /\ Drop(j) /\ UNCHANGED tables
      /\ at' = [at EXCEPT ![j] = at'[j]] /\ step' = [step EXCEPT ![j] = "none"]
      /\ mock' = [mock EXCEPT ![j] = mock'[j]] /\ used' = [used EXCEPT ![j] = {}]
      /\ \/ at'[j] = "target" /\ mock'[j] = mock[j]
         \/ at'[j] = "idle" /\ mock'[j] = NoMock
  BY FailEffects
<1>2. tx' \in [Jobs -> TxType] /\ report' \in [Jobs -> [Names -> Releases]]
  BY <1>1, DropTyped
<1>3. at[j] \in Results
  BY <1>0 DEF PlaceInv
<1>4. TypeOK'
  <2>1. /\ UNCHANGED installed
        /\ known' \subseteq RowType /\ base' \subseteq RowType /\ checked' \subseteq Mocks
        /\ analyzers' \in [Mocks -> SUBSET RowType]
    BY <1>0, <1>1 DEF TypeOK, tables
  <2>2. /\ step'[j] = "none" /\ "none" \in Steps /\ used'[j] = {}
        /\ mock'[j] \in Mocks \cup {NoMock}
        /\ at'[j] \in Results \cup {"idle", "ensure_base"}
    BY <1>0, <1>1 DEF TypeOK, Steps
  <2> QED BY <1>0, <1>1, <1>2, <2>1, <2>2, StepTyped
<1>5. PlaceInv'
  BY <1>0, <1>1, <1>3 DEF TypeOK, PlaceInv
<1> QED BY <1>4, <1>5 DEF Typed

LEMMA NextTyped == IInv /\ [Next]_vars => Typed'
<1> SUFFICES ASSUME IInv, [Next]_vars PROVE Typed'
  OBVIOUS
<1> USE DEF IInv, tables, Goto, Steps
<1>0. Typed /\ TypeOK /\ PlaceInv
  BY DEF Typed
<1>1. ASSUME NEW j \in Jobs, NEW m \in Mocks, ensure_cache(j, m) PROVE Typed'
  BY <1>0, <1>1 DEF ensure_cache, Typed, TypeOK, PlaceInv
<1>2. ASSUME NEW j \in Jobs, Analyze(j) PROVE Typed'
  BY <1>0, <1>2 DEF Analyze, Typed, TypeOK, PlaceInv
<1>3. ASSUME NEW j \in Jobs, ensure_base(j) PROVE Typed'
  BY <1>0, <1>3 DEF ensure_base, Typed, TypeOK, PlaceInv
<1>4. ASSUME NEW j \in Jobs, set_analyzers(j) PROVE Typed'
  <2>0. tx[j] \in TxType
    BY <1>0 DEF TypeOK
  <2>1. CASE Multiple(j)
    BY <1>0, <1>4, <2>1, FailTyped DEF set_analyzers
  <2>2. CASE ~Multiple(j)
    <3>1. tx' = [tx EXCEPT ![j] = [tx[j] EXCEPT !.rows = Found(j) \cup Created(j),
                                                !.new = Created(j)]]
      BY <1>4, <2>2 DEF set_analyzers
    <3>2. [tx[j] EXCEPT !.rows = Found(j) \cup Created(j), !.new = Created(j)] \in TxType
      BY <1>0, <2>0, Looked, TxUpdates
    <3>3. tx' \in [Jobs -> TxType]
      BY <1>0, <3>1, <3>2 DEF TypeOK
    <3> QED BY <1>0, <1>4, <2>2, <3>3 DEF set_analyzers, Typed, TypeOK, PlaceInv
  <2> QED BY <2>1, <2>2
<1>5. ASSUME NEW j \in Jobs, CommitCreated(j) PROVE Typed'
  <2>0. tx[j] \in TxType /\ {} \in SUBSET RowType
    BY <1>0 DEF TypeOK
  <2>1. [tx[j] EXCEPT !.new = {}] \in TxType /\ tx[j].new \subseteq RowType
    BY <2>0, TxUpdates, TxFields
  <2>2. tx' \in [Jobs -> TxType]
    BY <1>0, <1>5, <2>1 DEF CommitCreated, TypeOK
  <2> QED BY <1>0, <1>5, <2>1, <2>2 DEF CommitCreated, Typed, TypeOK, PlaceInv
<1>6. ASSUME NEW j \in Jobs, Clear(j) PROVE Typed'
  <2>1. mock[j] \in Mocks
    BY <1>0, <1>6 DEF Clear, PlaceInv
  <2>2. [tx[j] EXCEPT !.gone = analyzers[mock[j]]] \in TxType
    <3>1. tx[j] \in TxType /\ analyzers[mock[j]] \in SUBSET RowType
      BY <1>0, <2>1 DEF TypeOK
    <3> QED BY <3>1, TxUpdates
  <2>3. tx' \in [Jobs -> TxType]
    BY <1>0, <1>6, <2>2 DEF Clear, TypeOK
  <2> QED BY <1>0, <1>6, <2>3 DEF Clear, Typed, TypeOK, PlaceInv
<1>7. ASSUME NEW j \in Jobs, Look(j) PROVE Typed'
  <2>0. tx[j] \in TxType
    BY <1>0 DEF TypeOK
  <2>1. CASE Multiple(j)
    BY <1>0, <1>7, <2>1, FailTyped DEF Look
  <2>2. CASE ~Multiple(j)
    <3>0. Stamps(j) \subseteq Mocks
      BY <1>0, <1>7 DEF Look, Stamps, TypeOK, PlaceInv
    <3>1. tx' = [tx EXCEPT ![j] = [tx[j] EXCEPT !.rows = Found(j) \cup Created(j),
                                                !.new = Created(j), !.stamps = Stamps(j)]]
      BY <1>7, <2>2 DEF Look
    <3>2. [tx[j] EXCEPT !.rows = Found(j) \cup Created(j), !.new = Created(j),
                        !.stamps = Stamps(j)] \in TxType
      BY <1>0, <2>0, <3>0, Looked, TxUpdates
    <3>3. tx' \in [Jobs -> TxType]
      BY <1>0, <3>1, <3>2 DEF TypeOK
    <3>4. /\ at' = [at EXCEPT ![j] = at[j]] /\ step' = [step EXCEPT ![j] = "stamped"]
          /\ at[j] \in Results /\ UNCHANGED <<installed, tables, mock, report, used>>
      BY <1>0, <1>7, <2>2 DEF Look, PlaceInv
    <3>5. TypeOK'
      <4>1. /\ at[j] \in Results \cup {"idle", "ensure_base"} /\ step'[j] = "stamped"
            /\ mock[j] \in Mocks \cup {NoMock} /\ used[j] \subseteq RowType
            /\ mock = [mock EXCEPT ![j] = mock[j]] /\ used = [used EXCEPT ![j] = used[j]]
            /\ at'[j] = at[j]
        BY <1>0, <3>4 DEF TypeOK
      <4>2. /\ known \subseteq RowType /\ base \subseteq RowType /\ checked \subseteq Mocks
            /\ analyzers \in [Mocks -> SUBSET RowType]
            /\ report \in [Jobs -> [Names -> Releases]]
        BY <1>0 DEF TypeOK
      <4> QED BY <1>0, <3>3, <3>4, <4>1, <4>2, StepTyped
    <3>6. PlaceInv'
      BY <1>0, <3>4 DEF TypeOK, PlaceInv
    <3> QED BY <3>5, <3>6 DEF Typed
  <2> QED BY <2>1, <2>2
<1>8. ASSUME NEW j \in Jobs, Commit(j) PROVE Typed'
  <2>1. mock[j] \in Mocks /\ tx[j] \in TxType
    BY <1>0, <1>8 DEF Commit, TypeOK, PlaceInv
  <2>2. [NoTx EXCEPT !.rows = tx[j].rows] \in TxType
    BY <2>1 DEF NoTx, TxType
  <2>3. \A k \in Jobs : tx[k] \in TxType /\ [tx[k] EXCEPT !.gone = @ \ tx[j].gone] \in TxType
    <3>1. tx[j].gone \in SUBSET RowType /\ \A k \in Jobs : tx[k] \in TxType
      BY <1>0, <2>1, TxFields DEF TypeOK
    <3> QED BY <3>1, TxUpdates
  <2>4. tx' \in [Jobs -> TxType]
    BY <1>8, <2>2, <2>3, NoTxType DEF Commit
  <2>5. analyzers' \in [Mocks -> SUBSET RowType]
    BY <1>0, <1>8, <2>1, TxFields DEF Commit, TypeOK
  <2>6. known' \subseteq RowType /\ checked' \subseteq Mocks
    BY <1>0, <1>8, <2>1, TxFields DEF Commit, TypeOK
  <2>7. /\ at' = [at EXCEPT ![j] = at'[j]] /\ step' = [step EXCEPT ![j] = step'[j]]
        /\ at'[j] \in {at[j], "ensure_base"} /\ step'[j] \in {"none", "save"}
        /\ at[j] \in Results
        /\ step'[j] = "save" => at'[j] \in Results
        /\ UNCHANGED <<installed, base, mock, report, used>>
    BY <1>0, <1>8 DEF Commit, TypeOK, PlaceInv
  <2>8. TypeOK'
    <3>1. /\ at'[j] \in Results \cup {"idle", "ensure_base"} /\ step'[j] \in Steps
          /\ mock[j] \in Mocks \cup {NoMock} /\ used[j] \subseteq RowType
          /\ mock = [mock EXCEPT ![j] = mock[j]] /\ used = [used EXCEPT ![j] = used[j]]
      BY <1>0, <2>7 DEF TypeOK
    <3>2. base \subseteq RowType /\ report \in [Jobs -> [Names -> Releases]]
      BY <1>0 DEF TypeOK
    <3> QED BY <1>0, <2>4, <2>5, <2>6, <2>7, <3>1, <3>2, StepTyped
  <2>9. PlaceInv'
    BY <1>0, <2>1, <2>7 DEF TypeOK, PlaceInv
  <2> QED BY <2>8, <2>9 DEF Typed
<1>9. ASSUME NEW j \in Jobs, SaveResult(j) PROVE Typed'
  <2>1. Drop(j)
    BY <1>9 DEF SaveResult, Leave
  <2>2. tx' \in [Jobs -> TxType] /\ report' \in [Jobs -> [Names -> Releases]]
    BY <1>0, <2>1, DropTyped
  <2>3. tx[j].rows \subseteq RowType
    BY <1>0, TxFields DEF TypeOK
  <2>4. /\ at' = [at EXCEPT ![j] = at'[j]] /\ step' = [step EXCEPT ![j] = "none"]
        /\ at'[j] \in {"target", "idle"} /\ UNCHANGED <<installed, known, analyzers, checked>>
        /\ base' \subseteq RowType
        /\ mock' = [mock EXCEPT ![j] = mock'[j]]
        /\ mock'[j] = mock[j] \/ (mock'[j] = NoMock /\ at'[j] = "idle")
        /\ used' = [used EXCEPT ![j] = used'[j]] /\ used'[j] \subseteq RowType
    <3>1. CASE at[j] = "base"
      BY <1>0, <1>9, <2>3, <3>1 DEF SaveResult, TypeOK
    <3>2. CASE at[j] # "base"
      BY <1>0, <1>9, <3>2 DEF SaveResult, Leave, TypeOK
    <3> QED BY <3>1, <3>2
  <2>5. at[j] \in Results
    BY <1>0, <1>9 DEF SaveResult, PlaceInv
  <2>6. TypeOK'
    <3>1. /\ step'[j] = "none" /\ at'[j] \in Results \cup {"idle", "ensure_base"}
          /\ mock'[j] \in Mocks \cup {NoMock}
      BY <1>0, <2>4 DEF TypeOK
    <3>2. /\ known' \subseteq RowType /\ checked' \subseteq Mocks
          /\ analyzers' \in [Mocks -> SUBSET RowType]
      BY <1>0, <2>4 DEF TypeOK
    <3> QED BY <1>0, <2>2, <2>4, <3>1, <3>2, StepTyped
  <2>7. PlaceInv'
    BY <1>0, <2>4, <2>5 DEF TypeOK, PlaceInv
  <2> QED BY <2>6, <2>7 DEF Typed
<1>10. ASSUME NEW n \in Names, Upgrade(n) PROVE Typed'
  BY <1>0, <1>10 DEF Upgrade, Typed, TypeOK, PlaceInv
<1>11. ASSUME NEW m \in Mocks, Expire(m) PROVE Typed'
  <2>1. \A j \in Jobs : [tx[j] EXCEPT !.stamps = @ \ {m}] \in TxType
    BY <1>0, TxUpdates DEF TypeOK
  <2>2. tx' \in [Jobs -> TxType]
    BY <1>11, <2>1 DEF Expire
  <2> QED BY <1>0, <1>11, <2>2 DEF Expire, Typed, TypeOK, PlaceInv
<1>12. CASE UNCHANGED vars
  BY <1>0, <1>12 DEF vars, Typed, TypeOK, PlaceInv
<1> QED BY <1>1, <1>2, <1>3, <1>4, <1>5, <1>6, <1>7, <1>8, <1>9, <1>10, <1>11, <1>12
        DEF Next, Worker, Hub

-----------------------------------------------------------------------------
(* Fresh reports and fresh caches.                                         *)
Fresh == FreshInv /\ DiffedAlike

(* Whoever ends a step keeps what is fresh.                                *)
LEMMA EndFresh ==
  ASSUME IInv, NEW j \in Jobs, Drop(j), UNCHANGED <<installed, analyzers>>,
         step' = [step EXCEPT ![j] = "none"], at' = [at EXCEPT ![j] = at'[j]],
         used' = [used EXCEPT ![j] = used'[j]],
         \A k \in Jobs \ {j} : k \in stale => k \in stale',
         \A m \in Mocks : m \in stale => m \in stale',
         j \notin stale' =>
           \A r \in used'[j] : r.name \notin Loose => r.version = installed[r.name]
  PROVE  Fresh'
<1>0. TypeOK /\ FreshInv /\ DiffedAlike
  BY DEF IInv, Typed
<1>1. \A k \in Jobs \ {j} : /\ report'[k] = report[k] /\ tx'[k] = tx[k]
                            /\ step'[k] = step[k] /\ at'[k] = at[k] /\ used'[k] = used[k]
  BY <1>0 DEF Drop, TypeOK
<1>2. step'[j] = "none"
  BY <1>0 DEF TypeOK
<1>3. FreshInv'
  <2>1. \A k \in Jobs : step'[k] # "none" /\ k \notin stale' => report'[k] = installed'
    BY <1>0, <1>1, <1>2 DEF FreshInv
  <2>2. \A k \in Jobs : step'[k] \in {"created", "stamped", "save"} =>
          Covers(tx'[k].rows, report'[k]) /\ Agrees(tx'[k].rows, report'[k])
    BY <1>0, <1>1, <1>2 DEF FreshInv
  <2>3. \A m \in Mocks : m \notin stale' => Covers(analyzers'[m], installed')
    BY <1>0 DEF FreshInv
  <2> QED BY <2>1, <2>2, <2>3 DEF FreshInv, Covers, Agrees
<1>4. DiffedAlike'
  BY <1>0, <1>1, <1>2 DEF DiffedAlike
<1> QED BY <1>3, <1>4 DEF Fresh

LEMMA FailFresh ==
  ASSUME IInv, NEW j \in Jobs, step[j] # "none", Fail(j), UNCHANGED installed
  PROVE  Fresh'
<1>0. Typed /\ TypeOK
  BY DEF IInv, Typed
<1>1. /\ Drop(j) /\ UNCHANGED tables
      /\ at' = [at EXCEPT ![j] = at'[j]] /\ step' = [step EXCEPT ![j] = "none"]
      /\ used' = [used EXCEPT ![j] = {}] /\ stale' \in {stale, stale \ {j}}
  BY <1>0, FailEffects
<1>2. used' = [used EXCEPT ![j] = used'[j]] /\ used'[j] = {}
  BY <1>0, <1>1 DEF TypeOK
<1> QED BY <1>1, <1>2, EndFresh DEF tables

(* What stays fresh when a job j takes a step that ends none.              *)
LEMMA StepFresh ==
  ASSUME IInv, NEW j \in Jobs, UNCHANGED <<installed, analyzers>>,
         step' = [step EXCEPT ![j] = step'[j]], at' = [at EXCEPT ![j] = at'[j]],
         report' = [report EXCEPT ![j] = report'[j]],
         used' = [used EXCEPT ![j] = used'[j]], tx' = [tx EXCEPT ![j] = tx'[j]],
         \A k \in Jobs \ {j} : k \in stale => k \in stale',
         \A m \in Mocks : m \in stale => m \in stale',
         step'[j] # "none" /\ j \notin stale' => report'[j] = installed,
         step'[j] \in {"created", "stamped", "save"} =>
           Covers(tx'[j].rows, report'[j]) /\ Agrees(tx'[j].rows, report'[j]),
         at'[j] = "target" /\ step'[j] = "none" /\ j \notin stale' =>
           \A r \in used'[j] : r.name \notin Loose => r.version = installed[r.name]
  PROVE  Fresh'
<1>0. TypeOK /\ FreshInv /\ DiffedAlike
  BY DEF IInv, Typed
<1>1. \A k \in Jobs \ {j} : /\ report'[k] = report[k] /\ tx'[k] = tx[k]
                            /\ step'[k] = step[k] /\ at'[k] = at[k] /\ used'[k] = used[k]
  BY <1>0 DEF TypeOK
<1>2. \A k \in Jobs : step'[k] # "none" /\ k \notin stale' => report'[k] = installed'
  BY <1>0, <1>1 DEF FreshInv
<1>3. \A k \in Jobs : step'[k] \in {"created", "stamped", "save"} =>
        Covers(tx'[k].rows, report'[k]) /\ Agrees(tx'[k].rows, report'[k])
  BY <1>0, <1>1 DEF FreshInv
<1>4. \A m \in Mocks : m \notin stale' => Covers(analyzers'[m], installed')
  BY <1>0 DEF FreshInv
<1>5. FreshInv'
  BY <1>2, <1>3, <1>4 DEF FreshInv, Covers, Agrees
<1>6. DiffedAlike'
  BY <1>0, <1>1 DEF DiffedAlike
<1> QED BY <1>5, <1>6 DEF Fresh

(* A base that matches a cache which is not stale has its versions.        *)
LEMMA MatchedAlike ==
  ASSUME TypeOK, NEW m \in Mocks, Covers(analyzers[m], installed), Match(analyzers[m], base)
  PROVE  \A r \in base : r.name \notin Loose => r.version = installed[r.name]
<1> SUFFICES ASSUME NEW r \in base, r.name \notin Loose PROVE r.version = installed[r.name]
  OBVIOUS
<1>1. r.name \in Names
  BY DEF TypeOK, RowType
<1>2. PICK a \in analyzers[m] : a.name = r.name /\ a.version = installed[r.name]
  BY <1>1 DEF Covers
<1> QED BY <1>2 DEF Match

LEMMA CommitEffects ==
  ASSUME Typed, NEW j \in Jobs, Commit(j)
  PROVE  /\ mock[j] \in Mocks /\ step[j] = "stamped"
         /\ \A k \in Jobs \ {j} : at'[k] = at[k] /\ step'[k] = step[k]
         /\ at'[j] \in {at[j], "ensure_base"} /\ step'[j] \in {"none", "save"}
         /\ step'[j] = "none" => at'[j] = "ensure_base"
         /\ UNCHANGED <<installed, base, mock, report, used, overlaps>>
         /\ known' = known \cup tx[j].new /\ checked' = tx[j].stamps
         /\ \A m \in Mocks \ {mock[j]} : analyzers'[m] = analyzers[m]
         /\ tx[j].rows \subseteq analyzers'[mock[j]]
         /\ \A k \in Jobs \ {j} :
              tx'[k].rows = tx[k].rows /\ tx'[k].new = tx[k].new /\ tx'[k].stamps = tx[k].stamps
         /\ tx'[j].new = {} /\ (step'[j] = "save" => tx'[j].rows = tx[j].rows)
         /\ stale' = (IF j \in stale THEN stale \cup {mock[j]} ELSE stale \ {mock[j]})
<1>0. TypeOK /\ PlaceInv /\ step[j] = "stamped"
  BY DEF Typed, Commit
<1>1. mock[j] \in Mocks /\ at[j] \in Results
  BY <1>0 DEF PlaceInv
<1>2. /\ \A k \in Jobs \ {j} : at'[k] = at[k] /\ step'[k] = step[k]
      /\ at'[j] \in {at[j], "ensure_base"} /\ step'[j] \in {"none", "save"}
      /\ step'[j] = "none" => at'[j] = "ensure_base"
      /\ step'[j] = "save" => at[j] # "retriever"
  BY <1>0 DEF Commit, Goto, TypeOK
<1>3. /\ UNCHANGED <<installed, base, mock, report, used, overlaps>>
      /\ known' = known \cup tx[j].new /\ checked' = tx[j].stamps
      /\ stale' = (IF j \in stale THEN stale \cup {mock[j]} ELSE stale \ {mock[j]})
  BY DEF Commit
<1>4. /\ \A m \in Mocks \ {mock[j]} : analyzers'[m] = analyzers[m]
      /\ tx[j].rows \subseteq analyzers'[mock[j]]
  BY <1>0, <1>1 DEF Commit, TypeOK
<1>5. \A k \in Jobs \ {j} :
        tx'[k].rows = tx[k].rows /\ tx'[k].new = tx[k].new /\ tx'[k].stamps = tx[k].stamps
  BY <1>0 DEF Commit, TypeOK, TxType
<1>6. tx'[j] = IF at[j] = "retriever" THEN NoTx ELSE [NoTx EXCEPT !.rows = tx[j].rows]
  BY DEF Commit
<1>7. tx'[j].new = {} /\ (at[j] # "retriever" => tx'[j].rows = tx[j].rows)
  BY <1>6 DEF NoTx
<1> QED BY <1>0, <1>1, <1>2, <1>3, <1>4, <1>5, <1>7

LEMMA NextFresh == IInv /\ [Next]_vars => Fresh'
<1> SUFFICES ASSUME IInv, [Next]_vars PROVE Fresh'
  OBVIOUS
<1>0. TypeOK /\ PlaceInv /\ FreshInv /\ DiffedAlike /\ Typed
  BY DEF IInv, Typed
<1>1. ASSUME NEW j \in Jobs, NEW m \in Mocks, ensure_cache(j, m) PROVE Fresh'
  <2>1. /\ step' = [step EXCEPT ![j] = step'[j]] /\ at' = [at EXCEPT ![j] = at'[j]]
        /\ step'[j] = "none" /\ at'[j] # "target"
        /\ UNCHANGED <<installed, analyzers, report, used, tx, stale>>
    BY <1>0, <1>1 DEF ensure_cache, Goto, TypeOK, tables
  <2>2. /\ report' = [report EXCEPT ![j] = report'[j]]
        /\ used' = [used EXCEPT ![j] = used'[j]] /\ tx' = [tx EXCEPT ![j] = tx'[j]]
    BY <1>0, <2>1 DEF TypeOK
  <2> QED BY <2>1, <2>2, StepFresh
<1>2. ASSUME NEW j \in Jobs, Analyze(j) PROVE Fresh'
  <2>1. /\ step' = [step EXCEPT ![j] = step'[j]] /\ at' = [at EXCEPT ![j] = at'[j]]
        /\ step'[j] \in {"update", "results"} /\ report' = [report EXCEPT ![j] = installed]
        /\ UNCHANGED <<installed, analyzers, used, tx>> /\ stale' = stale \ {j}
    BY <1>0, <1>2 DEF Analyze, Goto, TypeOK, tables
  <2>2. /\ report' = [report EXCEPT ![j] = report'[j]] /\ report'[j] = installed
        /\ used' = [used EXCEPT ![j] = used'[j]] /\ tx' = [tx EXCEPT ![j] = tx'[j]]
    BY <1>0, <2>1 DEF TypeOK
  <2> QED BY <2>1, <2>2, StepFresh
<1>3. ASSUME NEW j \in Jobs, ensure_base(j) PROVE Fresh'
  <2> DEFINE cached == base # {} /\ Match(analyzers[mock[j]], base)
  <2>1. /\ step' = [step EXCEPT ![j] = "none"]
        /\ at' = [at EXCEPT ![j] = IF cached THEN "target" ELSE "base"]
        /\ used' = [used EXCEPT ![j] = IF cached THEN base ELSE {}]
        /\ stale' = (IF mock[j] \in stale THEN stale \cup {j} ELSE stale \ {j})
        /\ UNCHANGED <<installed, analyzers, report, tx>>
        /\ at[j] = "ensure_base"
    BY <1>3 DEF ensure_base, Goto, tables
  <2> HIDE DEF cached
  <2>2. mock[j] \in Mocks
    BY <1>0, <2>1 DEF PlaceInv
  <2>3. cached /\ mock[j] \notin stale =>
          \A r \in base : r.name \notin Loose => r.version = installed[r.name]
    BY <1>0, <2>2, MatchedAlike DEF FreshInv, cached
  <2>4. /\ report' = [report EXCEPT ![j] = report'[j]] /\ at' = [at EXCEPT ![j] = at'[j]]
        /\ used' = [used EXCEPT ![j] = used'[j]] /\ tx' = [tx EXCEPT ![j] = tx'[j]]
        /\ step' = [step EXCEPT ![j] = step'[j]] /\ step'[j] = "none"
        /\ at'[j] = (IF cached THEN "target" ELSE "base")
        /\ used'[j] = (IF cached THEN base ELSE {})
    BY <1>0, <2>1 DEF TypeOK
  <2>5. at'[j] = "target" /\ step'[j] = "none" /\ j \notin stale' =>
          \A r \in used'[j] : r.name \notin Loose => r.version = installed[r.name]
    BY <2>1, <2>3, <2>4
  <2> QED BY <2>1, <2>4, <2>5, StepFresh
<1>4. ASSUME NEW j \in Jobs, set_analyzers(j) PROVE Fresh'
  <2>1. CASE Multiple(j)
    BY <1>4, <2>1, FailFresh DEF set_analyzers
  <2>2. CASE ~Multiple(j)
    <3>1. /\ at' = [at EXCEPT ![j] = at[j]] /\ step' = [step EXCEPT ![j] = "created"]
          /\ tx' = [tx EXCEPT ![j] = [tx[j] EXCEPT !.rows = Found(j) \cup Created(j),
                                                   !.new = Created(j)]]
          /\ UNCHANGED <<installed, analyzers, report, used, stale>> /\ step[j] = "results"
      BY <1>4, <2>2 DEF set_analyzers, Goto, tables
    <3>2. /\ report' = [report EXCEPT ![j] = report'[j]] /\ at' = [at EXCEPT ![j] = at'[j]]
          /\ used' = [used EXCEPT ![j] = used'[j]] /\ tx' = [tx EXCEPT ![j] = tx'[j]]
          /\ step' = [step EXCEPT ![j] = step'[j]] /\ step'[j] = "created"
          /\ tx'[j].rows = Found(j) \cup Created(j) /\ report'[j] = report[j]
      BY <1>0, <3>1 DEF TypeOK, TxType
    <3>3. Covers(tx'[j].rows, report'[j]) /\ Agrees(tx'[j].rows, report'[j])
      BY <1>0, <3>2, Looked
    <3>4. j \notin stale' => report'[j] = installed
      BY <1>0, <3>1, <3>2 DEF FreshInv
    <3> QED BY <3>1, <3>2, <3>3, <3>4, StepFresh
  <2> QED BY <2>1, <2>2
<1>5. ASSUME NEW j \in Jobs, CommitCreated(j) PROVE Fresh'
  <2>1. /\ at' = [at EXCEPT ![j] = at[j]] /\ step' = [step EXCEPT ![j] = "update"]
        /\ tx' = [tx EXCEPT ![j] = [tx[j] EXCEPT !.new = {}]]
        /\ UNCHANGED <<installed, analyzers, report, used, stale>> /\ step[j] = "created"
    BY <1>5 DEF CommitCreated, Goto
  <2>2. /\ report' = [report EXCEPT ![j] = report'[j]] /\ at' = [at EXCEPT ![j] = at'[j]]
        /\ used' = [used EXCEPT ![j] = used'[j]] /\ tx' = [tx EXCEPT ![j] = tx'[j]]
        /\ step' = [step EXCEPT ![j] = step'[j]] /\ step'[j] = "update"
        /\ report'[j] = report[j]
    BY <1>0, <2>1 DEF TypeOK
  <2>3. j \notin stale' => report'[j] = installed
    BY <1>0, <2>1, <2>2 DEF FreshInv
  <2> QED BY <2>1, <2>2, <2>3, StepFresh
<1>6. ASSUME NEW j \in Jobs, Clear(j) PROVE Fresh'
  <2>1. /\ at' = [at EXCEPT ![j] = at[j]] /\ step' = [step EXCEPT ![j] = "cleared"]
        /\ tx' = [tx EXCEPT ![j] = [tx[j] EXCEPT !.gone = analyzers[mock[j]]]]
        /\ UNCHANGED <<installed, analyzers, report, used, stale>> /\ step[j] = "update"
    BY <1>6 DEF Clear, Goto, tables
  <2>2. /\ report' = [report EXCEPT ![j] = report'[j]] /\ at' = [at EXCEPT ![j] = at'[j]]
        /\ used' = [used EXCEPT ![j] = used'[j]] /\ tx' = [tx EXCEPT ![j] = tx'[j]]
        /\ step' = [step EXCEPT ![j] = step'[j]] /\ step'[j] = "cleared"
        /\ report'[j] = report[j]
    BY <1>0, <2>1 DEF TypeOK
  <2>3. j \notin stale' => report'[j] = installed
    BY <1>0, <2>1, <2>2 DEF FreshInv
  <2> QED BY <2>1, <2>2, <2>3, StepFresh
<1>7. ASSUME NEW j \in Jobs, Look(j) PROVE Fresh'
  <2>1. CASE Multiple(j)
    BY <1>7, <2>1, FailFresh DEF Look
  <2>2. CASE ~Multiple(j)
    <3>1. /\ at' = [at EXCEPT ![j] = at[j]] /\ step' = [step EXCEPT ![j] = "stamped"]
          /\ tx' = [tx EXCEPT ![j] = [tx[j] EXCEPT !.rows = Found(j) \cup Created(j),
                                                   !.new = Created(j), !.stamps = Stamps(j)]]
          /\ UNCHANGED <<installed, analyzers, report, used, stale>> /\ step[j] = "cleared"
      BY <1>7, <2>2 DEF Look, Goto, tables
    <3>2. /\ report' = [report EXCEPT ![j] = report'[j]] /\ at' = [at EXCEPT ![j] = at'[j]]
          /\ used' = [used EXCEPT ![j] = used'[j]] /\ tx' = [tx EXCEPT ![j] = tx'[j]]
          /\ step' = [step EXCEPT ![j] = step'[j]] /\ step'[j] = "stamped"
          /\ tx'[j].rows = Found(j) \cup Created(j) /\ report'[j] = report[j]
      BY <1>0, <3>1 DEF TypeOK, TxType
    <3>3. Covers(tx'[j].rows, report'[j]) /\ Agrees(tx'[j].rows, report'[j])
      BY <1>0, <3>2, Looked
    <3>4. j \notin stale' => report'[j] = installed
      BY <1>0, <3>1, <3>2 DEF FreshInv
    <3> QED BY <3>1, <3>2, <3>3, <3>4, StepFresh
  <2> QED BY <2>1, <2>2
<1>8. ASSUME NEW j \in Jobs, Commit(j) PROVE Fresh'
  <2> DEFINE m == mock[j]
  <2>1. /\ m \in Mocks /\ step[j] = "stamped"
        /\ \A k \in Jobs \ {j} : at'[k] = at[k] /\ step'[k] = step[k]
        /\ step'[j] \in {"none", "save"} /\ (step'[j] = "none" => at'[j] = "ensure_base")
        /\ UNCHANGED <<installed, report, used>>
        /\ \A l \in Mocks \ {m} : analyzers'[l] = analyzers[l]
        /\ tx[j].rows \subseteq analyzers'[m]
        /\ \A k \in Jobs \ {j} : tx'[k].rows = tx[k].rows
        /\ step'[j] = "save" => tx'[j].rows = tx[j].rows
        /\ stale' = (IF j \in stale THEN stale \cup {m} ELSE stale \ {m})
    BY <1>0, <1>8, CommitEffects
  <2> HIDE DEF m
  <2>2. \A k \in Jobs : k \in stale' <=> k \in stale
    BY <2>1
  <2>3. \A k \in Jobs : step'[k] # "none" /\ k \notin stale' => report'[k] = installed'
    BY <1>0, <2>1, <2>2 DEF FreshInv
  <2>4. \A k \in Jobs : step'[k] \in {"created", "stamped", "save"} =>
          Covers(tx'[k].rows, report'[k]) /\ Agrees(tx'[k].rows, report'[k])
    BY <1>0, <2>1 DEF FreshInv
  <2>5. ASSUME NEW l \in Mocks, l \notin stale' PROVE Covers(analyzers'[l], installed')
    <3>1. CASE l = m
      <4>1. j \notin stale /\ report[j] = installed /\ Covers(tx[j].rows, report[j])
        BY <1>0, <2>1, <2>5, <3>1 DEF FreshInv
      <4> QED BY <2>1, <3>1, <4>1 DEF Covers
    <3>2. CASE l # m
      BY <1>0, <2>1, <2>5, <3>2 DEF FreshInv
    <3> QED BY <3>1, <3>2
  <2>6. FreshInv'
    BY <2>3, <2>4, <2>5 DEF FreshInv, Covers, Agrees
  <2>7. DiffedAlike'
    BY <1>0, <2>1, <2>2 DEF DiffedAlike
  <2> QED BY <2>6, <2>7 DEF Fresh
<1>9. ASSUME NEW j \in Jobs, SaveResult(j) PROVE Fresh'
  <2>1. /\ Drop(j) /\ UNCHANGED <<installed, analyzers>> /\ step[j] = "save"
        /\ step' = [step EXCEPT ![j] = "none"] /\ at' = [at EXCEPT ![j] = at'[j]]
        /\ used' = [used EXCEPT ![j] = used'[j]] /\ used'[j] \in {tx[j].rows, {}}
        /\ stale' \in {stale \cup {"base"}, stale \ {"base"}, stale \ {j}}
        /\ used'[j] = {} \/ stale' \in {stale \cup {"base"}, stale \ {"base"}}
    <3>1. CASE at[j] = "base"
      BY <1>0, <1>9, <3>1 DEF SaveResult, Goto, TypeOK
    <3>2. CASE at[j] # "base"
      BY <1>0, <1>9, <3>2 DEF SaveResult, Leave, Goto, TypeOK
    <3> QED BY <3>1, <3>2
  <2>2. \A k \in Jobs \ {j} : k \in stale => k \in stale'
    BY <2>1
  <2>3. \A m \in Mocks : m \in stale => m \in stale'
    BY <2>1
  <2>4. ASSUME j \notin stale', NEW r \in used'[j], r.name \notin Loose
        PROVE  r.version = installed[r.name]
    <3>1. used'[j] = tx[j].rows /\ j \notin stale
      BY <2>1, <2>4
    <3>2. Agrees(tx[j].rows, report[j]) /\ report[j] = installed
      BY <1>0, <2>1, <3>1 DEF FreshInv
    <3> QED BY <2>4, <3>1, <3>2 DEF Agrees
  <2> QED BY <2>1, <2>2, <2>3, <2>4, EndFresh
<1>10. ASSUME NEW n \in Names, Upgrade(n) PROVE Fresh'
  <2>1. /\ UNCHANGED <<analyzers, at, step, report, used, tx>>
        /\ stale' = Mocks \cup {"base"} \cup {j \in Jobs : mock[j] # NoMock}
    BY <1>10 DEF Upgrade, tables
  <2>2. \A j \in Jobs : at[j] # "idle" => j \in stale'
    BY <1>0, <2>1 DEF PlaceInv
  <2>3. \A j \in Jobs : step[j] # "none" => at[j] # "idle"
    BY <1>0 DEF PlaceInv
  <2>4. FreshInv'
    BY <1>0, <2>1, <2>2, <2>3 DEF FreshInv, Covers, Agrees
  <2>5. DiffedAlike'
    BY <2>1, <2>2 DEF DiffedAlike
  <2> QED BY <2>4, <2>5 DEF Fresh
<1>11. ASSUME NEW m \in Mocks, Expire(m) PROVE Fresh'
  <2>1. /\ UNCHANGED <<installed, analyzers, at, step, report, used, stale>>
        /\ \A j \in Jobs : tx'[j].rows = tx[j].rows
    BY <1>0, <1>11 DEF Expire, TypeOK, TxType
  <2>2. FreshInv'
    BY <1>0, <2>1 DEF FreshInv, Covers, Agrees
  <2>3. DiffedAlike'
    BY <1>0, <2>1 DEF DiffedAlike
  <2> QED BY <2>2, <2>3 DEF Fresh
<1>12. CASE UNCHANGED vars
  BY <1>0, <1>12 DEF vars, tables, Fresh, FreshInv, DiffedAlike, Covers, Agrees
<1> QED BY <1>1, <1>2, <1>3, <1>4, <1>5, <1>6, <1>7, <1>8, <1>9, <1>10, <1>11, <1>12
        DEF Next, Worker, Hub

-----------------------------------------------------------------------------
(* Versions that are there once, and the times of the refreshes.           *)
Kept == UniqueInv /\ StampInv

(* What a job j keeps that ends a step, or takes one that adds no row.     *)
LEMMA StepKept ==
  ASSUME Typed, Kept, NEW j \in Jobs, known' = known, checked' \subseteq checked,
         \A k \in Jobs : step'[k] = "stamped" => step[k] = "stamped",
         \A k \in Jobs : tx'[k].new \subseteq tx[k].new,
         \A k \in Jobs : step'[k] = "stamped" =>
                           \A m \in checked' : m \in tx[k].stamps => m \in tx'[k].stamps,
         overlaps \subseteq overlaps'
  PROVE  Kept'
<1>1. UniqueInv'
  <2>1. SUFFICES ASSUME "create" \notin overlaps' PROVE UniqueInv'
    BY DEF UniqueInv
  <2>2. "create" \notin overlaps
    BY <2>1
  <2> QED BY <2>2 DEF Kept, UniqueInv, Same
<1>2. StampInv'
  <2>1. SUFFICES ASSUME "stamp" \notin overlaps' PROVE StampInv'
    BY DEF StampInv
  <2>2. "stamp" \notin overlaps
    BY <2>1
  <2> QED BY <2>2 DEF Kept, StampInv
<1> QED BY <1>1, <1>2 DEF Kept

(* What it keeps when its transaction looked for its rows.                 *)
LEMMA LookKept ==
  ASSUME Typed, UniqueInv, NEW j \in Jobs, known' = known,
         tx'[j].new = Created(j), \A k \in Jobs \ {j} : tx'[k].new = tx[k].new,
         overlaps \cup {k \in {"create"} : \E i \in Jobs \ {j} : SameNew(j, i)}
           \subseteq overlaps'
  PROVE  UniqueInv'
<1>0. TypeOK
  BY DEF Typed
<1>1. SUFFICES ASSUME "create" \notin overlaps' PROVE UniqueInv'
  BY DEF UniqueInv
<1>2. "create" \notin overlaps /\ \A i \in Jobs \ {j} : ~SameNew(j, i)
  BY <1>1
<1>3. \A i \in Jobs \ {j} : \A r \in tx'[j].new, q \in tx'[i].new : ~Same(r, q)
  BY <1>2 DEF SameNew, Same
<1>4. /\ \A r \in Created(j) : \A q \in known : ~Same(r, q)
      /\ \A r, q \in Created(j) : Same(r, q) => r = q
  BY <1>0, Looked
<1>5. \A r, q \in known' : Same(r, q) => r = q
  BY <1>2 DEF UniqueInv
<1>6. \A k \in Jobs : \A r \in tx'[k].new : \A q \in known' : ~Same(r, q)
  BY <1>2, <1>4 DEF UniqueInv
<1>7. \A k \in Jobs : \A r, q \in tx'[k].new : Same(r, q) => r = q
  BY <1>2, <1>4 DEF UniqueInv
<1>8. \A i, k \in Jobs : \A r \in tx'[i].new, q \in tx'[k].new : Same(r, q) => i = k
  BY <1>2, <1>3 DEF UniqueInv, Same
<1> QED BY <1>5, <1>6, <1>7, <1>8 DEF UniqueInv, Same

(* What it keeps when its new rows are committed.                          *)
LEMMA InsertKept ==
  ASSUME UniqueInv, NEW j \in Jobs, known' = known \cup tx[j].new,
         tx'[j].new = {}, \A k \in Jobs \ {j} : tx'[k].new = tx[k].new,
         overlaps' = overlaps
  PROVE  UniqueInv'
<1>1. SUFFICES ASSUME "create" \notin overlaps PROVE UniqueInv'
  BY DEF UniqueInv
<1>2. \A r, q \in known' : Same(r, q) => r = q
  BY <1>1 DEF UniqueInv, Same
<1>3. \A k \in Jobs : \A r \in tx'[k].new : \A q \in known' : ~Same(r, q)
  BY <1>1 DEF UniqueInv
<1>4. \A k \in Jobs : \A r, q \in tx'[k].new : Same(r, q) => r = q
  BY <1>1 DEF UniqueInv
<1>5. \A i, k \in Jobs : \A r \in tx'[i].new, q \in tx'[k].new : Same(r, q) => i = k
  BY <1>1 DEF UniqueInv
<1> QED BY <1>2, <1>3, <1>4, <1>5 DEF UniqueInv, Same

LEMMA DropKept ==
  ASSUME Typed, Kept, NEW j \in Jobs, Drop(j), step' = [step EXCEPT ![j] = "none"],
         UNCHANGED <<known, checked, overlaps>>
  PROVE  Kept'
<1>1. \A k \in Jobs \ {j} : tx'[k] = tx[k] /\ step'[k] = step[k]
  BY DEF Drop, Typed, TypeOK
<1>2. tx'[j].new = {} /\ step'[j] = "none"
  BY DEF Drop, NoTx, Typed, TypeOK
<1>3. \A k \in Jobs : step'[k] = "stamped" => step[k] = "stamped" /\ tx'[k] = tx[k]
  BY <1>1, <1>2
<1>4. \A k \in Jobs : tx'[k].new \subseteq tx[k].new
  BY <1>1, <1>2
<1> QED BY <1>3, <1>4, StepKept

LEMMA NextKept == IInv /\ [Next]_vars => Kept'
<1> SUFFICES ASSUME IInv, [Next]_vars PROVE Kept'
  OBVIOUS
<1>0. TypeOK /\ PlaceInv /\ Typed /\ Kept /\ UniqueInv /\ StampInv
  BY DEF IInv, Typed, Kept
<1>1. ASSUME NEW j \in Jobs, NEW m \in Mocks, ensure_cache(j, m) PROVE Kept'
  <2>1. /\ UNCHANGED <<known, checked, tx, overlaps>>
        /\ \A k \in Jobs : step'[k] = "stamped" => step[k] = "stamped"
    BY <1>0, <1>1 DEF ensure_cache, Goto, tables, TypeOK
  <2> QED BY <1>0, <2>1, StepKept
<1>2. ASSUME NEW j \in Jobs, Analyze(j) PROVE Kept'
  <2>1. /\ UNCHANGED <<known, checked, tx, overlaps>>
        /\ \A k \in Jobs : step'[k] = "stamped" => step[k] = "stamped"
    BY <1>0, <1>2 DEF Analyze, Goto, tables, TypeOK
  <2> QED BY <1>0, <2>1, StepKept
<1>3. ASSUME NEW j \in Jobs, ensure_base(j) PROVE Kept'
  <2>1. /\ UNCHANGED <<known, checked, tx, overlaps>>
        /\ \A k \in Jobs : step'[k] = "stamped" => step[k] = "stamped"
    BY <1>0, <1>3 DEF ensure_base, Goto, tables, TypeOK
  <2> QED BY <1>0, <2>1, StepKept
<1>f. ASSUME NEW j \in Jobs, step[j] # "none", Fail(j) PROVE Kept'
  <2>1. /\ Drop(j) /\ step' = [step EXCEPT ![j] = "none"]
        /\ UNCHANGED <<known, checked, overlaps>>
    BY <1>0, <1>f, FailEffects DEF tables
  <2> QED BY <1>0, <2>1, DropKept
<1>4. ASSUME NEW j \in Jobs, set_analyzers(j) PROVE Kept'
  <2>1. CASE Multiple(j)
    BY <1>4, <1>f, <2>1 DEF set_analyzers
  <2>2. CASE ~Multiple(j)
    <3>1. /\ step' = [step EXCEPT ![j] = "created"]
          /\ tx' = [tx EXCEPT ![j] = [tx[j] EXCEPT !.rows = Found(j) \cup Created(j),
                                                   !.new = Created(j)]]
          /\ UNCHANGED <<known, checked>>
          /\ overlaps' = overlaps \cup {k \in {"create"} : \E i \in Jobs \ {j} : SameNew(j, i)}
      BY <1>4, <2>2 DEF set_analyzers, Goto, tables
    <3>2. /\ tx'[j].new = Created(j) /\ \A k \in Jobs \ {j} : tx'[k] = tx[k]
          /\ \A k \in Jobs : step'[k] = "stamped" => step[k] = "stamped" /\ k # j
      BY <1>0, <3>1 DEF TypeOK, TxType
    <3>3. UniqueInv'
      BY <1>0, <3>1, <3>2, LookKept
    <3>4. StampInv'
      BY <1>0, <3>1, <3>2 DEF StampInv
    <3> QED BY <3>3, <3>4 DEF Kept
  <2> QED BY <2>1, <2>2
<1>5. ASSUME NEW j \in Jobs, CommitCreated(j) PROVE Kept'
  <2>1. /\ step' = [step EXCEPT ![j] = "update"]
        /\ tx' = [tx EXCEPT ![j] = [tx[j] EXCEPT !.new = {}]]
        /\ UNCHANGED <<checked, overlaps>> /\ known' = known \cup tx[j].new
    BY <1>5 DEF CommitCreated, Goto
  <2>2. /\ tx'[j].new = {} /\ \A k \in Jobs \ {j} : tx'[k] = tx[k]
        /\ \A k \in Jobs : step'[k] = "stamped" => step[k] = "stamped" /\ k # j
    BY <1>0, <2>1 DEF TypeOK, TxType
  <2>3. UniqueInv'
    BY <1>0, <2>1, <2>2, InsertKept
  <2>4. StampInv'
    BY <1>0, <2>1, <2>2 DEF StampInv
  <2> QED BY <2>3, <2>4 DEF Kept
<1>6. ASSUME NEW j \in Jobs, Clear(j) PROVE Kept'
  <2>1. /\ step' = [step EXCEPT ![j] = "cleared"]
        /\ tx' = [tx EXCEPT ![j] = [tx[j] EXCEPT !.gone = analyzers[mock[j]]]]
        /\ UNCHANGED <<known, checked>> /\ overlaps \subseteq overlaps'
    BY <1>6 DEF Clear, Goto, tables
  <2>2. /\ \A k \in Jobs : tx'[k].new = tx[k].new /\ tx'[k].stamps = tx[k].stamps
        /\ \A k \in Jobs : step'[k] = "stamped" => step[k] = "stamped"
    BY <1>0, <2>1 DEF TypeOK, TxType
  <2> QED BY <1>0, <2>1, <2>2, StepKept
<1>7. ASSUME NEW j \in Jobs, Look(j) PROVE Kept'
  <2>1. CASE Multiple(j)
    BY <1>7, <1>f, <2>1 DEF Look
  <2>2. CASE ~Multiple(j)
    <3>1. /\ step' = [step EXCEPT ![j] = "stamped"]
          /\ tx' = [tx EXCEPT ![j] = [tx[j] EXCEPT !.rows = Found(j) \cup Created(j),
                                                   !.new = Created(j), !.stamps = Stamps(j)]]
          /\ UNCHANGED <<known, checked>>
          /\ overlaps' = overlaps
               \cup {k \in {"create"} : \E i \in Jobs \ {j} : SameNew(j, i)}
               \cup {k \in {"stamp"} : \E i \in Jobs \ {j} : step[i] = "stamped"}
      BY <1>7, <2>2 DEF Look, Goto, tables
    <3>2. /\ tx'[j].new = Created(j) /\ tx'[j].stamps = Stamps(j)
          /\ \A k \in Jobs \ {j} : tx'[k] = tx[k] /\ step'[k] = step[k]
      BY <1>0, <3>1 DEF TypeOK, TxType
    <3>3. UniqueInv'
      BY <1>0, <3>1, <3>2, LookKept
    <3>4. StampInv'
      BY <1>0, <3>1, <3>2 DEF StampInv, Stamps
    <3> QED BY <3>3, <3>4 DEF Kept
  <2> QED BY <2>1, <2>2
<1>8. ASSUME NEW j \in Jobs, Commit(j) PROVE Kept'
  <2>1. /\ step[j] = "stamped" /\ step'[j] # "stamped"
        /\ \A k \in Jobs \ {j} : step'[k] = step[k]
        /\ overlaps' = overlaps /\ known' = known \cup tx[j].new /\ checked' = tx[j].stamps
        /\ \A k \in Jobs \ {j} : tx'[k].new = tx[k].new /\ tx'[k].stamps = tx[k].stamps
        /\ tx'[j].new = {}
    BY <1>0, <1>8, CommitEffects
  <2>2. UniqueInv'
    BY <1>0, <2>1, InsertKept
  <2>3. StampInv'
    BY <1>0, <2>1 DEF StampInv
  <2> QED BY <2>2, <2>3 DEF Kept
<1>9. ASSUME NEW j \in Jobs, SaveResult(j) PROVE Kept'
  <2>1. /\ Drop(j) /\ step' = [step EXCEPT ![j] = "none"]
        /\ UNCHANGED <<known, checked, overlaps>>
    BY <1>9 DEF SaveResult, Leave, Goto
  <2> QED BY <1>0, <2>1, DropKept
<1>10. ASSUME NEW n \in Names, Upgrade(n) PROVE Kept'
  BY <1>0, <1>10 DEF Upgrade, tables, Kept, UniqueInv, StampInv, Same
<1>11. ASSUME NEW m \in Mocks, Expire(m) PROVE Kept'
  <2>1. /\ UNCHANGED <<known, step, overlaps>> /\ checked' = checked \ {m}
        /\ \A k \in Jobs : tx'[k].new = tx[k].new /\ tx'[k].stamps = tx[k].stamps \ {m}
    BY <1>0, <1>11 DEF Expire, TypeOK, TxType
  <2>2. UniqueInv'
    BY <1>0, <2>1 DEF UniqueInv, Same
  <2>3. StampInv'
    BY <1>0, <2>1 DEF StampInv
  <2> QED BY <2>2, <2>3 DEF Kept
<1>12. CASE UNCHANGED vars
  BY <1>0, <1>12 DEF vars, tables, Kept, UniqueInv, StampInv, Same
<1> QED BY <1>1, <1>2, <1>3, <1>4, <1>5, <1>6, <1>7, <1>8, <1>9, <1>10, <1>11, <1>12
        DEF Next, Worker, Hub

-----------------------------------------------------------------------------
(* Every reachable state satisfies the inductive invariant.                *)
THEOREM Inductive == Spec => []IInv
<1>1. IInv /\ [Next]_vars => IInv'
  <2> SUFFICES ASSUME IInv, [Next]_vars PROVE IInv'
    OBVIOUS
  <2>1. Typed' /\ Fresh' /\ Kept'
    BY NextTyped, NextFresh, NextKept
  <2> QED BY <2>1 DEF IInv, Fresh, Kept
<1> QED BY <1>1, InitIInv, PTL DEF Spec

(* Whatever overlaps, what a target is compared with was scanned by the    *)
(* versions it is scanned by, unless one was installed in between: what    *)
(* ensure_base_is_scanned_properly promises.                               *)
THEOREM AlwaysDiffedAlike == Spec => []DiffedAlike
<1>1. IInv => DiffedAlike
  BY DEF IInv
<1> QED BY <1>1, Inductive, PTL

(* Without two transactions that insert one version, get() of              *)
(* AnalyzerVersionManager finds one row at most and results can be loaded. *)
THEOREM LoadsAlwaysWork == Spec => []LoadsWork
<1>1. IInv => LoadsWork
  <2> SUFFICES ASSUME IInv, "create" \notin overlaps, NEW j \in Jobs PROVE ~Multiple(j)
    BY DEF LoadsWork
  <2>1. \A r, q \in known : Same(r, q) => r = q
    BY DEF IInv, UniqueInv
  <2> QED BY <2>1 DEF Multiple, Found, Same
<1> QED BY <1>1, Inductive, PTL

(* A step forgets no refresh but by the clock, unless two transactions     *)
(* read ANALYZERS_VERSIONS_LAST_CHECKED before either saved it.            *)
THEOREM StampsAlwaysStay == Spec => StampsStay
<1>1. IInv /\ [Next]_vars =>
        [\/ checked \subseteq checked'
         \/ \E m \in Mocks : Expire(m)
         \/ "stamp" \in overlaps']_vars
  <2> SUFFICES ASSUME IInv, Next, ~\E m \in Mocks : Expire(m), "stamp" \notin overlaps'
               PROVE  checked \subseteq checked'
    OBVIOUS
  <2>0. Typed /\ StampInv
    BY DEF IInv
  <2>1. ASSUME NEW j \in Jobs, Commit(j) PROVE checked \subseteq checked'
    <3>1. step[j] = "stamped" /\ checked' = tx[j].stamps /\ overlaps' = overlaps
      BY <2>0, <2>1, CommitEffects
    <3> QED BY <2>0, <3>1 DEF StampInv
  <2>2. ASSUME NEW j \in Jobs, Worker(j) PROVE checked' = checked
    BY <2>2 DEF Worker, Analyze, ensure_base, ensure_cache, tables
  <2>3. ASSUME NEW j \in Jobs, set_analyzers(j) \/ CommitCreated(j) \/ Clear(j) \/ Look(j)
                                 \/ SaveResult(j)
        PROVE  checked' = checked
    BY <2>3 DEF set_analyzers, CommitCreated, Clear, Look, SaveResult, Fail, tables
  <2>4. ASSUME NEW n \in Names, Upgrade(n) PROVE checked' = checked
    BY <2>4 DEF Upgrade, tables
  <2> QED BY <2>1, <2>2, <2>3, <2>4 DEF Next, Hub
<1> QED BY <1>1, Inductive, PTL DEF Spec, StampsStay

-----------------------------------------------------------------------------
(* A base that need not be scanned again.                                  *)
(*                                                                         *)
(* Rows of known are there once, so a mock and a base that both say of     *)
(* every analyzer the installed version, and nothing else, hold the same   *)
(* rows: analyzers_match need not count them.                              *)

Updating(j) == step[j] \in {"cleared", "stamped"}

(* Whatever a transaction or a table refers to is there, or is its own.    *)
KnownInv ==
  /\ base \subseteq known /\ \A m \in Mocks : analyzers[m] \subseteq known
  /\ \A j \in Jobs : tx[j].rows \subseteq known \cup tx[j].new
  /\ \A j \in Jobs : step[j] = "save" => tx[j].new = {}

(* One refresh of a mock at a time deletes all that is there.              *)
UpdateInv ==
  "update" \notin overlaps =>
    /\ \A j \in Jobs : Updating(j) => tx[j].gone = analyzers[mock[j]]
    /\ \A j, k \in Jobs : Updating(j) /\ Updating(k) /\ mock[j] = mock[k] => j = k

ExactInv ==
  /\ "base" \notin stale => Covers(base, installed) /\ Agrees(base, installed)
  /\ "update" \notin overlaps =>
       \A m \in Mocks : m \notin stale => Agrees(analyzers[m], installed)

SameInv == KnownInv /\ UpdateInv /\ ExactInv

(* What stays when a job j takes a step that commits no refresh and saves  *)
(* no result.                                                              *)
LEMMA StepSame ==
  ASSUME SameInv, NEW j \in Jobs, UNCHANGED <<installed, analyzers, base>>,
         known \subseteq known', overlaps \subseteq overlaps',
         \A k \in Jobs \ {j} : tx'[k] = tx[k] /\ step'[k] = step[k] /\ mock'[k] = mock[k],
         \A x \in Mocks \cup {"base"} : x \in stale => x \in stale',
         tx'[j].rows \subseteq known' \cup tx'[j].new, step'[j] # "save",
         Updating(j)' /\ "update" \notin overlaps' =>
           /\ tx'[j].gone = analyzers[mock'[j]]
           /\ \A k \in Jobs \ {j} : Updating(k) => mock[k] # mock'[j]
  PROVE  SameInv'
<1>1. KnownInv'
  BY DEF SameInv, KnownInv
<1>2. UpdateInv'
  BY DEF SameInv, UpdateInv, Updating
<1>3. ExactInv'
  BY DEF SameInv, ExactInv, Covers, Agrees
<1> QED BY <1>1, <1>2, <1>3 DEF SameInv

LEMMA FailSame ==
  ASSUME IInv, SameInv, NEW j \in Jobs, step[j] # "none", Fail(j), UNCHANGED installed
  PROVE  SameInv'
<1>0. Typed /\ TypeOK
  BY DEF IInv, Typed
<1>1. /\ Drop(j) /\ UNCHANGED <<tables, overlaps>> /\ step' = [step EXCEPT ![j] = "none"]
      /\ mock' = [mock EXCEPT ![j] = mock'[j]] /\ stale' \in {stale, stale \ {j}}
  BY <1>0, FailEffects
<1>2. /\ \A k \in Jobs \ {j} : tx'[k] = tx[k] /\ step'[k] = step[k] /\ mock'[k] = mock[k]
      /\ step'[j] = "none" /\ tx'[j] = NoTx
  BY <1>0, <1>1 DEF TypeOK, Drop
<1>3. tx'[j].rows = {} /\ ~Updating(j)'
  BY <1>2 DEF NoTx, Updating
<1> QED BY <1>1, <1>2, <1>3, StepSame DEF tables

(* What Commit does to the rows.                                           *)
LEMMA CommitRows ==
  ASSUME Typed, NEW j \in Jobs, Commit(j)
  PROVE  /\ analyzers'[mock[j]] = (analyzers[mock[j]] \ tx[j].gone) \cup tx[j].rows
         /\ tx'[j].rows \subseteq tx[j].rows
         /\ \A k \in Jobs \ {j} : mock[k] # mock[j] => tx'[k].gone = tx[k].gone
<1>0. TypeOK /\ mock[j] \in Mocks
  BY CommitEffects DEF Typed
<1>1. analyzers'[mock[j]] = (analyzers[mock[j]] \ tx[j].gone) \cup tx[j].rows
  BY <1>0 DEF Commit, TypeOK
<1>2. tx'[j] = IF at[j] = "retriever" THEN NoTx ELSE [NoTx EXCEPT !.rows = tx[j].rows]
  BY DEF Commit
<1>3. tx'[j].rows \subseteq tx[j].rows
  BY <1>2 DEF NoTx
<1>4. \A k \in Jobs \ {j} : mock[k] # mock[j] => tx'[k] = tx[k]
  BY <1>0 DEF Commit, TypeOK
<1> QED BY <1>1, <1>3, <1>4

LEMMA NextSame == IInv /\ SameInv /\ [Next]_vars => SameInv'
<1> SUFFICES ASSUME IInv, SameInv, [Next]_vars PROVE SameInv'
  OBVIOUS
<1>0. TypeOK /\ PlaceInv /\ Typed /\ FreshInv
  BY DEF IInv, Typed
<1> DEFINE Others(j) == \A k \in Jobs \ {j} :
                          tx'[k] = tx[k] /\ step'[k] = step[k] /\ mock'[k] = mock[k]
<1>k. \A j \in Jobs : tx[j].rows \subseteq known \cup tx[j].new
  BY DEF SameInv, KnownInv
<1>1. ASSUME NEW j \in Jobs, NEW m \in Mocks, ensure_cache(j, m) PROVE SameInv'
  <2>1. /\ Others(j) /\ step'[j] = "none"
        /\ UNCHANGED <<installed, analyzers, base, known, tx, stale, overlaps>>
    BY <1>0, <1>1 DEF ensure_cache, Goto, tables, TypeOK
  <2> QED BY <1>k, <2>1, StepSame DEF Updating
<1>2. ASSUME NEW j \in Jobs, Analyze(j) PROVE SameInv'
  <2>1. /\ Others(j) /\ step'[j] \in {"update", "results"} /\ stale' = stale \ {j}
        /\ UNCHANGED <<installed, analyzers, base, known, tx, overlaps>>
    BY <1>0, <1>2 DEF Analyze, Goto, tables, TypeOK
  <2> QED BY <1>k, <2>1, StepSame DEF Updating
<1>3. ASSUME NEW j \in Jobs, ensure_base(j) PROVE SameInv'
  <2>1. /\ Others(j) /\ step'[j] = "none" /\ stale' \in {stale \cup {j}, stale \ {j}}
        /\ UNCHANGED <<installed, analyzers, base, known, tx, overlaps>>
    BY <1>0, <1>3 DEF ensure_base, Goto, tables, TypeOK
  <2> QED BY <1>k, <2>1, StepSame DEF Updating
<1>4. ASSUME NEW j \in Jobs, set_analyzers(j) PROVE SameInv'
  <2>1. CASE Multiple(j)
    BY <1>4, <2>1, FailSame DEF set_analyzers
  <2>2. CASE ~Multiple(j)
    <3>1. /\ step' = [step EXCEPT ![j] = "created"]
          /\ tx' = [tx EXCEPT ![j] = [tx[j] EXCEPT !.rows = Found(j) \cup Created(j),
                                                   !.new = Created(j)]]
          /\ UNCHANGED <<installed, tables, stale, mock>> /\ overlaps \subseteq overlaps'
      BY <1>4, <2>2 DEF set_analyzers, Goto
    <3>2. /\ Others(j) /\ step'[j] = "created"
          /\ tx'[j].rows = Found(j) \cup Created(j) /\ tx'[j].new = Created(j)
      BY <1>0, <3>1 DEF TypeOK, TxType
    <3>3. tx'[j].rows \subseteq known' \cup tx'[j].new
      BY <3>1, <3>2 DEF Found, tables
    <3> QED BY <3>1, <3>2, <3>3, StepSame DEF Updating, tables
  <2> QED BY <2>1, <2>2
<1>5. ASSUME NEW j \in Jobs, CommitCreated(j) PROVE SameInv'
  <2>1. /\ step' = [step EXCEPT ![j] = "update"]
        /\ tx' = [tx EXCEPT ![j] = [tx[j] EXCEPT !.new = {}]]
        /\ UNCHANGED <<installed, analyzers, base, stale, mock, overlaps>>
        /\ known' = known \cup tx[j].new
    BY <1>5 DEF CommitCreated, Goto
  <2>2. Others(j) /\ step'[j] = "update" /\ tx'[j].rows = tx[j].rows
    BY <1>0, <2>1 DEF TypeOK, TxType
  <2> QED BY <1>k, <2>1, <2>2, StepSame DEF Updating
<1>6. ASSUME NEW j \in Jobs, Clear(j) PROVE SameInv'
  <2>1. /\ step' = [step EXCEPT ![j] = "cleared"]
        /\ tx' = [tx EXCEPT ![j] = [tx[j] EXCEPT !.gone = analyzers[mock[j]]]]
        /\ UNCHANGED <<installed, tables, stale, mock>>
        /\ overlaps' = overlaps \cup
             {k \in {"update"} : \E i \in Jobs \ {j} : mock[i] = mock[j] /\ Updating(i)}
    BY <1>6 DEF Clear, Goto, Updating
  <2>2. /\ Others(j) /\ step'[j] = "cleared"
        /\ tx'[j].rows = tx[j].rows /\ tx'[j].new = tx[j].new
        /\ tx'[j].gone = analyzers[mock[j]]
    BY <1>0, <2>1 DEF TypeOK, TxType
  <2>3. "update" \notin overlaps' => \A k \in Jobs \ {j} : Updating(k) => mock[k] # mock[j]
    BY <2>1
  <2> QED BY <1>k, <2>1, <2>2, <2>3, StepSame DEF tables
<1>7. ASSUME NEW j \in Jobs, Look(j) PROVE SameInv'
  <2>1. CASE Multiple(j)
    BY <1>7, <2>1, FailSame DEF Look
  <2>2. CASE ~Multiple(j)
    <3>1. /\ step[j] = "cleared" /\ step' = [step EXCEPT ![j] = "stamped"]
          /\ tx' = [tx EXCEPT ![j] = [tx[j] EXCEPT !.rows = Found(j) \cup Created(j),
                                                   !.new = Created(j), !.stamps = Stamps(j)]]
          /\ UNCHANGED <<installed, tables, stale, mock>> /\ overlaps \subseteq overlaps'
      BY <1>7, <2>2 DEF Look, Goto
    <3>2. /\ Others(j) /\ step'[j] = "stamped"
          /\ tx'[j].rows = Found(j) \cup Created(j) /\ tx'[j].new = Created(j)
          /\ tx'[j].gone = tx[j].gone
      BY <1>0, <3>1 DEF TypeOK, TxType
    <3>3. tx'[j].rows \subseteq known' \cup tx'[j].new
      BY <3>1, <3>2 DEF Found, tables
    <3>4. "update" \notin overlaps' =>
            /\ tx'[j].gone = analyzers[mock'[j]]
            /\ \A k \in Jobs \ {j} : Updating(k) => mock[k] # mock'[j]
      BY <3>1, <3>2 DEF SameInv, UpdateInv, Updating
    <3> QED BY <3>1, <3>2, <3>3, <3>4, StepSame DEF tables
  <2> QED BY <2>1, <2>2
<1>8. ASSUME NEW j \in Jobs, Commit(j) PROVE SameInv'
  <2> DEFINE m == mock[j]
  <2>1. /\ m \in Mocks /\ step[j] = "stamped" /\ step'[j] \in {"none", "save"}
        /\ \A k \in Jobs \ {j} : step'[k] = step[k]
        /\ UNCHANGED <<installed, base, mock, report, overlaps>>
        /\ known' = known \cup tx[j].new
        /\ \A l \in Mocks \ {m} : analyzers'[l] = analyzers[l]
        /\ \A k \in Jobs \ {j} : tx'[k].rows = tx[k].rows /\ tx'[k].new = tx[k].new
        /\ tx'[j].new = {}
        /\ stale' = (IF j \in stale THEN stale \cup {m} ELSE stale \ {m})
    BY <1>0, <1>8, CommitEffects
  <2>2. /\ analyzers'[m] = (analyzers[m] \ tx[j].gone) \cup tx[j].rows
        /\ tx'[j].rows \subseteq tx[j].rows
        /\ \A k \in Jobs \ {j} : mock[k] # m => tx'[k].gone = tx[k].gone
    BY <1>0, <1>8, CommitRows
  <2> HIDE DEF m
  <2>3. KnownInv'
    BY <1>k, <2>1, <2>2 DEF SameInv, KnownInv
  <2>4. UpdateInv'
    <3> SUFFICES ASSUME "update" \notin overlaps
                 PROVE  /\ \A k \in Jobs : Updating(k)' => tx'[k].gone = analyzers'[mock'[k]]
                        /\ \A i, k \in Jobs :
                             Updating(i)' /\ Updating(k)' /\ mock'[i] = mock'[k] => i = k
      BY <2>1 DEF UpdateInv
    <3>1. \A k \in Jobs : Updating(k)' => Updating(k) /\ k # j
      BY <2>1 DEF Updating
    <3>2. \A k \in Jobs \ {j} : Updating(k) => mock[k] # m /\ mock[k] \in Mocks
      BY <1>0, <2>1 DEF SameInv, UpdateInv, Updating, m, PlaceInv
    <3> QED BY <2>1, <2>2, <3>1, <3>2 DEF SameInv, UpdateInv
  <2>5. ExactInv'
    <3>1. "base" \notin stale' => Covers(base', installed') /\ Agrees(base', installed')
      BY <2>1 DEF SameInv, ExactInv, Covers, Agrees
    <3>2. ASSUME "update" \notin overlaps', NEW l \in Mocks, l \notin stale'
          PROVE  Agrees(analyzers'[l], installed')
      <4>1. CASE l = m
        <5>1. j \notin stale /\ report[j] = installed /\ Agrees(tx[j].rows, report[j])
          BY <1>0, <2>1, <3>2, <4>1 DEF FreshInv
        <5>2. analyzers'[m] = tx[j].rows
          BY <2>1, <2>2, <3>2 DEF SameInv, UpdateInv, Updating, m
        <5> QED BY <2>1, <4>1, <5>1, <5>2 DEF Agrees
      <4>2. CASE l # m
        BY <2>1, <3>2, <4>2 DEF SameInv, ExactInv, Agrees
      <4> QED BY <4>1, <4>2
    <3> QED BY <3>1, <3>2 DEF ExactInv
  <2> QED BY <2>3, <2>4, <2>5 DEF SameInv
<1>9. ASSUME NEW j \in Jobs, SaveResult(j) PROVE SameInv'
  <2>1. /\ UNCHANGED <<installed, known, analyzers, overlaps>> /\ step[j] = "save"
        /\ Others(j) /\ step'[j] = "none" /\ tx'[j] = NoTx
    BY <1>0, <1>9 DEF SaveResult, Leave, Goto, Drop, TypeOK
  <2>2. tx'[j].rows = {} /\ ~Updating(j)'
    BY <2>1 DEF NoTx, Updating
  <2>3. CASE at[j] # "base"
    <3>1. UNCHANGED base /\ stale' = stale \ {j}
      BY <1>9, <2>3 DEF SaveResult, Leave
    <3> QED BY <2>1, <2>2, <3>1, StepSame
  <2>4. CASE at[j] = "base"
    <3>1. /\ base' = tx[j].rows
          /\ stale' = (IF j \in stale THEN stale \cup {"base"} ELSE stale \ {"base"})
      BY <1>9, <2>4 DEF SaveResult
    <3>2. KnownInv'
      BY <1>k, <2>1, <2>2, <3>1 DEF SameInv, KnownInv
    <3>3. UpdateInv'
      BY <2>1, <2>2 DEF SameInv, UpdateInv, Updating
    <3>4. j \notin stale => Covers(tx[j].rows, installed) /\ Agrees(tx[j].rows, installed)
      BY <1>0, <2>1 DEF FreshInv
    <3>5. ExactInv'
      BY <2>1, <3>1, <3>4 DEF SameInv, ExactInv, Covers, Agrees
    <3> QED BY <3>2, <3>3, <3>5 DEF SameInv
  <2> QED BY <2>3, <2>4
<1>10. ASSUME NEW n \in Names, Upgrade(n) PROVE SameInv'
  <2>1. UNCHANGED <<tables, step, mock, tx, overlaps>> /\ Mocks \cup {"base"} \subseteq stale'
    BY <1>10 DEF Upgrade
  <2> QED BY <2>1 DEF SameInv, KnownInv, UpdateInv, ExactInv, Updating, tables
<1>11. ASSUME NEW m \in Mocks, Expire(m) PROVE SameInv'
  <2>1. /\ UNCHANGED <<installed, known, analyzers, base, step, mock, stale, overlaps>>
        /\ \A j \in Jobs : /\ tx'[j].rows = tx[j].rows /\ tx'[j].new = tx[j].new
                           /\ tx'[j].gone = tx[j].gone
    BY <1>0, <1>11 DEF Expire, TypeOK, TxType
  <2>2. KnownInv'
    BY <2>1 DEF SameInv, KnownInv
  <2>3. UpdateInv'
    BY <2>1 DEF SameInv, UpdateInv, Updating
  <2>4. ExactInv'
    BY <2>1 DEF SameInv, ExactInv, Covers, Agrees
  <2> QED BY <2>2, <2>3, <2>4 DEF SameInv
<1>12. CASE UNCHANGED vars
  BY <1>12 DEF vars, tables, SameInv, KnownInv, UpdateInv, ExactInv, Covers, Agrees, Updating
<1> QED BY <1>1, <1>2, <1>3, <1>4, <1>5, <1>6, <1>7, <1>8, <1>9, <1>10, <1>11, <1>12
        DEF Next, Worker, Hub

LEMMA InitSame == Init => SameInv
  BY DEF Init, SameInv, KnownInv, UpdateInv, ExactInv, Updating, NoTx

LEMMA SameInductive == Spec => []SameInv
<1>1. IInv /\ SameInv /\ [Next]_vars => SameInv'
  BY NextSame
<1> QED BY <1>1, InitSame, Inductive, PTL DEF Spec

(* A base that the installed versions scanned is taken, not scanned again: *)
(* analyzers_match finds the rows of the mock in it, unless two refreshes  *)
(* of one mock overlapped, or two transactions inserted one version.       *)
THEOREM NeverNeedlessRescan == Spec => []NoNeedlessRescan
<1>1. IInv /\ SameInv => NoNeedlessRescan
  <2> SUFFICES ASSUME IInv, SameInv, overlaps \cap {"create", "update"} = {},
                      NEW m \in Mocks, m \notin stale, "base" \notin stale
               PROVE  Match(analyzers[m], base)
    BY DEF NoNeedlessRescan
  <2>1. /\ Covers(analyzers[m], installed) /\ Agrees(analyzers[m], installed)
        /\ Covers(base, installed) /\ Agrees(base, installed)
    BY DEF IInv, FreshInv, SameInv, ExactInv
  <2>2. /\ analyzers[m] \subseteq known /\ base \subseteq known /\ known \subseteq RowType
        /\ \A r, q \in known : Same(r, q) => r = q
    BY DEF IInv, Typed, TypeOK, UniqueInv, SameInv, KnownInv
  <2>3. \A r \in known : r.name \in Names
    BY <2>2 DEF RowType
  <2>4. \A r : r \in analyzers[m] <=> r \in base
    BY <2>1, <2>2, <2>3 DEF Covers, Agrees, Same
  <2>5. analyzers[m] = base
    BY <2>4
  <2> QED BY <2>1, <2>5 DEF Match, Agrees
<1> QED BY <1>1, Inductive, SameInductive, PTL
=============================================================================
