--------------------------- MODULE WaivingRequests ---------------------------
(***************************************************************************)
(* The handlers of Waiving statement by statement.  The hub serves several *)
(* requests at a time without transactions: a handler reads rows, keeps    *)
(* the copies, and save() writes all columns of a copy back.  Besides the  *)
(* forms of a result group there are the buttons that report waivers to a  *)
(* bug tracker, and a submission that supersedes the newest scan.          *)
(*                                                                         *)
(* One action is one statement on the database or one call of a tracker,   *)
(* with the computation up to the next one.                                *)
(***************************************************************************)
EXTENDS Waiving, FiniteSets

CONSTANTS
  Slots,     \* requests the hub serves at a time
  Mortal,    \* those whose process may be killed
  Trackers,  \* Bugzilla and Jira
  MaxBugs    \* bound: bugs in each tracker

ASSUME SlotsAssumption == IsFiniteSet(Slots) /\ Mortal \subseteq Slots
ASSUME BugsAssumption == MaxBugs \in Nat

Bugs == 1 .. MaxBugs

VARIABLES
  enabled,    \* results whose scan is enabled
  submitted,  \* whether a newer scan is in progress
  bug,        \* Waiver.bz and Waiver.jira_bug: number of the bug, or 0
  text,       \* waivers that the bugs of the trackers list
  filed,      \* bugs of the trackers so far
  rows,       \* rows of Bugzilla and JiraBug
  req,        \* what a slot is at
  disturbed,  \* history: did two requests overlap, or one die half-way?
  contended,  \* history: did two reports overlap, or one die half-way?
  before      \* history: the tables before the only request in flight

waivingVars == <<results, attached, state, found, group, waivers, waiver>>
bugVars     == <<bug, text, filed, rows>>
scanVars    == <<enabled, submitted>>
history     == <<disturbed, contended, before>>
reqVars     == <<waivingVars, bugVars, scanVars, req, history>>

Unread == [state |-> "NONE", enabled |-> FALSE]

Idle == [op |-> "none", step |-> "none"]

Busy == {u \in Slots : req[u].op # "none"}

Reporting == {u \in Slots : req[u].op = "report"}

At(u, step) == req[u].step = step

Tables == [results |-> results, attached |-> attached, state |-> state,
           found |-> found, group |-> group, waivers |-> waivers, waiver |-> waiver]

-----------------------------------------------------------------------------
(* Copies of rows.                                                         *)

Copies(W) == [w \in W |-> [waiver |-> waiver[w], bug |-> [t \in Trackers |-> bug[t][w]]]]

(* Bug: the column is deferred and its default is written back.            *)
MutScanRow(r) == [state |-> state[r], enabled |-> FALSE]

ScanRow(r) == [state |-> state[r], enabled |-> r \in enabled]

SaveWaivers(c) ==
  /\ waiver' = [w \in Waivers |-> IF w \in DOMAIN c THEN c[w].waiver ELSE waiver[w]]
  /\ bug' = [t \in Trackers |->
               [w \in Waivers |-> IF w \in DOMAIN c THEN c[w].bug[t] ELSE bug[t][w]]]

SaveScan(r, row) ==
  /\ state' = [state EXCEPT ![r] = row.state]
  /\ enabled' = IF row.enabled THEN enabled \cup {r} ELSE enabled \ {r}

(* A request arrives at the slot u, goes on, and ends.                     *)
Begin(u, r) ==
  /\ req[u] = Idle
  /\ req' = [req EXCEPT ![u] = r]
  /\ disturbed' = (disturbed \/ Busy # {})
  /\ contended' = (contended \/ (r.op = "report" /\ Reporting # {}))
  /\ before' = IF disturbed' THEN {} ELSE Tables

Continue(u, r) == req' = [req EXCEPT ![u] = r] /\ UNCHANGED history

Goto(u, step) == Continue(u, [req[u] EXCEPT !.step = step])

End(u) == Continue(u, Idle)

(* The worker process of the web server is killed.                         *)
Die(u) ==
  /\ u \in Busy \cap Mortal
  /\ req' = [req EXCEPT ![u] = Idle]
  /\ disturbed' = TRUE
  /\ contended' = (contended \/ u \in Reporting)
  /\ before' = {}
  /\ UNCHANGED <<waivingVars, bugVars, scanVars>>

-----------------------------------------------------------------------------
(* comment_post and waiver_post                                            *)

Inserting == {u \in Slots : req[u].step \in {"deactivate", "insert"}}

Post(u, r, g, kind, step, copies) ==
  /\ r \in attached
  /\ group[r][g] # "ABSENT"
  /\ waivers + Cardinality(Inserting) < MaxWaivers
  /\ Begin(u, [op |-> "post", step |-> step, r |-> r, g |-> g, kind |-> kind,
               seen |-> group[r][g], copies |-> copies, scan |-> Unread])
  /\ UNCHANGED <<waivingVars, bugVars, scanVars>>

StartComment(u, r, g) == Post(u, r, g, "COMMENT", "insert", Copies({}))

StartWaiver(u, r, g, kind) ==
  Post(u, r, g, kind, "deactivate", Copies(Latest(RowsOf(r, g))))

Deactivate(u) ==
  /\ At(u, "deactivate")
  /\ SaveWaivers([w \in DOMAIN req[u].copies |->
                    [req[u].copies[w] EXCEPT !.waiver.is_active = FALSE]])
  /\ Goto(u, "insert")
  /\ UNCHANGED <<resultVars, waivers, state, group, text, filed, rows, scanVars>>

Insert(u) ==
  LET q == req[u]
  IN  /\ At(u, "insert")
      /\ waivers' = waivers + 1
      /\ waiver' = Add(waiver, q.r, q.g, q.kind, q.kind # "COMMENT")
      /\ Continue(u, [q EXCEPT !.step = "read_scan", !.copies = Copies({})])
      /\ UNCHANGED <<resultVars, state, group, bugVars, scanVars>>

(* Bug: a comment is applied as if it were a waiver.                       *)
MutReadScan(u) ==
  LET q == req[u]
  IN  /\ At(u, "read_scan")
      /\ group' = IF q.kind # "COMMENT" /\ q.seen = "PREVIOUSLY_WAIVED"
                  THEN [group EXCEPT ![q.r][q.g] = q.seen] ELSE group
      /\ Continue(u, [q EXCEPT !.scan = ScanRow(q.r),
                               !.step = "apply"])
      /\ UNCHANGED <<resultVars, state, waiverVars, bugVars, scanVars>>

(* s = sb.scan; a group that was previously waived is saved as it was read *)
(* before apply_waiver saves it once more.                                 *)
ReadScan(u) ==
  LET q == req[u]
  IN  /\ At(u, "read_scan")
      /\ group' = IF q.kind # "COMMENT" /\ q.seen = "PREVIOUSLY_WAIVED"
                  THEN [group EXCEPT ![q.r][q.g] = q.seen] ELSE group
      /\ Continue(u, [q EXCEPT !.scan = ScanRow(q.r),
                               !.step = IF q.kind = "COMMENT" THEN "save_scan" ELSE "apply"])
      /\ UNCHANGED <<resultVars, state, waiverVars, bugVars, scanVars>>

(* apply_waiver, up to the look at the other groups.                       *)
Apply(u) ==
  LET q == req[u]
  IN  /\ At(u, "apply")
      /\ IF LiveOf(q.r, q.g) = {}
         THEN group' = group /\ Goto(u, "save_scan")
         ELSE /\ group' = [group EXCEPT ![q.r][q.g] =
                             IF q.kind = "IS_A_BUG" THEN "CONTAINS_BUG" ELSE "WAIVED"]
              /\ Goto(u, "finalize")
      /\ UNCHANGED <<resultVars, state, waiverVars, bugVars, scanVars>>

(* Bug: the last group is always thought to be waived.                     *)
MutFinalize(u) ==
  LET q == req[u]
      row == [q.scan EXCEPT !.state = Finalized(group[q.r])]
  IN  /\ At(u, "finalize")
      /\ SaveScan(q.r, row)
      /\ Continue(u, [q EXCEPT !.scan = row, !.step = "save_scan"])
      /\ UNCHANGED <<resultVars, group, waiverVars, bugVars, submitted>>

(* get_unwaived_rgs, and finalize when there are none.                     *)
Finalize(u) ==
  LET q == req[u]
      row == [q.scan EXCEPT !.state = Finalized(group[q.r])]
  IN  /\ At(u, "finalize")
      /\ IF Unwaived(group[q.r]) = {}
         THEN SaveScan(q.r, row) /\ Continue(u, [q EXCEPT !.scan = row, !.step = "save_scan"])
         ELSE Goto(u, "save_scan") /\ UNCHANGED <<state, enabled>>
      /\ UNCHANGED <<resultVars, group, waiverVars, bugVars, submitted>>

FinishPost(u) ==
  /\ At(u, "save_scan")
  /\ SaveScan(req[u].r, req[u].scan)
  /\ End(u)
  /\ UNCHANGED <<resultVars, group, waiverVars, bugVars, submitted>>

-----------------------------------------------------------------------------
(* remove_waiver                                                           *)

StartRemove(u, w) ==
  /\ w <= waivers
  /\ waiver[w].result \in attached
  /\ Begin(u, [op |-> "remove", step |-> "delete", r |-> waiver[w].result,
               g |-> waiver[w].group, kind |-> waiver[w].kind, copies |-> Copies({w}),
               scan |-> Unread])
  /\ UNCHANGED <<waivingVars, bugVars, scanVars>>

Delete(u) ==
  LET q == req[u]
  IN  /\ At(u, "delete")
      /\ SaveWaivers([w \in DOMAIN q.copies |->
                        [q.copies[w] EXCEPT !.waiver.is_deleted = TRUE]])
      /\ IF q.kind = "COMMENT"
         THEN End(u)
         ELSE Continue(u, [q EXCEPT !.step = "is_waived", !.copies = Copies({})])
      /\ UNCHANGED <<resultVars, waivers, state, group, text, filed, rows, scanVars>>

IsWaived(u) ==
  /\ At(u, "is_waived")
  /\ IF state[req[u].r] = "WAIVED"
     THEN Continue(u, [req[u] EXCEPT !.step = "reopen", !.scan = ScanRow(req[u].r)])
     ELSE End(u)
  /\ UNCHANGED <<waivingVars, bugVars, scanVars>>

Reopen(u) ==
  LET q == req[u]
  IN  /\ At(u, "reopen")
      /\ IF LiveOf(q.r, q.g) = {}
         THEN /\ group' = [group EXCEPT ![q.r][q.g] = "NEEDS_INSPECTION"]
              /\ Goto(u, "dispute")
         ELSE group' = group /\ End(u)
      /\ UNCHANGED <<resultVars, state, waiverVars, bugVars, scanVars>>

Dispute(u) ==
  /\ At(u, "dispute")
  /\ SaveScan(req[u].r, [req[u].scan EXCEPT !.state = "DISPUTED"])
  /\ End(u)
  /\ UNCHANGED <<resultVars, group, waiverVars, bugVars, submitted>>

-----------------------------------------------------------------------------
(* create_bug and update_bug of reporting/bugzilla.py and reporting/jira.py *)

(* has_waiver of the groups that were processed.                           *)
Decisions ==
  {w \in 1 .. waivers :
     /\ waiver[w].result \in attached
     /\ group[waiver[w].result][waiver[w].group] \in {"WAIVED", "CONTAINS_BUG"}
     /\ w \in Latest(LiveOf(waiver[w].result, waiver[w].group))}

(* Bug: the column of the bug is not looked at.                            *)
MutUnreported(t, ids) ==
  {w \in ids : Live(w) /\ waiver[w].kind \in {"IS_A_BUG", "FIX_LATER"}}

Unreported(t, ids) ==
  {w \in ids : /\ Live(w) /\ waiver[w].kind \in {"IS_A_BUG", "FIX_LATER"}
               /\ bug[t][w] = 0}

(* The button for a new bug, n = 0, or for the bug the hub knows.  Update  *)
(* creates one if there is none, and raises if there are two.              *)
StartReport(u, t, n) ==
  /\ n = 0 \/ rows[t] = {n}
  /\ filed[t] < MaxBugs
  /\ Unreported(t, Decisions) # {}
  /\ Begin(u, [op |-> "report", step |-> "format", t |-> t, n |-> n,
               ids |-> Decisions, copies |-> Copies({})])
  /\ UNCHANGED <<waivingVars, bugVars, scanVars>>

(* format_waivers runs the query; its rows are the ones saved in the end.  *)
Format(u) ==
  LET listed == Unreported(req[u].t, req[u].ids)
  IN  /\ At(u, "format")
      /\ IF listed = {}
         THEN End(u)
         ELSE Continue(u, [req[u] EXCEPT !.step = "send", !.copies = Copies(listed)])
      /\ UNCHANGED <<waivingVars, bugVars, scanVars>>

(* Bug: the text comes from a query of its own.                            *)
MutSend(u) ==
  LET q == req[u]
      k == IF q.n = 0 THEN filed[q.t] + 1 ELSE q.n
  IN  /\ At(u, "send")
      /\ k \in Bugs
      /\ filed' = [filed EXCEPT ![q.t] = IF q.n = 0 THEN k ELSE @]
      /\ text' = [text EXCEPT ![q.t][k] = @ \cup Unreported(q.t, q.ids)]
      /\ Continue(u, [q EXCEPT !.n = k, !.step = IF q.n = 0 THEN "save_bug" ELSE "mark"])
      /\ UNCHANGED <<waivingVars, bug, rows, scanVars>>

(* createbug or addcomment.                                                *)
Send(u) ==
  LET q == req[u]
      k == IF q.n = 0 THEN filed[q.t] + 1 ELSE q.n
  IN  /\ At(u, "send")
      /\ k \in Bugs
      /\ filed' = [filed EXCEPT ![q.t] = IF q.n = 0 THEN k ELSE @]
      /\ text' = [text EXCEPT ![q.t][k] = @ \cup DOMAIN q.copies]
      /\ Continue(u, [q EXCEPT !.n = k, !.step = IF q.n = 0 THEN "save_bug" ELSE "mark"])
      /\ UNCHANGED <<waivingVars, bug, rows, scanVars>>

SaveBug(u) ==
  /\ At(u, "save_bug")
  /\ rows' = [rows EXCEPT ![req[u].t] = @ \cup {req[u].n}]
  /\ Goto(u, "mark")
  /\ UNCHANGED <<waivingVars, bug, text, filed, scanVars>>

Rest(W) == {w \in W : \E v \in W : v < w}

(* The waivers get their bug one after the other.                          *)
Mark(u) ==
  LET q    == req[u]
      rest == Rest(DOMAIN q.copies)
  IN  /\ At(u, "mark")
      /\ SaveWaivers([w \in DOMAIN q.copies \ rest |->
                        [q.copies[w] EXCEPT !.bug[q.t] = q.n]])
      /\ IF rest = {}
         THEN End(u)
         ELSE Continue(u, [q EXCEPT !.copies = [w \in rest |-> q.copies[w]]])
      /\ UNCHANGED <<resultVars, waivers, state, group, text, filed, rows, scanVars>>

-----------------------------------------------------------------------------
(* A newer scan: submission, end, and failure.                             *)

StartSubmit(u) ==
  /\ ~submitted
  /\ submitted' = TRUE
  /\ Begin(u, [op |-> "submit", step |-> "link", child |-> Latest(attached),
               scan |-> [r \in Latest(attached) |-> ScanRow(r)]])
  /\ UNCHANGED <<waivingVars, bugVars, enabled>>

(* child_scan.parent and child_scan.enabled.                               *)
LinkChild(u) ==
  /\ At(u, "link")
  /\ IF req[u].child = {}
     THEN UNCHANGED <<state, enabled>>
     ELSE \E r \in req[u].child :
            SaveScan(r, [req[u].scan[r] EXCEPT !.enabled = FALSE])
  /\ End(u)
  /\ UNCHANGED <<resultVars, group, waiverVars, bugVars, submitted>>

(* The worker's calls are one step each, beside the requests in flight.    *)
Beside ==
  /\ submitted
  /\ \A u \in Slots : req[u].op # "submit"
  /\ submitted' = FALSE
  /\ disturbed' = (disturbed \/ Busy # {})
  /\ before' = IF disturbed' THEN {} ELSE before
  /\ UNCHANGED <<bugVars, req, contended>>

NewResult(defects) ==
  /\ Beside
  /\ FinishScan(0, defects)
  /\ enabled' = enabled \cup {results + 1}

Abandon ==
  /\ Beside
  /\ enabled' = enabled \cup Latest(attached)
  /\ UNCHANGED waivingVars

-----------------------------------------------------------------------------
ReqInit ==
  /\ Init
  /\ enabled = {}
  /\ submitted = FALSE
  /\ bug = [t \in Trackers |-> [w \in Waivers |-> 0]]
  /\ text = [t \in Trackers |-> [n \in Bugs |-> {}]]
  /\ filed = [t \in Trackers |-> 0]
  /\ rows = [t \in Trackers |-> {}]
  /\ req = [u \in Slots |-> Idle]
  /\ disturbed = FALSE
  /\ contended = FALSE
  /\ before = {}

Arrive(u) ==
  \/ StartSubmit(u)
  \/ \E r \in Results, g \in Groups :
       StartComment(u, r, g) \/ \E kind \in Kinds : StartWaiver(u, r, g, kind)
  \/ \E w \in Waivers : StartRemove(u, w)
  \/ \E t \in Trackers, n \in Bugs \cup {0} : StartReport(u, t, n)

Proceed(u) ==
  \/ Deactivate(u) \/ Insert(u) \/ ReadScan(u) \/ Apply(u) \/ Finalize(u) \/ FinishPost(u)
  \/ Delete(u) \/ IsWaived(u) \/ Reopen(u) \/ Dispute(u)
  \/ Format(u) \/ Send(u) \/ SaveBug(u) \/ Mark(u) \/ LinkChild(u)

ReqNext ==
  \/ \E u \in Slots : Arrive(u) \/ Proceed(u) \/ Die(u)
  \/ \E defects \in Contents : NewResult(defects)
  \/ Abandon

ReqSpec == ReqInit /\ [][ReqNext]_reqVars

-----------------------------------------------------------------------------
(* What a request that is alone in the hub does is one step of Waiving, or *)
(* none: the tables seen without the request in flight.                    *)
Shown == IF Busy = {} THEN Tables ELSE before

Alone == INSTANCE Waiving WITH
  results <- Shown.results, attached <- Shown.attached, state <- Shown.state,
  found <- Shown.found, group <- Shown.group, waivers <- Shown.waivers,
  waiver <- Shown.waiver

RequestsAreWaiving == Alone!Init /\ [][disturbed' \/ [Alone!Next]_(Alone!vars)]_reqVars

(* The newest scan counts, unless one in progress took over.               *)
NewestCounts ==
  ~disturbed /\ Busy = {} =>
    enabled = IF submitted THEN {} ELSE Latest(attached)

(* No waiver is reported to a tracker twice, whatever is posted, removed   *)
(* or superseded meanwhile, as long as reports do not overlap or die.      *)
ReportedOnce ==
  ~contended => \A t \in Trackers, m, n \in Bugs :
                  m # n => text[t][m] \cap text[t][n] = {}

(* The link of a waiver leads to a bug that lists it.                      *)
BugListsWaiver ==
  \A t \in Trackers, w \in Waivers : bug[t][w] # 0 => w \in text[t][bug[t][w]]
=============================================================================
