-------------------------------- MODULE Waiving --------------------------------
(***************************************************************************)
(* Result groups, waivers and the verdict of a scan: waiving/models.py,    *)
(* service.py, results_loader.py, and the handlers of waiving/views.py.    *)
(*                                                                         *)
(* All scans are of one package in one release, since every lookup of the  *)
(* code is confined to one.  Results are numbered by date_submitted and    *)
(* waivers by date.  A result carries the state of its scan.  One action   *)
(* is one handler run to its end.                                          *)
(*                                                                         *)
(* A Mut operator is the operator below it with a plausible bug.           *)
(***************************************************************************)
EXTENDS Naturals

CONSTANTS
  MaxResults,  \* bound: Result rows ever created
  MaxWaivers,  \* bound: Waiver rows ever created
  Groups,      \* CheckerGroup
  Defects,     \* sets of defects that csdiff tells apart
  None,        \* no defects, or no group
  Contents,    \* what a scan may find: defects, or None, in each group
  Kinds        \* kinds of waivers users post, comments apart

Results == 1 .. MaxResults
Waivers == 1 .. MaxWaivers

WAIVERS_ONLY == {"NOT_A_BUG", "IS_A_BUG", "FIX_LATER"}

(* A group of new defects.  Fixed defects are in groups of their own, in   *)
(* state INFO, which take no part in any of this.                          *)
GroupStates ==
  {"ABSENT", "NEEDS_INSPECTION", "WAIVED", "PREVIOUSLY_WAIVED", "CONTAINS_BUG"}

(* FAILED stands for CANCELED too: no handler here tells them apart.       *)
ScanStates ==
  { "NONE", "NEEDS_INSPECTION", "WAIVED", "PASSED", "DISPUTED", "BUG_CONFIRMED",
    "FAILED" }

ASSUME BoundsAssumption == MaxResults \in Nat /\ MaxWaivers \in Nat
ASSUME GroupsAssumption == None \notin Groups \cup Defects
ASSUME ContentsAssumption == Contents \subseteq [Groups -> Defects \cup {None}]
ASSUME KindsAssumption == Kinds \subseteq WAIVERS_ONLY

VARIABLES
  results,   \* rows of Result so far
  attached,  \* results that are the result of a ScanBinding
  state,     \* Scan.state of the scan of a result
  found,     \* the defects of a result in a checker group
  group,     \* ResultGroup.state
  waivers,   \* rows of Waiver so far
  waiver     \* Waiver

resultVars == <<results, attached, found>>
waiverVars == <<waivers, waiver>>
vars == <<resultVars, state, group, waiverVars>>

-----------------------------------------------------------------------------
NoWaiver == [result |-> 0, group |-> None, kind |-> "NONE",
             is_active |-> FALSE, is_deleted |-> FALSE]

(* The filter of WaiverOnlyManager.                                        *)
Live(w) == waiver[w].is_active /\ ~waiver[w].is_deleted

RowsOf(r, g) == {w \in Waivers : waiver[w].result = r /\ waiver[w].group = g}

LiveOf(r, g) == {w \in RowsOf(r, g) : Live(w)}

Latest(W) == {w \in W : \A v \in W : v <= w}

(* get_unwaived_rgs, of a result whose groups are in the states gs.        *)
Unwaived(gs) == {g \in Groups : gs[g] = "NEEDS_INSPECTION"}

HasBugs(gs) == \E g \in Groups : gs[g] = "CONTAINS_BUG"

-----------------------------------------------------------------------------
(* A new Result: ResultsLoader.process and the verdict of finish_scan.     *)

(* Bug: a waiver is good although a newer scan is not inspected yet.       *)
MutLastWaiver(g, att) ==
  Latest({w \in Waivers : Live(w) /\ waiver[w].group = g /\ waiver[w].result \in att})

(* get_last_waiver: the latest waiver of the checker group, none if a      *)
(* newer result has the group uninspected.                                 *)
LastWaiver(g, att) ==
  LET all == {w \in Waivers : /\ Live(w) /\ waiver[w].group = g
                              /\ waiver[w].result \in att}
  IN  {w \in Latest(all) :
         ~\E r \in att : r > waiver[w].result /\ group[r][g] = "NEEDS_INSPECTION"}

(* Bug: the defects are only counted.                                      *)
MutMatches(d, r, g) == TRUE

(* compare_result_groups.  It looks at defects in state NEW, which those   *)
(* of a previously waived group are not.                                   *)
Matches(d, r, g) == found[r][g] = d /\ group[r][g] # "PREVIOUSLY_WAIVED"

(* find_processed_in_past: the state a group with the defects d starts in. *)
Processed(d, g, att) ==
  LET past == {w \in LastWaiver(g, att) : Matches(d, waiver[w].result, g)}
  IN  IF \E w \in past : waiver[w].kind = "IS_A_BUG" THEN "CONTAINS_BUG"
      ELSE IF past # {} THEN "PREVIOUSLY_WAIVED"
      ELSE "NEEDS_INSPECTION"

Verdict(gs) ==
  IF Unwaived(gs) # {} THEN "NEEDS_INSPECTION"
  ELSE IF HasBugs(gs) THEN "BUG_CONFIRMED" ELSE "PASSED"

(* The result of a new scan, or a new one of a scan that already has the   *)
(* result `old`, which is then left without a binding.  The groups in      *)
(* `looked` were reached by find_processed_in_past.                        *)
CreateResult(old, defects, looked) ==
  LET n   == results + 1
      att == attached \ {old}
  IN  /\ results < MaxResults
      /\ results' = n
      /\ attached' = att \cup {n}
      /\ found' = [found EXCEPT ![n] = defects]
      /\ group' = [group EXCEPT ![n] =
                     [g \in Groups |->
                        IF defects[g] = None THEN "ABSENT"
                        ELSE IF g \in looked THEN Processed(defects[g], g, att)
                        ELSE "NEEDS_INSPECTION"]]
      /\ UNCHANGED waiverVars

FinishScan(old, defects) ==
  /\ CreateResult(old, defects, Groups)
  /\ state' = [state EXCEPT ![results + 1] = Verdict(group'[results + 1])]

(* process_scan raises with some of the defects stored and some of the     *)
(* groups looked up; the scan fails and the rows stay.                     *)
FinishScanFails(old, defects, looked) ==
  /\ CreateResult(old, defects, looked)
  /\ state' = [state EXCEPT ![results + 1] = "FAILED"]

(* The scan fails or is canceled after it got its result.                  *)
FailScan(r) ==
  /\ r \in attached
  /\ state' = [state EXCEPT ![r] = "FAILED"]
  /\ UNCHANGED <<resultVars, group, waiverVars>>

-----------------------------------------------------------------------------
(* The forms of a result group.                                            *)

Add(w, r, g, kind, active) ==
  [w EXCEPT ![waivers + 1] = [result |-> r, group |-> g, kind |-> kind,
                              is_active |-> active, is_deleted |-> FALSE]]

PostComment(r, g) ==
  /\ r \in attached
  /\ group[r][g] # "ABSENT"
  /\ waivers < MaxWaivers
  /\ waivers' = waivers + 1
  /\ waiver' = Add(waiver, r, g, "COMMENT", FALSE)
  /\ UNCHANGED <<resultVars, state, group>>

(* Bug: a scan is WAIVED although one of its groups contains a bug.        *)
MutFinalized(gs) == "WAIVED"

Finalized(gs) == IF HasBugs(gs) THEN "BUG_CONFIRMED" ELSE "WAIVED"

(* The row waiver_post deactivates is the latest of the group, whatever    *)
(* that is: a waiver, a deleted one or a comment.                          *)
Deactivated(r, g) ==
  [w \in Waivers |-> IF w \in Latest(RowsOf(r, g))
                     THEN [waiver[w] EXCEPT !.is_active = FALSE]
                     ELSE waiver[w]]

PostWaiver(r, g, kind) ==
  LET gs == [group[r] EXCEPT ![g] = IF kind = "IS_A_BUG" THEN "CONTAINS_BUG"
                                                         ELSE "WAIVED"]
  IN  /\ r \in attached
      /\ group[r][g] # "ABSENT"
      /\ waivers < MaxWaivers
      /\ waivers' = waivers + 1
      /\ waiver' = Add(Deactivated(r, g), r, g, kind, TRUE)
      /\ group' = [group EXCEPT ![r] = gs]
      /\ state' = [state EXCEPT ![r] = IF Unwaived(gs) = {} THEN Finalized(gs) ELSE @]
      /\ UNCHANGED resultVars

(* Bug: other waivers of the group are not looked for.                     *)
MutReopensAlways(w) ==
  waiver[w].kind # "COMMENT" /\ state[waiver[w].result] = "WAIVED"

(* Whether the group of the waiver w needs inspection again without it.    *)
Reopens(w) ==
  /\ waiver[w].kind # "COMMENT"
  /\ state[waiver[w].result] = "WAIVED"
  /\ LiveOf(waiver[w].result, waiver[w].group) \subseteq {w}

(* remove_waiver; nothing keeps it from removing one twice.                *)
RemoveWaiver(w) ==
  /\ w <= waivers
  /\ waiver[w].result \in attached
  /\ waiver' = [waiver EXCEPT ![w].is_deleted = TRUE]
  /\ IF Reopens(w)
     THEN /\ group' = [group EXCEPT ![waiver[w].result][waiver[w].group]
                         = "NEEDS_INSPECTION"]
          /\ state' = [state EXCEPT ![waiver[w].result] = "DISPUTED"]
     ELSE UNCHANGED <<group, state>>
  /\ UNCHANGED <<resultVars, waivers>>

-----------------------------------------------------------------------------
Init ==
  /\ results = 0
  /\ attached = {}
  /\ state = [r \in Results |-> "NONE"]
  /\ found = [r \in Results |-> [g \in Groups |-> None]]
  /\ group = [r \in Results |-> [g \in Groups |-> "ABSENT"]]
  /\ waivers = 0
  /\ waiver = [w \in Waivers |-> NoWaiver]

Load ==
  \E old \in attached \cup {0}, defects \in Contents :
    \/ FinishScan(old, defects)
    \/ \E looked \in SUBSET Groups : FinishScanFails(old, defects, looked)

Next ==
  \/ Load
  \/ \E r \in Results : FailScan(r)
  \/ \E r \in Results, g \in Groups :
       PostComment(r, g) \/ \E kind \in Kinds : PostWaiver(r, g, kind)
  \/ \E w \in Waivers : RemoveWaiver(w)

Spec == Init /\ [][Next]_vars

-----------------------------------------------------------------------------
(* Each column has its type.                                               *)
TypeOK ==
  /\ results \in 0 .. MaxResults
  /\ attached \subseteq 1 .. results
  /\ state \in [Results -> ScanStates]
  /\ found \in [Results -> [Groups -> Defects \cup {None}]]
  /\ group \in [Results -> [Groups -> GroupStates]]
  /\ waivers \in 0 .. MaxWaivers
  /\ waiver \in [Waivers -> [result : 0 .. MaxResults, group : Groups \cup {None},
                             kind : Kinds \cup {"COMMENT", "NONE"},
                             is_active : BOOLEAN, is_deleted : BOOLEAN]]

(* The state of a scan says what its groups say, through every order of    *)
(* waiving, changing and removing: it needs its owner's attention exactly  *)
(* while a group needs inspection, and BUG_CONFIRMED means that none does  *)
(* and one contains a bug.                                                 *)
VerdictMatchesGroups ==
  \A r \in attached : state[r] # "FAILED" =>
    /\ state[r] \in {"NEEDS_INSPECTION", "DISPUTED"} <=> Unwaived(group[r]) # {}
    /\ state[r] = "BUG_CONFIRMED" <=> Unwaived(group[r]) = {} /\ HasBugs(group[r])

(* Nothing is waived that nobody looked at: for each group that needs no   *)
(* inspection a user once posted a waiver of that kind on the very same    *)
(* defects, in that scan or an earlier one.                                *)
EverReviewed ==
  \A r \in Results, g \in Groups :
    group[r][g] \notin {"ABSENT", "NEEDS_INSPECTION"} =>
      \E w \in 1 .. waivers :
        /\ waiver[w].group = g
        /\ waiver[w].result \in 1 .. r
        /\ waiver[w].kind \in Kinds
        /\ found[waiver[w].result][g] = found[r][g]
        /\ group[r][g] = "CONTAINS_BUG" <=> waiver[w].kind = "IS_A_BUG"

(* A group that needs inspection has no waiver in force, which a later     *)
(* scan could inherit.                                                     *)
OpenHasNoWaiver ==
  \A r \in Results, g \in Groups :
    group[r][g] = "NEEDS_INSPECTION" => LiveOf(r, g) = {}

(* The comment on DISPUTED, "scan was waived but one of waivers was        *)
(* obsoleted": all groups but one are still waived, and a waiver of that   *)
(* one was removed.                                                        *)
DisputedHasReason ==
  \A r \in Results : state[r] = "DISPUTED" =>
    \E g \in Groups : /\ Unwaived(group[r]) = {g}
                      /\ \E w \in RowsOf(r, g) : waiver[w].is_deleted

(* A group that waits for inspection in the latest scan that has it waits  *)
(* in the next one too: an older waiver never speaks for it.               *)
UninspectedStaysVisible ==
  [][\A g \in Groups, r \in Results :
       /\ r = results'
       /\ r # results
       /\ group'[r][g] \notin {"ABSENT", "NEEDS_INSPECTION"}
       => \A q \in attached' \ {r} :
            \/ group[q][g] # "NEEDS_INSPECTION"
            \/ \E p \in attached' \ {r} : p > q /\ group[p][g] # "ABSENT"]_vars
=============================================================================
