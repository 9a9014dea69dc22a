----------------------------- MODULE WaivingProofs -----------------------------
(***************************************************************************)
(* Proofs about Waiving for every number of results and waivers, every set *)
(* of checker groups and everything scans may find in them; and about      *)
(* WaivingRequests, whose handlers run step by step, also for any number   *)
(* of requests at a time, of trackers and of bugs.                         *)
(***************************************************************************)
EXTENDS WaivingRequests, FiniteSetTheorems, TLAPS

-----------------------------------------------------------------------------
(* Waiving: each handler is one step.                                      *)

(* What the tables keep between the handlers: a row of Waiver names a      *)
(* group of defects that exists, and a comment is never in force.          *)
WaiverInv ==
  /\ \A w \in Waivers : w > waivers => waiver[w] = NoWaiver
  /\ \A w \in 1 .. waivers :
       /\ waiver[w].result \in 1 .. results
       /\ waiver[w].group \in Groups
       /\ group[waiver[w].result][waiver[w].group] # "ABSENT"
       /\ Live(w) => waiver[w].kind \in Kinds

(* A result that does not exist has no groups and no scan.                 *)
ResultInv ==
  \A r \in Results : r > results =>
    /\ state[r] = "NONE"
    /\ \A g \in Groups : group[r][g] = "ABSENT"

IInv ==
  /\ TypeOK
  /\ WaiverInv
  /\ ResultInv
  /\ VerdictMatchesGroups
  /\ EverReviewed
  /\ OpenHasNoWaiver
  /\ DisputedHasReason

USE BoundsAssumption, GroupsAssumption, ContentsAssumption, KindsAssumption

-----------------------------------------------------------------------------
(* Operators.                                                              *)

LEMMA WaiverFields ==
  ASSUME TypeOK, NEW w \in Waivers
  PROVE  /\ waiver[w].result \in 0 .. MaxResults
         /\ waiver[w].group \in Groups \cup {None}
         /\ waiver[w].kind \in Kinds \cup {"COMMENT", "NONE"}
         /\ waiver[w].is_active \in BOOLEAN
         /\ waiver[w].is_deleted \in BOOLEAN
  BY DEF TypeOK

(* Only existing rows are ever in force or named by a group.               *)
LEMMA RowExists ==
  ASSUME TypeOK, WaiverInv, NEW w \in Waivers, waiver[w] # NoWaiver
  PROVE  w \in 1 .. waivers
  BY DEF TypeOK, WaiverInv, Waivers

LEMMA LiveRow ==
  ASSUME TypeOK, WaiverInv, NEW w \in Waivers, Live(w)
  PROVE  /\ w \in 1 .. waivers
         /\ waiver[w].result \in 1 .. results
         /\ waiver[w].group \in Groups
         /\ waiver[w].kind \in Kinds
         /\ group[waiver[w].result][waiver[w].group] # "ABSENT"
<1>1. waiver[w] # NoWaiver
  BY DEF Live, NoWaiver
<1> QED BY <1>1, RowExists DEF WaiverInv

LEMMA InitIInv == Init => IInv
<1> SUFFICES ASSUME Init PROVE IInv
  OBVIOUS
<1>1. TypeOK
  BY DEF Init, TypeOK, NoWaiver, ScanStates, GroupStates, Results, Waivers
<1>2. WaiverInv
  BY DEF Init, WaiverInv, Waivers
<1>3. ResultInv /\ VerdictMatchesGroups /\ EverReviewed /\ OpenHasNoWaiver /\ DisputedHasReason
  BY DEF Init, ResultInv, VerdictMatchesGroups, EverReviewed, OpenHasNoWaiver, DisputedHasReason, Results
<1> QED BY <1>1, <1>2, <1>3 DEF IInv

-----------------------------------------------------------------------------
(* A new Result.                                                           *)

(* A group is only born inspected if a waiver in force says so, which is   *)
(* on a result no older than any that has the group uninspected.           *)
LEMMA ProcessedByWaiver ==
  ASSUME IInv, NEW d, NEW g \in Groups, NEW att \in SUBSET attached,
         Processed(d, g, att) # "NEEDS_INSPECTION"
  PROVE  /\ Processed(d, g, att) \in {"CONTAINS_BUG", "PREVIOUSLY_WAIVED"}
         /\ \E w \in 1 .. waivers :
              /\ Live(w)
              /\ waiver[w].group = g
              /\ waiver[w].result \in att \cap (1 .. results)
              /\ waiver[w].kind \in Kinds
              /\ found[waiver[w].result][g] = d
              /\ Processed(d, g, att) = "CONTAINS_BUG" <=> waiver[w].kind = "IS_A_BUG"
              /\ \A q \in att : q > waiver[w].result => group[q][g] # "NEEDS_INSPECTION"
<1> DEFINE past == {w \in LastWaiver(g, att) : Matches(d, waiver[w].result, g)}
<1>1. PICK w \in past : TRUE
  BY DEF Processed
<1>2. /\ w \in Waivers /\ Live(w) /\ waiver[w].group = g /\ waiver[w].result \in att
      /\ \A q \in att : q > waiver[w].result => group[q][g] # "NEEDS_INSPECTION"
      /\ found[waiver[w].result][g] = d
  BY <1>1 DEF LastWaiver, Latest, Matches
<1>3. w \in 1 .. waivers /\ waiver[w].result \in 1 .. results /\ waiver[w].kind \in Kinds
  BY <1>2, LiveRow DEF IInv
<1>4. \A v \in past : v = w
  <2> SUFFICES ASSUME NEW v \in past PROVE v = w
    OBVIOUS
  <2>1. v <= w /\ w <= v /\ v \in Waivers /\ w \in Waivers
    BY <1>1 DEF LastWaiver, Latest
  <2> QED BY <2>1 DEF Waivers
<1>5. (\E v \in past : waiver[v].kind = "IS_A_BUG") <=> waiver[w].kind = "IS_A_BUG"
  BY <1>1, <1>4
<1>6. Processed(d, g, att) = IF waiver[w].kind = "IS_A_BUG" THEN "CONTAINS_BUG"
                                                       ELSE "PREVIOUSLY_WAIVED"
  BY <1>1, <1>5 DEF Processed
<1> QED BY <1>2, <1>3, <1>6

LEMMA ProcessedStates ==
  ASSUME NEW d, NEW g, NEW att
  PROVE  Processed(d, g, att) \in {"CONTAINS_BUG", "PREVIOUSLY_WAIVED", "NEEDS_INSPECTION"}
  BY DEF Processed

(* What both outcomes of process_scan leave behind.                        *)
LEMMA CreateResultKeeps ==
  ASSUME IInv, NEW old \in attached \cup {0}, NEW defects \in Contents,
         NEW looked \in SUBSET Groups, CreateResult(old, defects, looked),
         NEW st \in ScanStates,
         state' = [state EXCEPT ![results + 1] = st],
         st \in {"FAILED", Verdict(group'[results + 1])}
  PROVE  IInv'
<1> DEFINE n == results + 1
           att == attached \ {old}
<1>1. /\ n \in Results /\ results \in Nat /\ results' = n /\ n \notin attached
      /\ attached' = att \cup {n}
      /\ UNCHANGED <<waivers, waiver>>
      /\ defects \in [Groups -> Defects \cup {None}]
  BY DEF IInv, TypeOK, CreateResult, waiverVars, Results
<1>2. /\ found' = [found EXCEPT ![n] = defects]
      /\ found'[n] = defects
      /\ \A r \in Results : r # n => found'[r] = found[r]
  BY <1>1 DEF IInv, TypeOK, CreateResult
<1>3. /\ \A g \in Groups : group'[n][g] = IF defects[g] = None THEN "ABSENT"
                             ELSE IF g \in looked THEN Processed(defects[g], g, att)
                             ELSE "NEEDS_INSPECTION"
      /\ \A r \in Results : r # n => group'[r] = group[r]
      /\ group'[n] \in [Groups -> GroupStates]
      /\ group' \in [Results -> [Groups -> GroupStates]]
  <2> DEFINE new == [g \in Groups |-> IF defects[g] = None THEN "ABSENT"
                             ELSE IF g \in looked THEN Processed(defects[g], g, att)
                             ELSE "NEEDS_INSPECTION"]
  <2>1. group' = [group EXCEPT ![n] = new]
    BY DEF CreateResult
  <2>2. new \in [Groups -> GroupStates]
    BY ProcessedStates DEF GroupStates
  <2>3. group \in [Results -> [Groups -> GroupStates]]
    BY DEF IInv, TypeOK
  <2>4. group'[n] = new /\ group' \in [Results -> [Groups -> GroupStates]]
        /\ \A r \in Results : r # n => group'[r] = group[r]
    BY <1>1, <2>1, <2>2, <2>3
  <2> QED BY <2>2, <2>4
<1>4. state'[n] = st /\ \A r \in Results : r # n => state'[r] = state[r]
  BY <1>1 DEF IInv, TypeOK
<1>5. \A w \in 1 .. waivers : waiver[w].result \in 1 .. results /\ waiver[w].result # n
                              /\ waiver[w].result \in Results /\ w \in Waivers
  BY <1>1 DEF IInv, WaiverInv, TypeOK, Results, Waivers
<1>6. TypeOK'
  <2>1. found' \in [Results -> [Groups -> Defects \cup {None}]]
    BY <1>1, <1>2 DEF IInv, TypeOK
  <2>2. state' \in [Results -> ScanStates]
    BY <1>1 DEF IInv, TypeOK
  <2>3. results' \in 0 .. MaxResults /\ attached' \subseteq 1 .. results'
    BY <1>1 DEF IInv, TypeOK, Results
  <2>4. waivers' \in 0 .. MaxWaivers
        /\ waiver' \in [Waivers -> [result : 0 .. MaxResults, group : Groups \cup {None},
                             kind : Kinds \cup {"COMMENT", "NONE"},
                             is_active : BOOLEAN, is_deleted : BOOLEAN]]
    BY <1>1 DEF IInv, TypeOK
  <2> QED BY <1>3, <2>1, <2>2, <2>3, <2>4 DEF TypeOK
<1>7. WaiverInv'
  <2>1. \A w \in 1 .. waivers : waiver[w].result \in 1 .. results'
    BY <1>1, <1>5
  <2>2. \A w \in Waivers : Live(w)' = Live(w)
    BY <1>1 DEF Live
  <2> QED BY <1>1, <1>3, <1>5, <2>1, <2>2 DEF IInv, WaiverInv
<1>8. ResultInv'
  BY <1>1, <1>3, <1>4 DEF IInv, ResultInv, Results
<1>9. VerdictMatchesGroups'
  <2> SUFFICES ASSUME NEW r \in attached', state'[r] # "FAILED"
               PROVE  /\ state'[r] \in {"NEEDS_INSPECTION", "DISPUTED"}
                            <=> Unwaived(group'[r]) # {}
                      /\ state'[r] = "BUG_CONFIRMED"
                            <=> Unwaived(group'[r]) = {} /\ HasBugs(group'[r])
    BY DEF VerdictMatchesGroups
  <2>1. CASE r = n
    BY <1>4, <2>1 DEF Verdict
  <2>2. CASE r # n
    <3>1. r \in attached /\ r \in Results
      BY <1>1, <2>2 DEF IInv, TypeOK, Results
    <3>2. state'[r] = state[r] /\ group'[r] = group[r]
      BY <1>3, <1>4, <2>2, <3>1
    <3> QED BY <3>1, <3>2 DEF IInv, VerdictMatchesGroups
  <2> QED BY <2>1, <2>2
<1>10. EverReviewed'
  <2> SUFFICES ASSUME NEW r \in Results, NEW g \in Groups,
                      group'[r][g] \notin {"ABSENT", "NEEDS_INSPECTION"}
               PROVE  \E w \in 1 .. waivers :
                        /\ waiver[w].group = g
                        /\ waiver[w].result \in 1 .. r
                        /\ waiver[w].kind \in Kinds
                        /\ found'[waiver[w].result][g] = found'[r][g]
                        /\ group'[r][g] = "CONTAINS_BUG" <=> waiver[w].kind = "IS_A_BUG"
    BY <1>1 DEF EverReviewed
  <2>1. CASE r = n
    <3>1. group'[n][g] = Processed(defects[g], g, att)
      BY <1>3, <2>1
    <3>2. att \subseteq attached
      OBVIOUS
    <3>3. PICK w \in 1 .. waivers :
              /\ waiver[w].group = g
              /\ waiver[w].kind \in Kinds
              /\ found[waiver[w].result][g] = defects[g]
              /\ Processed(defects[g], g, att) = "CONTAINS_BUG" <=> waiver[w].kind = "IS_A_BUG"
      BY <2>1, <3>1, <3>2, ProcessedByWaiver
    <3>4. waiver[w].result \in 1 .. n /\ found'[waiver[w].result] = found[waiver[w].result]
      BY <1>1, <1>2, <1>5
    <3> QED BY <1>2, <2>1, <3>1, <3>3, <3>4
  <2>2. CASE r # n
    <3>1. PICK w \in 1 .. waivers :
              /\ waiver[w].group = g
              /\ waiver[w].result \in 1 .. r
              /\ waiver[w].kind \in Kinds
              /\ found[waiver[w].result][g] = found[r][g]
              /\ group[r][g] = "CONTAINS_BUG" <=> waiver[w].kind = "IS_A_BUG"
      BY <1>3, <2>2 DEF IInv, EverReviewed
    <3>2. found'[waiver[w].result] = found[waiver[w].result] /\ found'[r] = found[r]
      BY <1>2, <1>5, <2>2
    <3>3. group'[r] = group[r]
      BY <1>3, <2>2
    <3> QED BY <3>1, <3>2, <3>3
  <2> QED BY <2>1, <2>2
<1>11. OpenHasNoWaiver'
  <2> SUFFICES ASSUME NEW r \in Results, NEW g \in Groups,
                      group'[r][g] = "NEEDS_INSPECTION", NEW w \in LiveOf(r, g)'
               PROVE  FALSE
    BY DEF OpenHasNoWaiver
  <2>1. w \in Waivers /\ Live(w) /\ waiver[w].result = r /\ waiver[w].group = g
    BY <1>1 DEF LiveOf, RowsOf, Live
  <2>2. r # n
    BY <2>1, <1>5, LiveRow DEF IInv
  <2> QED BY <1>3, <2>1, <2>2 DEF IInv, OpenHasNoWaiver, LiveOf, RowsOf
<1>12. DisputedHasReason'
  <2>1. st # "DISPUTED"
    BY DEF Verdict
  <2> SUFFICES ASSUME NEW r \in Results, state'[r] = "DISPUTED"
               PROVE  \E g \in Groups :
                        /\ Unwaived(group'[r]) = {g}
                        /\ \E w \in RowsOf(r, g)' : waiver'[w].is_deleted
    BY DEF DisputedHasReason
  <2>2. state[r] = "DISPUTED" /\ group'[r] = group[r]
    BY <1>3, <1>4, <2>1
  <2>3. PICK g \in Groups : /\ Unwaived(group[r]) = {g}
                           /\ \E w \in RowsOf(r, g) : waiver[w].is_deleted
    BY <2>2 DEF IInv, DisputedHasReason
  <2>4. RowsOf(r, g)' = RowsOf(r, g)
    BY <1>1 DEF RowsOf
  <2> QED BY <1>1, <2>2, <2>3, <2>4
<1> QED BY <1>6, <1>7, <1>8, <1>9, <1>10, <1>11, <1>12 DEF IInv

LEMMA LoadIInv == ASSUME IInv, Load PROVE IInv'
<1>1. PICK old \in attached \cup {0}, defects \in Contents :
         \/ FinishScan(old, defects)
         \/ \E looked \in SUBSET Groups : FinishScanFails(old, defects, looked)
  BY DEF Load
<1>2. CASE FinishScan(old, defects)
  <2>1. Verdict(group'[results + 1]) \in ScanStates
    BY DEF Verdict, ScanStates
  <2>2. CreateResult(old, defects, Groups) /\ Groups \in SUBSET Groups
    BY <1>2 DEF FinishScan
  <2>3. PICK st \in ScanStates : st = Verdict(group'[results + 1])
    BY <2>1
  <2>4. state' = [state EXCEPT ![results + 1] = st]
    BY <1>2, <2>3 DEF FinishScan
  <2> QED BY <1>1, <2>2, <2>3, <2>4, CreateResultKeeps
<1>3. CASE \E looked \in SUBSET Groups : FinishScanFails(old, defects, looked)
  <2>1. "FAILED" \in ScanStates
    BY DEF ScanStates
  <2> QED BY <1>3, <2>1, CreateResultKeeps DEF FinishScanFails
<1> QED BY <1>1, <1>2, <1>3

LEMMA FailScanIInv == ASSUME IInv, NEW r \in Results, FailScan(r) PROVE IInv'
<1>1. r \in attached /\ state' = [state EXCEPT ![r] = "FAILED"]
      /\ UNCHANGED <<results, attached, found, group, waivers, waiver>>
  BY DEF FailScan, resultVars, waiverVars
<1>2. TypeOK'
  BY <1>1 DEF IInv, TypeOK, ScanStates
<1>3. WaiverInv' /\ EverReviewed' /\ OpenHasNoWaiver'
  BY <1>1 DEF IInv, WaiverInv, EverReviewed, OpenHasNoWaiver, Live, LiveOf, RowsOf
<1>4. ResultInv'
  BY <1>1 DEF IInv, TypeOK, ResultInv, Results
<1>5. VerdictMatchesGroups'
  <2> SUFFICES ASSUME NEW q \in attached, state'[q] # "FAILED"
               PROVE  state'[q] = state[q] /\ group'[q] = group[q]
    BY <1>1 DEF IInv, VerdictMatchesGroups
  <2>1. r \in Results /\ q \in Results
    BY <1>1 DEF IInv, TypeOK, Results
  <2> QED BY <1>1, <2>1 DEF IInv, TypeOK
<1>6. DisputedHasReason'
  BY <1>1 DEF IInv, TypeOK, DisputedHasReason, RowsOf
<1> QED BY <1>2, <1>3, <1>4, <1>5, <1>6 DEF IInv

-----------------------------------------------------------------------------
(* The forms of a result group.                                            *)

WaiverRows == [result : 0 .. MaxResults, group : Groups \cup {None},
               kind : Kinds \cup {"COMMENT", "NONE"},
               is_active : BOOLEAN, is_deleted : BOOLEAN]

(* The rows of `waiver`, some of them put out of force.                    *)
SameRows(old) ==
  /\ old \in [Waivers -> WaiverRows]
  /\ \A w \in Waivers :
       /\ old[w].result = waiver[w].result
       /\ old[w].group = waiver[w].group
       /\ old[w].kind = waiver[w].kind
       /\ old[w].is_deleted = waiver[w].is_deleted
       /\ old[w].is_active => waiver[w].is_active

LEMMA NoWaiverFields ==
  ASSUME NEW w \in WaiverRows, w.result = 0, w.group = None, w.kind = "NONE",
         ~w.is_active, ~w.is_deleted
  PROVE  w = NoWaiver
  BY DEF NoWaiver, WaiverRows

(* A post adds one row and leaves the others what they are, except that    *)
(* some may be out of force.                                               *)
(* What is known of the rows when `new` was added as row n.                *)
Appended(n, new) ==
  /\ n \in Waivers
  /\ waivers' \in 0 .. MaxWaivers
  /\ waiver' \in [Waivers -> WaiverRows]
  /\ waiver'[n] = new
  /\ \A w \in 1 .. waivers :
       /\ w \in Waivers /\ w # n
       /\ waiver'[w].result = waiver[w].result
       /\ waiver'[w].group = waiver[w].group
       /\ waiver'[w].kind = waiver[w].kind
       /\ waiver'[w].is_deleted = waiver[w].is_deleted
       /\ Live(w)' => Live(w)
  /\ \A w \in Waivers : w > n => waiver'[w] = NoWaiver
  /\ 1 .. n = 1 .. waivers \cup {n}

LEMMA PostedRow ==
  ASSUME IInv, NEW old, SameRows(old), NEW new \in WaiverRows,
         waivers < MaxWaivers, NEW n, n = waivers + 1, waivers' = n,
         waiver' = [old EXCEPT ![n] = new]
  PROVE  Appended(n, new)
<1>1. n \in Waivers /\ waivers \in Nat /\ waivers' \in 0 .. MaxWaivers
  BY DEF IInv, TypeOK, Waivers
<1>2. old \in [Waivers -> WaiverRows]
  BY DEF SameRows
<1>3. /\ waiver'[n] = new
      /\ \A w \in Waivers : w # n => waiver'[w] = old[w]
      /\ waiver' \in [Waivers -> WaiverRows]
  BY <1>1, <1>2
<1>4. ASSUME NEW w \in Waivers, waiver[w] = NoWaiver PROVE old[w] = NoWaiver
  <2>1. /\ old[w] \in WaiverRows /\ old[w].result = 0 /\ old[w].group = None
        /\ old[w].kind = "NONE" /\ ~old[w].is_active /\ ~old[w].is_deleted
    BY <1>2, <1>4 DEF SameRows, NoWaiver
  <2> QED BY <2>1, NoWaiverFields
<1>5. \A w \in Waivers : w > n => waiver'[w] = NoWaiver
  BY <1>1, <1>3, <1>4 DEF IInv, WaiverInv, Waivers
<1>6. \A w \in 1 .. waivers : w \in Waivers /\ w # n
  BY <1>1 DEF IInv, TypeOK, Waivers
<1>7. 1 .. n = 1 .. waivers \cup {n}
  BY <1>1
<1>8. ASSUME NEW w \in 1 .. waivers
      PROVE  /\ waiver'[w].result = waiver[w].result
             /\ waiver'[w].group = waiver[w].group
             /\ waiver'[w].kind = waiver[w].kind
             /\ waiver'[w].is_deleted = waiver[w].is_deleted
             /\ waiver'[w].is_active => waiver[w].is_active
  BY <1>3, <1>6 DEF SameRows
<1>9. \A w \in 1 .. waivers : Live(w)' => Live(w)
  BY <1>8 DEF Live
<1> QED BY <1>1, <1>3, <1>5, <1>6, <1>7, <1>8, <1>9 DEF Appended

LEMMA PostCommentIInv ==
  ASSUME IInv, NEW r \in Results, NEW g \in Groups, PostComment(r, g)
  PROVE  IInv'
<1>1. /\ r \in attached /\ group[r][g] # "ABSENT"
      /\ waivers < MaxWaivers /\ waivers' = waivers + 1
      /\ waiver' = Add(waiver, r, g, "COMMENT", FALSE)
      /\ UNCHANGED <<results, attached, found, state, group>>
  BY DEF PostComment, resultVars
<1>2. PICK n : n = waivers + 1 /\ waivers' = n
  BY <1>1
<1>3. PICK new \in WaiverRows :
         new = [result |-> r, group |-> g, kind |-> "COMMENT",
                is_active |-> FALSE, is_deleted |-> FALSE]
  <2> DEFINE row == [result |-> r, group |-> g, kind |-> "COMMENT",
                     is_active |-> FALSE, is_deleted |-> FALSE]
  <2>1. row \in WaiverRows
    BY <1>1 DEF IInv, TypeOK, WaiverRows
  <2> HIDE DEF row
  <2>2. \E new \in WaiverRows : new = row
    BY <2>1
  <2> QED BY <2>2 DEF row
<1>4. r \in 1 .. results
  BY <1>1 DEF IInv, TypeOK
<1>5. PICK old : SameRows(old) /\ waiver' = [old EXCEPT ![n] = new]
  <2>1. SameRows(waiver)
    BY DEF IInv, TypeOK, SameRows, WaiverRows
  <2> QED BY <1>2, <1>1, <1>3, <2>1 DEF Add
<1>6. /\ n \in Waivers
      /\ waivers' \in 0 .. MaxWaivers
      /\ waiver' \in [Waivers -> WaiverRows]
      /\ waiver'[n] = new
      /\ \A w \in 1 .. waivers :
           /\ w \in Waivers /\ w # n
           /\ waiver'[w].result = waiver[w].result
           /\ waiver'[w].group = waiver[w].group
           /\ waiver'[w].kind = waiver[w].kind
           /\ waiver'[w].is_deleted = waiver[w].is_deleted
           /\ Live(w)' => Live(w)
      /\ \A w \in Waivers : w > n => waiver'[w] = NoWaiver
      /\ 1 .. n = 1 .. waivers \cup {n}
  <2>1. waivers < MaxWaivers
    BY <1>1
  <2>2. n = waivers + 1 /\ waivers' = n
    BY <1>2
  <2>3. SameRows(old) /\ waiver' = [old EXCEPT ![n] = new]
    BY <1>5
  <2>4. Appended(n, new)
    BY <2>1, <2>2, <2>3, PostedRow
  <2> QED BY <2>4 DEF Appended
<1>7. TypeOK'
  BY <1>1, <1>6 DEF IInv, TypeOK, WaiverRows
<1>8. ~Live(n)'
  BY <1>3, <1>6 DEF Live
<1>9. WaiverInv'
  <2>1. waiver'[n].result = r /\ waiver'[n].group = g
    BY <1>3, <1>6
  <2>2. ASSUME NEW w \in 1 .. waivers
        PROVE  /\ waiver'[w].result \in 1 .. results
               /\ waiver'[w].group \in Groups
               /\ group[waiver'[w].result][waiver'[w].group] # "ABSENT"
               /\ Live(w)' => waiver'[w].kind \in Kinds
    BY <1>6 DEF IInv, WaiverInv
  <2> QED BY <1>2, <1>1, <1>4, <1>6, <1>8, <2>1, <2>2 DEF WaiverInv
<1>10. ResultInv' /\ VerdictMatchesGroups'
  BY <1>1 DEF IInv, ResultInv, VerdictMatchesGroups
<1>11. EverReviewed'
  <2> SUFFICES ASSUME NEW q \in Results, NEW h \in Groups,
                      group'[q][h] \notin {"ABSENT", "NEEDS_INSPECTION"}
               PROVE  \E w \in 1 .. waivers' :
                        /\ waiver'[w].group = h
                        /\ waiver'[w].result \in 1 .. q
                        /\ waiver'[w].kind \in Kinds
                        /\ found'[waiver'[w].result][h] = found'[q][h]
                        /\ group'[q][h] = "CONTAINS_BUG" <=> waiver'[w].kind = "IS_A_BUG"
    BY DEF EverReviewed
  <2>1. PICK w \in 1 .. waivers :
                        /\ waiver[w].group = h
                        /\ waiver[w].result \in 1 .. q
                        /\ waiver[w].kind \in Kinds
                        /\ found[waiver[w].result][h] = found[q][h]
                        /\ group[q][h] = "CONTAINS_BUG" <=> waiver[w].kind = "IS_A_BUG"
    BY <1>1 DEF IInv, EverReviewed
  <2> QED BY <1>2, <1>1, <1>6, <2>1
<1>12. \A q \in Results, h \in Groups : LiveOf(q, h)' \subseteq LiveOf(q, h)
  <2> SUFFICES ASSUME NEW q \in Results, NEW h \in Groups, NEW w \in LiveOf(q, h)'
               PROVE  w \in LiveOf(q, h)
    OBVIOUS
  <2>1. w \in Waivers /\ Live(w)' /\ waiver'[w].result = q /\ waiver'[w].group = h
    BY DEF LiveOf, RowsOf
  <2>2. w \in 1 .. waivers
    <3>1. w # n
      BY <1>8, <2>1
    <3>2. ~(w > n)
      BY <1>6, <2>1 DEF Live, NoWaiver
    <3> QED BY <1>2, <1>6, <2>1, <3>1, <3>2 DEF Waivers, IInv, TypeOK
  <2> QED BY <1>6, <2>1, <2>2 DEF LiveOf, RowsOf
<1>13. OpenHasNoWaiver'
  BY <1>1, <1>12 DEF IInv, OpenHasNoWaiver
<1>14. DisputedHasReason'
  <2> SUFFICES ASSUME NEW q \in Results, NEW h \in Groups,
                      NEW w \in RowsOf(q, h), waiver[w].is_deleted
               PROVE  w \in RowsOf(q, h)' /\ waiver'[w].is_deleted
    BY <1>1 DEF IInv, DisputedHasReason
  <2>1. w \in 1 .. waivers
    BY RowExists DEF RowsOf, NoWaiver, IInv
  <2> QED BY <1>6, <2>1 DEF RowsOf
<1> QED BY <1>7, <1>9, <1>10, <1>11, <1>13, <1>14 DEF IInv

LEMMA PostWaiverIInv ==
  ASSUME IInv, NEW r \in Results, NEW g \in Groups, NEW kind \in Kinds, PostWaiver(r, g, kind)
  PROVE  IInv'
<1> DEFINE gs == [group[r] EXCEPT ![g] = IF kind = "IS_A_BUG" THEN "CONTAINS_BUG"
                                                              ELSE "WAIVED"]
<1>1. /\ r \in attached /\ group[r][g] # "ABSENT"
      /\ waivers < MaxWaivers /\ waivers' = waivers + 1
      /\ waiver' = Add(Deactivated(r, g), r, g, kind, TRUE)
      /\ group' = [group EXCEPT ![r] = gs]
      /\ state' = [state EXCEPT ![r] = IF Unwaived(gs) = {} THEN Finalized(gs) ELSE state[r]]
      /\ UNCHANGED <<results, attached, found>>
  BY DEF PostWaiver, resultVars
<1>2. PICK n : n = waivers + 1 /\ waivers' = n
  BY <1>1
<1>3. PICK new \in WaiverRows :
         new = [result |-> r, group |-> g, kind |-> kind,
                is_active |-> TRUE, is_deleted |-> FALSE]
  <2> DEFINE row == [result |-> r, group |-> g, kind |-> kind,
                     is_active |-> TRUE, is_deleted |-> FALSE]
  <2>1. row \in WaiverRows
    BY <1>1 DEF IInv, TypeOK, WaiverRows
  <2> HIDE DEF row
  <2>2. \E new \in WaiverRows : new = row
    BY <2>1
  <2> QED BY <2>2 DEF row
<1>4. r \in 1 .. results /\ r <= results
  BY <1>1 DEF IInv, TypeOK
<1>5. PICK old : SameRows(old) /\ waiver' = [old EXCEPT ![n] = new]
  <2>1. SameRows(Deactivated(r, g))
    BY DEF IInv, TypeOK, SameRows, WaiverRows, Deactivated
  <2> QED BY <1>2, <1>1, <1>3, <2>1 DEF Add
<1>6. /\ n \in Waivers
      /\ waivers' \in 0 .. MaxWaivers
      /\ waiver' \in [Waivers -> WaiverRows]
      /\ waiver'[n] = new
      /\ \A w \in 1 .. waivers :
           /\ w \in Waivers /\ w # n
           /\ waiver'[w].result = waiver[w].result
           /\ waiver'[w].group = waiver[w].group
           /\ waiver'[w].kind = waiver[w].kind
           /\ waiver'[w].is_deleted = waiver[w].is_deleted
           /\ Live(w)' => Live(w)
      /\ \A w \in Waivers : w > n => waiver'[w] = NoWaiver
      /\ 1 .. n = 1 .. waivers \cup {n}
  <2>1. waivers < MaxWaivers
    BY <1>1
  <2>2. n = waivers + 1 /\ waivers' = n
    BY <1>2
  <2>3. SameRows(old) /\ waiver' = [old EXCEPT ![n] = new]
    BY <1>5
  <2>4. Appended(n, new)
    BY <2>1, <2>2, <2>3, PostedRow
  <2> QED BY <2>4 DEF Appended
<1>7. /\ gs \in [Groups -> GroupStates]
      /\ gs[g] = IF kind = "IS_A_BUG" THEN "CONTAINS_BUG" ELSE "WAIVED"
      /\ \A h \in Groups : h # g => gs[h] = group[r][h]
  BY DEF IInv, TypeOK, GroupStates
<1>8. /\ group' \in [Results -> [Groups -> GroupStates]]
      /\ group'[r] = gs
      /\ \A q \in Results : q # r => group'[q] = group[q]
  BY <1>1, <1>7 DEF IInv, TypeOK
<1>9. /\ state' \in [Results -> ScanStates]
      /\ state'[r] = IF Unwaived(gs) = {} THEN Finalized(gs) ELSE state[r]
      /\ \A q \in Results : q # r => state'[q] = state[q]
  <2>1. Finalized(gs) \in ScanStates
    BY DEF Finalized, ScanStates
  <2> QED BY <1>1, <2>1 DEF IInv, TypeOK
<1>10. Unwaived(gs) = Unwaived(group[r]) \ {g}
  BY <1>7 DEF Unwaived
<1>11. TypeOK'
  BY <1>1, <1>6, <1>8, <1>9 DEF IInv, TypeOK, WaiverRows
<1>12. \A q \in Results, h \in Groups :
         /\ group'[q][h] = "ABSENT" <=> group[q][h] = "ABSENT"
         /\ group'[q][h] = "NEEDS_INSPECTION" => group[q][h] = "NEEDS_INSPECTION"
  BY <1>1, <1>7, <1>8
<1>13. WaiverInv'
  <2>1. waiver'[n].result = r /\ waiver'[n].group = g /\ waiver'[n].kind = kind
    BY <1>3, <1>6
  <2>2. ASSUME NEW w \in 1 .. waivers
        PROVE  /\ waiver'[w].result \in 1 .. results
               /\ waiver'[w].group \in Groups
               /\ group'[waiver'[w].result][waiver'[w].group] # "ABSENT"
               /\ Live(w)' => waiver'[w].kind \in Kinds
    <3>1. waiver[w].result \in Results
      BY DEF IInv, WaiverInv, TypeOK, Results
    <3> QED BY <1>6, <1>12, <3>1 DEF IInv, WaiverInv
  <2>3. group'[r][g] # "ABSENT"
    BY <1>7, <1>8
  <2>4. \A w \in 1 .. n :
         /\ waiver'[w].result \in 1 .. results
         /\ waiver'[w].group \in Groups
         /\ group'[waiver'[w].result][waiver'[w].group] # "ABSENT"
         /\ Live(w)' => waiver'[w].kind \in Kinds
    BY <1>4, <1>6, <2>1, <2>2, <2>3
  <2> QED BY <1>2, <1>1, <1>6, <2>4 DEF WaiverInv
<1>14. ResultInv'
  <2> SUFFICES ASSUME NEW q \in Results, q > results
               PROVE  state'[q] = "NONE" /\ \A h \in Groups : group'[q][h] = "ABSENT"
    BY <1>1 DEF ResultInv
  <2>1. q # r
    BY <1>4 DEF Results, IInv, TypeOK
  <2> QED BY <1>8, <1>9, <2>1 DEF IInv, ResultInv
<1>15. VerdictMatchesGroups'
  <2> SUFFICES ASSUME NEW q \in attached, state'[q] # "FAILED"
               PROVE  /\ state'[q] \in {"NEEDS_INSPECTION", "DISPUTED"}
                            <=> Unwaived(group'[q]) # {}
                      /\ state'[q] = "BUG_CONFIRMED"
                            <=> Unwaived(group'[q]) = {} /\ HasBugs(group'[q])
    BY <1>1 DEF VerdictMatchesGroups
  <2>1. q \in Results
    BY DEF IInv, TypeOK, Results
  <2>2. CASE q # r
    BY <1>8, <1>9, <2>1, <2>2 DEF IInv, VerdictMatchesGroups
  <2>3. CASE q = r /\ Unwaived(gs) = {}
    BY <1>8, <1>9, <2>3 DEF Finalized
  <2>4. CASE q = r /\ Unwaived(gs) # {}
    <3>1. state[r] # "FAILED" /\ Unwaived(group[r]) # {}
      BY <1>9, <1>10, <2>4
    <3>2. state[r] \in {"NEEDS_INSPECTION", "DISPUTED"}
      BY <1>1, <3>1 DEF IInv, VerdictMatchesGroups
    <3> QED BY <1>8, <1>9, <2>4, <3>2
  <2> QED BY <2>2, <2>3, <2>4
<1>16. EverReviewed'
  <2> SUFFICES ASSUME NEW q \in Results, NEW h \in Groups,
                      group'[q][h] \notin {"ABSENT", "NEEDS_INSPECTION"}
               PROVE  \E w \in 1 .. waivers' :
                        /\ waiver'[w].group = h
                        /\ waiver'[w].result \in 1 .. q
                        /\ waiver'[w].kind \in Kinds
                        /\ found'[waiver'[w].result][h] = found'[q][h]
                        /\ group'[q][h] = "CONTAINS_BUG" <=> waiver'[w].kind = "IS_A_BUG"
    BY DEF EverReviewed
  <2>1. CASE q = r /\ h = g
    <3>1. n \in 1 .. n /\ r \in 1 .. r
      BY <1>4, <1>6 DEF IInv, TypeOK, Waivers
    <3>2. waiver'[n].result = r /\ waiver'[n].group = g /\ waiver'[n].kind = kind
      BY <1>3, <1>6
    <3>3. group'[r][g] = "CONTAINS_BUG" <=> kind = "IS_A_BUG"
      BY <1>7, <1>8
    <3> HIDE DEF gs
    <3> QED BY <1>2, <2>1, <3>1, <3>2, <3>3
  <2>2. CASE ~(q = r /\ h = g)
    <3>1. group'[q][h] = group[q][h]
      BY <1>7, <1>8, <2>2
    <3>2. PICK w \in 1 .. waivers :
                        /\ waiver[w].group = h
                        /\ waiver[w].result \in 1 .. q
                        /\ waiver[w].kind \in Kinds
                        /\ found[waiver[w].result][h] = found[q][h]
                        /\ group[q][h] = "CONTAINS_BUG" <=> waiver[w].kind = "IS_A_BUG"
      BY <3>1 DEF IInv, EverReviewed
    <3> QED BY <1>2, <1>1, <1>6, <3>1, <3>2
  <2> QED BY <2>1, <2>2
<1>17. OpenHasNoWaiver'
  <2> SUFFICES ASSUME NEW q \in Results, NEW h \in Groups,
                      group'[q][h] = "NEEDS_INSPECTION", NEW w \in LiveOf(q, h)'
               PROVE  FALSE
    BY DEF OpenHasNoWaiver
  <2>1. w \in Waivers /\ Live(w)' /\ waiver'[w].result = q /\ waiver'[w].group = h
    BY DEF LiveOf, RowsOf
  <2>2. w # n
    BY <1>3, <1>6, <1>7, <1>8, <2>1
  <2>3. ~(w > n)
    BY <1>6, <2>1 DEF Live, NoWaiver
  <2>4. w \in 1 .. waivers
    BY <1>2, <1>6, <2>1, <2>2, <2>3 DEF Waivers, IInv, TypeOK
  <2>5. w \in LiveOf(q, h)
    BY <1>6, <2>1, <2>4 DEF LiveOf, RowsOf
  <2> QED BY <1>12, <2>5 DEF IInv, OpenHasNoWaiver
<1>18. DisputedHasReason'
  <2> SUFFICES ASSUME NEW q \in Results, state'[q] = "DISPUTED"
               PROVE  \E h \in Groups :
                        /\ Unwaived(group'[q]) = {h}
                        /\ \E w \in RowsOf(q, h)' : waiver'[w].is_deleted
    BY DEF DisputedHasReason
  <2>1. state[q] = "DISPUTED" /\ (q = r => Unwaived(gs) # {})
    BY <1>9 DEF Finalized
  <2>2. PICK h \in Groups : /\ Unwaived(group[q]) = {h}
                           /\ \E w \in RowsOf(q, h) : waiver[w].is_deleted
    BY <2>1 DEF IInv, DisputedHasReason
  <2>3. Unwaived(group'[q]) = {h}
    BY <1>8, <1>10, <2>1, <2>2
  <2>4. PICK w \in RowsOf(q, h) : waiver[w].is_deleted
    BY <2>2
  <2>5. w \in 1 .. waivers
    BY <2>4, RowExists DEF RowsOf, NoWaiver, IInv
  <2>6. w \in RowsOf(q, h)' /\ waiver'[w].is_deleted
    BY <1>6, <2>4, <2>5 DEF RowsOf
  <2> QED BY <2>3, <2>6
<1> QED BY <1>11, <1>13, <1>14, <1>15, <1>16, <1>17, <1>18 DEF IInv

LEMMA RemoveWaiverIInv == ASSUME IInv, NEW w \in Waivers, RemoveWaiver(w) PROVE IInv'
<1>1. /\ w \in 1 .. waivers /\ waiver[w].result \in attached
      /\ waiver' = [waiver EXCEPT ![w].is_deleted = TRUE]
      /\ UNCHANGED <<results, attached, found, waivers>>
  BY DEF RemoveWaiver, resultVars, IInv, TypeOK, Waivers
<1>2. PICK r \in 1 .. results, g \in Groups : /\ waiver[w].result = r /\ waiver[w].group = g
                                             /\ r \in attached
  BY <1>1 DEF IInv, WaiverInv
<1>3. r \in Results /\ r <= results
  BY <1>2 DEF IInv, TypeOK, Results
<1>4. /\ waiver' \in [Waivers -> WaiverRows]
      /\ waiver'[w].is_deleted
      /\ \A v \in Waivers : /\ v # w => waiver'[v] = waiver[v]
                            /\ waiver'[v].result = waiver[v].result
                            /\ waiver'[v].group = waiver[v].group
                            /\ waiver'[v].kind = waiver[v].kind
                            /\ waiver'[v].is_active = waiver[v].is_active
                            /\ waiver[v].is_deleted => waiver'[v].is_deleted
  <2>1. waiver \in [Waivers -> WaiverRows] /\ w \in Waivers
    BY <1>1 DEF IInv, TypeOK, WaiverRows, Waivers
  <2>2. /\ [waiver[w] EXCEPT !.is_deleted = TRUE] \in WaiverRows
        /\ [waiver[w] EXCEPT !.is_deleted = TRUE].result = waiver[w].result
        /\ [waiver[w] EXCEPT !.is_deleted = TRUE].group = waiver[w].group
        /\ [waiver[w] EXCEPT !.is_deleted = TRUE].kind = waiver[w].kind
        /\ [waiver[w] EXCEPT !.is_deleted = TRUE].is_active = waiver[w].is_active
        /\ [waiver[w] EXCEPT !.is_deleted = TRUE].is_deleted
    BY <2>1 DEF WaiverRows
  <2>3. waiver' = [waiver EXCEPT ![w] = [waiver[w] EXCEPT !.is_deleted = TRUE]]
    BY <1>1
  <2> QED BY <2>1, <2>2, <2>3
<1>5. \A v \in Waivers : Live(v)' <=> Live(v) /\ v # w
  BY <1>4 DEF Live
<1>6. \A q \in Results, h \in Groups : /\ RowsOf(q, h)' = RowsOf(q, h)
                                       /\ LiveOf(q, h)' = LiveOf(q, h) \ {w}
  BY <1>4, <1>5 DEF RowsOf, LiveOf
<1>7. \/ UNCHANGED <<group, state>>
      \/ /\ state[r] = "WAIVED" /\ LiveOf(r, g) \subseteq {w}
         /\ group' = [group EXCEPT ![r][g] = "NEEDS_INSPECTION"]
         /\ state' = [state EXCEPT ![r] = "DISPUTED"]
  BY <1>2 DEF RemoveWaiver, Reopens
<1>8. WaiverInv' /\ TypeOK'
  <2>1. /\ group' \in [Results -> [Groups -> GroupStates]]
        /\ state' \in [Results -> ScanStates]
        /\ \A q \in Results, h \in Groups :
             group[q][h] # "ABSENT" => group'[q][h] # "ABSENT"
    BY <1>3, <1>7 DEF IInv, TypeOK, GroupStates, ScanStates
  <2>2. TypeOK'
    BY <1>1, <1>4, <2>1 DEF IInv, TypeOK, WaiverRows
  <2>3. \A v \in 1 .. waivers : waiver[v].result \in Results /\ v \in Waivers
    BY DEF IInv, TypeOK, WaiverInv, Results, Waivers
  <2>4. \A v \in Waivers : v > waivers => waiver'[v] = NoWaiver
    BY <1>1, <1>4 DEF IInv, WaiverInv, TypeOK
  <2>5. ASSUME NEW v \in 1 .. waivers
        PROVE  /\ waiver'[v].result \in 1 .. results
               /\ waiver'[v].group \in Groups
               /\ group'[waiver'[v].result][waiver'[v].group] # "ABSENT"
               /\ Live(v)' => waiver'[v].kind \in Kinds
    BY <1>4, <1>5, <2>1, <2>3 DEF IInv, WaiverInv
  <2> QED BY <1>1, <2>2, <2>4, <2>5 DEF WaiverInv
<1>9. CASE UNCHANGED <<group, state>>
  <2>1. ResultInv' /\ VerdictMatchesGroups'
    BY <1>1, <1>9 DEF IInv, ResultInv, VerdictMatchesGroups
  <2>2. EverReviewed'
    <3> SUFFICES ASSUME NEW q \in Results, NEW h \in Groups,
                        group[q][h] \notin {"ABSENT", "NEEDS_INSPECTION"}
                 PROVE  \E v \in 1 .. waivers' :
                          /\ waiver'[v].group = h
                          /\ waiver'[v].result \in 1 .. q
                          /\ waiver'[v].kind \in Kinds
                          /\ found'[waiver'[v].result][h] = found'[q][h]
                          /\ group'[q][h] = "CONTAINS_BUG" <=> waiver'[v].kind = "IS_A_BUG"
      BY <1>9 DEF EverReviewed
    <3>1. PICK v \in 1 .. waivers :
          /\ waiver[v].group = h
          /\ waiver[v].result \in 1 .. q
          /\ waiver[v].kind \in Kinds
          /\ found[waiver[v].result][h] = found[q][h]
          /\ group[q][h] = "CONTAINS_BUG" <=> waiver[v].kind = "IS_A_BUG"
      BY DEF IInv, EverReviewed
    <3>2. v \in Waivers
      BY DEF IInv, TypeOK, Waivers
    <3> QED BY <1>1, <1>4, <1>9, <3>1, <3>2
  <2>3. OpenHasNoWaiver'
    BY <1>6, <1>9 DEF IInv, OpenHasNoWaiver
  <2>4. DisputedHasReason'
    <3> SUFFICES ASSUME NEW q \in Results, NEW h \in Groups,
                        NEW v \in RowsOf(q, h), waiver[v].is_deleted
                 PROVE  v \in RowsOf(q, h)' /\ waiver'[v].is_deleted
      BY <1>9 DEF IInv, DisputedHasReason
    <3> QED BY <1>4, <1>6 DEF RowsOf
  <2> QED BY <1>8, <2>1, <2>2, <2>3, <2>4 DEF IInv
<1>10. CASE /\ state[r] = "WAIVED" /\ LiveOf(r, g) \subseteq {w}
            /\ group' = [group EXCEPT ![r][g] = "NEEDS_INSPECTION"]
            /\ state' = [state EXCEPT ![r] = "DISPUTED"]
  <2>1. /\ group'[r][g] = "NEEDS_INSPECTION"
        /\ \A h \in Groups : h # g => group'[r][h] = group[r][h]
        /\ \A q \in Results : q # r => group'[q] = group[q]
        /\ state'[r] = "DISPUTED"
        /\ \A q \in Results : q # r => state'[q] = state[q]
    BY <1>3, <1>10 DEF IInv, TypeOK
  <2>2. Unwaived(group[r]) = {}
    BY <1>2, <1>10 DEF IInv, VerdictMatchesGroups
  <2>3. Unwaived(group'[r]) = {g}
    BY <2>1, <2>2 DEF Unwaived
  <2>4. ResultInv'
    BY <1>1, <1>3, <2>1 DEF IInv, TypeOK, ResultInv, Results
  <2>5. VerdictMatchesGroups'
    <3> SUFFICES ASSUME NEW q \in attached, state'[q] # "FAILED"
                 PROVE  /\ state'[q] \in {"NEEDS_INSPECTION", "DISPUTED"}
                              <=> Unwaived(group'[q]) # {}
                        /\ state'[q] = "BUG_CONFIRMED"
                              <=> Unwaived(group'[q]) = {} /\ HasBugs(group'[q])
      BY <1>1 DEF VerdictMatchesGroups
    <3>1. q \in Results
      BY DEF IInv, TypeOK, Results
    <3>2. CASE q = r
      BY <2>1, <2>3, <3>2
    <3>3. CASE q # r
      BY <2>1, <3>1, <3>3 DEF IInv, VerdictMatchesGroups
    <3> QED BY <3>2, <3>3
  <2>6. EverReviewed'
    <3> SUFFICES ASSUME NEW q \in Results, NEW h \in Groups,
                        group'[q][h] \notin {"ABSENT", "NEEDS_INSPECTION"}
                 PROVE  \E v \in 1 .. waivers' :
                          /\ waiver'[v].group = h
                          /\ waiver'[v].result \in 1 .. q
                          /\ waiver'[v].kind \in Kinds
                          /\ found'[waiver'[v].result][h] = found'[q][h]
                          /\ group'[q][h] = "CONTAINS_BUG" <=> waiver'[v].kind = "IS_A_BUG"
      BY DEF EverReviewed
    <3>1. group'[q][h] = group[q][h]
      BY <2>1
    <3>2. PICK v \in 1 .. waivers :
          /\ waiver[v].group = h
          /\ waiver[v].result \in 1 .. q
          /\ waiver[v].kind \in Kinds
          /\ found[waiver[v].result][h] = found[q][h]
          /\ group[q][h] = "CONTAINS_BUG" <=> waiver[v].kind = "IS_A_BUG"
      BY <3>1 DEF IInv, EverReviewed
    <3>3. v \in Waivers
      BY DEF IInv, TypeOK, Waivers
    <3> QED BY <1>1, <1>4, <3>1, <3>2, <3>3
  <2>7. OpenHasNoWaiver'
    <3> SUFFICES ASSUME NEW q \in Results, NEW h \in Groups,
                        group'[q][h] = "NEEDS_INSPECTION"
                 PROVE  LiveOf(q, h)' = {}
      BY DEF OpenHasNoWaiver
    <3>1. CASE q = r /\ h = g
      BY <1>6, <1>10, <3>1
    <3>2. CASE ~(q = r /\ h = g)
      BY <1>6, <2>1, <3>2 DEF IInv, OpenHasNoWaiver
    <3> QED BY <3>1, <3>2
  <2>8. DisputedHasReason'
    <3> SUFFICES ASSUME NEW q \in Results, state'[q] = "DISPUTED"
                 PROVE  \E h \in Groups :
                          /\ Unwaived(group'[q]) = {h}
                          /\ \E v \in RowsOf(q, h)' : waiver'[v].is_deleted
      BY DEF DisputedHasReason
    <3>1. CASE q = r
      <4>1. w \in RowsOf(r, g)
        BY <1>2 DEF RowsOf
      <4> QED BY <1>3, <1>4, <1>6, <2>3, <3>1, <4>1
    <3>2. CASE q # r
      <4>1. PICK h \in Groups : /\ Unwaived(group[q]) = {h}
                               /\ \E v \in RowsOf(q, h) : waiver[v].is_deleted
        BY <2>1, <3>2 DEF IInv, DisputedHasReason
      <4>2. PICK v \in RowsOf(q, h) : waiver[v].is_deleted
        BY <4>1
      <4>3. v \in RowsOf(q, h)' /\ waiver'[v].is_deleted
        BY <1>4, <1>6, <4>2 DEF RowsOf
      <4> QED BY <2>1, <3>2, <4>1, <4>3
    <3> QED BY <3>1, <3>2
  <2> QED BY <1>8, <2>4, <2>5, <2>6, <2>7, <2>8 DEF IInv
<1> QED BY <1>7, <1>9, <1>10

-----------------------------------------------------------------------------
LEMMA NextIInv == IInv /\ [Next]_vars => IInv'
<1> SUFFICES ASSUME IInv, [Next]_vars PROVE IInv'
  OBVIOUS
<1>1. CASE Load
  BY <1>1, LoadIInv
<1>2. ASSUME NEW r \in Results, FailScan(r) PROVE IInv'
  BY <1>2, FailScanIInv
<1>3. ASSUME NEW r \in Results, NEW g \in Groups, PostComment(r, g) PROVE IInv'
  BY <1>3, PostCommentIInv
<1>4. ASSUME NEW r \in Results, NEW g \in Groups, NEW kind \in Kinds, PostWaiver(r, g, kind)
      PROVE  IInv'
  BY <1>4, PostWaiverIInv
<1>5. ASSUME NEW w \in Waivers, RemoveWaiver(w) PROVE IInv'
  BY <1>5, RemoveWaiverIInv
<1>6. CASE UNCHANGED vars
  <2> USE <1>6 DEF vars, resultVars, waiverVars
  <2>1. TypeOK'
    BY DEF IInv, TypeOK
  <2>2. ResultInv' /\ VerdictMatchesGroups'
    BY DEF IInv, ResultInv, VerdictMatchesGroups
  <2>3. EverReviewed'
    BY DEF IInv, EverReviewed
  <2>4. WaiverInv'
    BY DEF IInv, WaiverInv, Live
  <2>5. OpenHasNoWaiver' /\ DisputedHasReason'
    BY DEF IInv, OpenHasNoWaiver, DisputedHasReason, LiveOf, Live, RowsOf
  <2> QED BY <2>1, <2>2, <2>3, <2>4, <2>5 DEF IInv
<1> QED BY <1>1, <1>2, <1>3, <1>4, <1>5, <1>6 DEF Next

(* The inductive invariant, from which the others follow.                  *)
THEOREM Inductive == Spec => []IInv
  BY InitIInv, NextIInv, PTL DEF Spec

(* Every column keeps its type.                                            *)
THEOREM TypeCorrect == Spec => []TypeOK
<1>1. IInv => TypeOK
  BY DEF IInv
<1> QED BY <1>1, Inductive, PTL

(* In every order of waiving, changing and removing, the state of a scan   *)
(* says what its groups say.                                               *)
THEOREM VerdictsMatchGroups == Spec => []VerdictMatchesGroups
<1>1. IInv => VerdictMatchesGroups
  BY DEF IInv
<1> QED BY <1>1, Inductive, PTL

(* Nothing is waived or confirmed that no user looked at, whatever other   *)
(* scans found meanwhile and however often processing failed.              *)
THEOREM EverythingReviewed == Spec => []EverReviewed
<1>1. IInv => EverReviewed
  BY DEF IInv
<1> QED BY <1>1, Inductive, PTL

(* A group that needs inspection has no waiver in force.                   *)
THEOREM OpenGroupsHaveNoWaiver == Spec => []OpenHasNoWaiver
<1>1. IInv => OpenHasNoWaiver
  BY DEF IInv
<1> QED BY <1>1, Inductive, PTL

(* A disputed scan was waived, and one of its waivers was removed.         *)
THEOREM DisputesHaveReasons == Spec => []DisputedHasReason
<1>1. IInv => DisputedHasReason
  BY DEF IInv
<1> QED BY <1>1, Inductive, PTL

(* A new result inherits a decision on a group only if the latest earlier  *)
(* result that has the group does not wait for one.                        *)
LEMMA NewGroupsAreNoted ==
  ASSUME IInv, Next, NEW g \in Groups, NEW r \in Results, r = results', r # results,
         group'[r][g] \notin {"ABSENT", "NEEDS_INSPECTION"},
         NEW q \in attached' \ {r}, group[q][g] = "NEEDS_INSPECTION"
  PROVE  \E p \in attached' \ {r} : p > q /\ group[p][g] # "ABSENT"
<1>1. Load
  BY DEF Next, FailScan, PostComment, PostWaiver, RemoveWaiver, resultVars
<1>2. PICK old \in attached \cup {0}, defects \in Contents, looked \in SUBSET Groups :
        CreateResult(old, defects, looked)
  <2>1. Groups \in SUBSET Groups
    OBVIOUS
  <2> QED BY <1>1, <2>1 DEF Load, FinishScan, FinishScanFails
<1> DEFINE n == results + 1
           att == attached \ {old}
<1>3. /\ r = n /\ n \in Results /\ n \notin attached /\ attached' = att \cup {n}
      /\ q \in att /\ att \in SUBSET attached /\ q \in Results
  BY <1>2 DEF CreateResult, IInv, TypeOK, Results
<1>4. group'[n] = [h \in Groups |->
                     IF defects[h] = None THEN "ABSENT"
                     ELSE IF h \in looked THEN Processed(defects[h], h, att)
                     ELSE "NEEDS_INSPECTION"]
  BY <1>2, <1>3 DEF CreateResult, IInv, TypeOK
<1>5. Processed(defects[g], g, att) # "NEEDS_INSPECTION"
  BY <1>3, <1>4
<1>6. PICK w \in 1 .. waivers :
        /\ Live(w) /\ waiver[w].group = g
        /\ waiver[w].result \in att \cap (1 .. results)
        /\ \A x \in att : x > waiver[w].result => group[x][g] # "NEEDS_INSPECTION"
  BY <1>3, <1>5, ProcessedByWaiver
<1>7. w \in Waivers /\ waiver[w].result \in Results /\ group[waiver[w].result][g] # "ABSENT"
  BY <1>6 DEF IInv, TypeOK, WaiverInv, Waivers, Results
<1>8. waiver[w].result # q
  BY <1>6, <1>7 DEF IInv, OpenHasNoWaiver, LiveOf, RowsOf
<1>9. waiver[w].result > q
  BY <1>3, <1>6, <1>7, <1>8 DEF Results
<1> QED BY <1>3, <1>6, <1>7, <1>9

(* An older waiver never speaks for a group that waits for inspection in   *)
(* the latest scan that has it.                                            *)
THEOREM UninspectedNeverInherited == Spec => UninspectedStaysVisible
<1>1. ASSUME IInv, [Next]_vars
      PROVE  [\A g \in Groups, r \in Results :
                /\ r = results'
                /\ r # results
                /\ group'[r][g] \notin {"ABSENT", "NEEDS_INSPECTION"}
                => \A q \in attached' \ {r} :
                     \/ group[q][g] # "NEEDS_INSPECTION"
                     \/ \E p \in attached' \ {r} : p > q /\ group[p][g] # "ABSENT"]_vars
  BY <1>1, NewGroupsAreNoted
<1> QED BY <1>1, Inductive, PTL DEF Spec, UninspectedStaysVisible

-----------------------------------------------------------------------------
(* WaivingRequests: requests interleave.  Types.                           *)

WaiverRow ==
  [result : 0 .. MaxResults, group : Groups \cup {None},
   kind : Kinds \cup {"COMMENT", "NONE"}, is_active : BOOLEAN, is_deleted : BOOLEAN]

CopyRow == [waiver : WaiverRow, bug : [Trackers -> 0 .. MaxBugs]]

CopySet == UNION {[W -> CopyRow] : W \in SUBSET Waivers}

ScanRows == [state : ScanStates, enabled : BOOLEAN]

PostSteps   == {"deactivate", "insert", "read_scan", "apply", "finalize", "save_scan"}
RemoveSteps == {"delete", "is_waived", "reopen", "dispute"}
ReportSteps == {"format", "send", "save_bug", "mark"}

Posts ==
  [op : {"post"}, step : PostSteps, r : Results, g : Groups,
   kind : Kinds \cup {"COMMENT"}, seen : GroupStates, copies : CopySet, scan : ScanRows]

Removals ==
  [op : {"remove"}, step : RemoveSteps, r : Results, g : Groups,
   kind : Kinds \cup {"COMMENT"}, copies : CopySet, scan : ScanRows]

Reports ==
  [op : {"report"}, step : ReportSteps, t : Trackers, n : 0 .. MaxBugs,
   ids : SUBSET Waivers, copies : CopySet]

Submissions ==
  UNION {[op : {"submit"}, step : {"link"}, child : {R}, scan : [R -> ScanRows]] :
           R \in SUBSET Results}

Requests == Posts \cup Removals \cup Reports \cup Submissions \cup {Idle}

ReqTypeOK ==
  /\ TypeOK
  /\ enabled \subseteq Results
  /\ submitted \in BOOLEAN
  /\ bug \in [Trackers -> [Waivers -> 0 .. MaxBugs]]
  /\ text \in [Trackers -> [Bugs -> SUBSET Waivers]]
  /\ filed \in [Trackers -> 0 .. MaxBugs]
  /\ rows \in [Trackers -> SUBSET Bugs]
  /\ req \in [Slots -> Requests]
  /\ disturbed \in BOOLEAN
  /\ contended \in BOOLEAN

(* There is a row left for every post that is to insert one.               *)
RoomInv == waivers + Cardinality(Inserting) <= MaxWaivers

(* Every row is of a group that there is, and a comment is never in force. *)
RowInv ==
  /\ \A w \in Waivers : w > waivers => waiver[w] = NoWaiver
  /\ \A w \in 1 .. waivers :
       /\ waiver[w].result \in 1 .. results
       /\ waiver[w].group \in Groups
       /\ waiver[w].kind \in Kinds \cup {"COMMENT"}
       /\ waiver[w].is_active => waiver[w].kind \in Kinds

(* A copy is of a row that there is, whose unchanging columns it has; what *)
(* else it has the row had once.                                           *)
CopyOK(c) ==
  \A w \in DOMAIN c :
    /\ w \in 1 .. waivers
    /\ c[w].waiver.result = waiver[w].result
    /\ c[w].waiver.group = waiver[w].group
    /\ c[w].waiver.kind = waiver[w].kind
    /\ c[w].waiver.is_active => waiver[w].kind \in Kinds
    /\ \A t \in Trackers : c[w].bug[t] # 0 => w \in text[t][c[w].bug[t]]

Copying(q) == q.op \in {"post", "remove", "report"}

CopyInv == \A u \in Slots : Copying(req[u]) => CopyOK(req[u].copies)

(* A report that got its bug has sent it what it is about to note.         *)
SentTo(q, lists) ==
  q.step \in {"save_bug", "mark"} => q.n \in Bugs /\ DOMAIN q.copies \subseteq lists[q.t][q.n]

SentInv ==
  /\ \A t \in Trackers, n \in Bugs : text[t][n] \subseteq 1 .. waivers
  /\ \A u \in Slots : SentTo(req[u], text)

(* A post is to a result that there is.                                    *)
PostInv == \A u \in Slots : req[u].op = "post" => req[u].r \in 1 .. results

TableInv == ReqTypeOK /\ RoomInv /\ RowInv /\ CopyInv /\ SentInv /\ BugListsWaiver

(* No step takes a row, or a line of a bug, away.                          *)
Grow ==
  /\ waivers' \in Nat /\ waivers <= waivers'
  /\ \A w \in 1 .. waivers :
       /\ waiver'[w].result = waiver[w].result
       /\ waiver'[w].group = waiver[w].group
       /\ waiver'[w].kind = waiver[w].kind
  /\ \A t \in Trackers, n \in Bugs : text[t][n] \subseteq text'[t][n]

(* CopyOK of a copy, after the step.                                       *)
CopyAfter(c) ==
  \A w \in DOMAIN c :
    /\ w \in 1 .. waivers'
    /\ c[w].waiver.result = waiver'[w].result
    /\ c[w].waiver.group = waiver'[w].group
    /\ c[w].waiver.kind = waiver'[w].kind
    /\ c[w].waiver.is_active => waiver'[w].kind \in Kinds
    /\ \A t \in Trackers : c[w].bug[t] # 0 => w \in text'[t][c[w].bug[t]]

USE BugsAssumption

-----------------------------------------------------------------------------
(* Requests.                                                               *)

(* The step of a request tells what it is.                                 *)
LEMMA RequestTells ==
  ASSUME NEW q \in Requests
  PROVE  /\ q.step \in PostSteps   => q \in Posts
         /\ q.step \in RemoveSteps => q \in Removals
         /\ q.step \in ReportSteps => q \in Reports
         /\ q.step = "link"        => q \in Submissions
         /\ q.op = "post"   <=> q.step \in PostSteps
         /\ q.op = "remove" <=> q.step \in RemoveSteps
         /\ q.op = "report" <=> q.step \in ReportSteps
         /\ q.op = "submit" <=> q.step = "link"
         /\ q.op = "none"   <=> q = Idle
<1>1. CASE q \in Posts
  BY <1>1 DEF Posts, PostSteps, RemoveSteps, ReportSteps, Idle
<1>2. CASE q \in Removals
  BY <1>2 DEF Removals, PostSteps, RemoveSteps, ReportSteps, Idle
<1>3. CASE q \in Reports
  BY <1>3 DEF Reports, PostSteps, RemoveSteps, ReportSteps, Idle
<1>4. CASE q \in Submissions
  BY <1>4 DEF Submissions, PostSteps, RemoveSteps, ReportSteps, Idle
<1>5. CASE q = Idle
  BY <1>5 DEF PostSteps, RemoveSteps, ReportSteps, Idle
<1> QED BY <1>1, <1>2, <1>3, <1>4, <1>5 DEF Requests

LEMMA StepTells ==
  ASSUME ReqTypeOK, NEW u \in Slots
  PROVE  /\ req[u].step \in PostSteps   => req[u] \in Posts
         /\ req[u].step \in RemoveSteps => req[u] \in Removals
         /\ req[u].step \in ReportSteps => req[u] \in Reports
         /\ req[u].step = "link"        => req[u] \in Submissions
         /\ req[u].op = "post"   <=> req[u].step \in PostSteps
         /\ req[u].op = "remove" <=> req[u].step \in RemoveSteps
         /\ req[u].op = "report" <=> req[u].step \in ReportSteps
         /\ req[u].op = "submit" <=> req[u].step = "link"
         /\ req[u].op = "none"   <=> req[u] = Idle
  BY RequestTells DEF ReqTypeOK

LEMMA SlotsAreFinite ==
  ASSUME NEW S \in SUBSET Slots
  PROVE  IsFiniteSet(S) /\ Cardinality(S) \in Nat
<1>1. IsFiniteSet(S)
  BY SlotsAssumption, FS_Subset
<1> QED BY <1>1, FS_CardinalityType

LEMMA NextReq ==
  ASSUME ReqTypeOK, NEW u \in Slots, NEW q \in Requests, req' = [req EXCEPT ![u] = q]
  PROVE  /\ req' \in [Slots -> Requests]
         /\ req'[u] = q
         /\ \A v \in Slots \ {u} : req'[v] = req[v]
  BY DEF ReqTypeOK

LEMMA StepsOfRequests ==
  /\ \A q \in Posts, s \in PostSteps : [q EXCEPT !.step = s] \in Posts
  /\ \A q \in Posts, s \in PostSteps, c \in CopySet :
       [q EXCEPT !.step = s, !.copies = c] \in Posts
  /\ \A q \in Posts, s \in PostSteps, x \in ScanRows :
       [q EXCEPT !.scan = x, !.step = s] \in Posts
  /\ \A q \in Removals, s \in RemoveSteps : [q EXCEPT !.step = s] \in Removals
  /\ \A q \in Removals, s \in RemoveSteps, c \in CopySet :
       [q EXCEPT !.step = s, !.copies = c] \in Removals
  /\ \A q \in Removals, s \in RemoveSteps, x \in ScanRows :
       [q EXCEPT !.step = s, !.scan = x] \in Removals
  /\ \A q \in Reports, s \in ReportSteps : [q EXCEPT !.step = s] \in Reports
  /\ \A q \in Reports, s \in ReportSteps, c \in CopySet :
       [q EXCEPT !.step = s, !.copies = c] \in Reports
  /\ \A q \in Reports, c \in CopySet : [q EXCEPT !.copies = c] \in Reports
  /\ \A q \in Reports, s \in ReportSteps, n \in 0 .. MaxBugs :
       [q EXCEPT !.n = n, !.step = s] \in Reports
<1>1. \A q \in Posts, s \in PostSteps :
        /\ [q EXCEPT !.step = s] \in Posts
        /\ \A c \in CopySet : [q EXCEPT !.step = s, !.copies = c] \in Posts
        /\ \A x \in ScanRows : [q EXCEPT !.scan = x, !.step = s] \in Posts
  BY DEF Posts
<1>2. \A q \in Removals, s \in RemoveSteps :
        /\ [q EXCEPT !.step = s] \in Removals
        /\ \A c \in CopySet : [q EXCEPT !.step = s, !.copies = c] \in Removals
        /\ \A x \in ScanRows : [q EXCEPT !.step = s, !.scan = x] \in Removals
  BY DEF Removals
<1>3. \A q \in Reports :
        /\ \A s \in ReportSteps : [q EXCEPT !.step = s] \in Reports
        /\ \A s \in ReportSteps, c \in CopySet : [q EXCEPT !.step = s, !.copies = c] \in Reports
        /\ \A c \in CopySet : [q EXCEPT !.copies = c] \in Reports
        /\ \A s \in ReportSteps, n \in 0 .. MaxBugs : [q EXCEPT !.n = n, !.step = s] \in Reports
  BY DEF Reports
<1> QED BY <1>1, <1>2, <1>3

LEMMA LatestIsResult ==
  ASSUME TableInv
  PROVE  Latest(attached) \subseteq attached /\ Latest(attached) \subseteq Results
<1>1. Latest(attached) \subseteq attached
  BY DEF Latest
<1>2. attached \subseteq Results
  BY DEF TableInv, ReqTypeOK, TypeOK, Results
<1> QED BY <1>1, <1>2

(* The rows that are read are copies of themselves.                        *)
LEMMA ReadsCopies ==
  ASSUME TableInv, NEW W \in SUBSET (1 .. waivers)
  PROVE  /\ Copies(W) \in CopySet
         /\ DOMAIN Copies(W) = W
         /\ CopyOK(Copies(W))
         /\ \A w \in W : /\ Copies(W)[w].waiver = waiver[w]
                          /\ \A t \in Trackers : Copies(W)[w].bug[t] = bug[t][w]
<1>1. W \in SUBSET Waivers
  BY DEF TableInv, ReqTypeOK, TypeOK, Waivers
<1>2. \A w \in W : [waiver |-> waiver[w], bug |-> [t \in Trackers |-> bug[t][w]]] \in CopyRow
  BY <1>1 DEF TableInv, ReqTypeOK, TypeOK, CopyRow, WaiverRow
<1>3. Copies(W) \in [W -> CopyRow]
  BY <1>2 DEF Copies
<1>4. Copies(W) \in CopySet
  BY <1>1, <1>3 DEF CopySet
<1>5. /\ DOMAIN Copies(W) = W
      /\ \A w \in W : /\ Copies(W)[w].waiver = waiver[w]
                       /\ \A t \in Trackers : Copies(W)[w].bug[t] = bug[t][w]
  BY DEF Copies
<1>6. ASSUME NEW w \in W
      PROVE  /\ waiver[w].is_active => waiver[w].kind \in Kinds
             /\ \A t \in Trackers : bug[t][w] # 0 => w \in text[t][bug[t][w]]
  BY <1>1 DEF TableInv, RowInv, BugListsWaiver
<1>7. CopyOK(Copies(W))
  <2> SUFFICES ASSUME NEW w \in DOMAIN Copies(W)
               PROVE  /\ w \in 1 .. waivers
                      /\ Copies(W)[w].waiver.result = waiver[w].result
                      /\ Copies(W)[w].waiver.group = waiver[w].group
                      /\ Copies(W)[w].waiver.kind = waiver[w].kind
                      /\ Copies(W)[w].waiver.is_active => waiver[w].kind \in Kinds
                      /\ \A t \in Trackers : Copies(W)[w].bug[t] # 0 =>
                           w \in text[t][Copies(W)[w].bug[t]]
    BY DEF CopyOK
  <2>1. w \in W /\ w \in 1 .. waivers
    BY <1>5
  <2>2. /\ Copies(W)[w].waiver = waiver[w]
        /\ \A t \in Trackers : Copies(W)[w].bug[t] = bug[t][w]
    BY <1>5, <2>1
  <2> QED BY <1>6, <2>1, <2>2
<1> QED BY <1>4, <1>5, <1>7

LEMMA NoCopies ==
  ASSUME TableInv
  PROVE  Copies({}) \in CopySet /\ CopyOK(Copies({})) /\ DOMAIN Copies({}) = {}
  BY ReadsCopies

LEMMA ReadsScan ==
  ASSUME ReqTypeOK, NEW r \in Results
  PROVE  ScanRow(r) \in ScanRows /\ Unread \in ScanRows
  BY DEF ReqTypeOK, TypeOK, ScanRow, ScanRows, Unread, ScanStates

(* Saved copies have the columns of rows that never change.                *)
LEMMA SavesCopies ==
  ASSUME TableInv, NEW c \in CopySet, CopyOK(c), SaveWaivers(c),
         UNCHANGED <<results, waivers, text>>
  PROVE  /\ waiver' \in [Waivers -> WaiverRow]
         /\ bug' \in [Trackers -> [Waivers -> 0 .. MaxBugs]]
         /\ Grow /\ RowInv' /\ BugListsWaiver'
<1>1. PICK W \in SUBSET Waivers : c \in [W -> CopyRow]
  BY DEF CopySet
<1>2. /\ \A w \in W : waiver'[w] = c[w].waiver /\ c[w].waiver \in WaiverRow
      /\ \A w \in Waivers \ W : waiver'[w] = waiver[w] /\ waiver[w] \in WaiverRow
      /\ waiver' \in [Waivers -> WaiverRow]
  BY <1>1 DEF SaveWaivers, CopyRow, TableInv, ReqTypeOK, TypeOK, WaiverRow
<1>3. \A t \in Trackers :
        /\ \A w \in W : bug'[t][w] = c[w].bug[t] /\ c[w].bug[t] \in 0 .. MaxBugs
        /\ \A w \in Waivers \ W : bug'[t][w] = bug[t][w] /\ bug[t][w] \in 0 .. MaxBugs
        /\ bug'[t] \in [Waivers -> 0 .. MaxBugs]
  BY <1>1 DEF SaveWaivers, CopyRow, TableInv, ReqTypeOK
<1>4. bug' \in [Trackers -> [Waivers -> 0 .. MaxBugs]]
  BY <1>3 DEF SaveWaivers
<1>5. \A w \in W :
        /\ w \in 1 .. waivers
        /\ c[w].waiver.result = waiver[w].result
        /\ c[w].waiver.group = waiver[w].group
        /\ c[w].waiver.kind = waiver[w].kind
        /\ c[w].waiver.is_active => waiver[w].kind \in Kinds
        /\ \A t \in Trackers : c[w].bug[t] # 0 => w \in text[t][c[w].bug[t]]
  BY <1>1 DEF CopyOK
<1>6. waivers \in Nat /\ \A w \in 1 .. waivers : w \in Waivers
  BY DEF TableInv, ReqTypeOK, TypeOK, Waivers
<1>7. Grow
  BY <1>2, <1>5, <1>6 DEF Grow
<1>8. RowInv'
  <2>1. ASSUME NEW w \in Waivers, w > waivers PROVE waiver'[w] = NoWaiver
    BY <1>2, <1>5, <1>6, <2>1 DEF RowInv, TableInv
  <2>2. ASSUME NEW w \in 1 .. waivers
        PROVE  /\ waiver'[w].result \in 1 .. results
               /\ waiver'[w].group \in Groups
               /\ waiver'[w].kind \in Kinds \cup {"COMMENT"}
               /\ waiver'[w].is_active => waiver'[w].kind \in Kinds
    <3>1. w \in Waivers
      BY <1>6
    <3>2. CASE w \in W
      BY <1>2, <1>5, <3>2 DEF RowInv, TableInv
    <3>3. CASE w \notin W
      BY <1>2, <3>1, <3>3 DEF RowInv, TableInv
    <3> QED BY <3>2, <3>3
  <2> QED BY <2>1, <2>2 DEF RowInv
<1>9. BugListsWaiver'
  BY <1>3, <1>5 DEF BugListsWaiver, TableInv
<1> QED BY <1>2, <1>4, <1>7, <1>8, <1>9

LEMMA CopyStays ==
  ASSUME TableInv, Grow
  PROVE  \A c \in CopySet : CopyOK(c) => CopyAfter(c)
<1> SUFFICES ASSUME NEW c \in CopySet, CopyOK(c), NEW w \in DOMAIN c
             PROVE  /\ w \in 1 .. waivers'
                    /\ c[w].waiver.result = waiver'[w].result
                    /\ c[w].waiver.group = waiver'[w].group
                    /\ c[w].waiver.kind = waiver'[w].kind
                    /\ c[w].waiver.is_active => waiver'[w].kind \in Kinds
                    /\ \A t \in Trackers : c[w].bug[t] # 0 => w \in text'[t][c[w].bug[t]]
  BY DEF CopyAfter
<1>1. /\ w \in 1 .. waivers
      /\ c[w].waiver.result = waiver[w].result
      /\ c[w].waiver.group = waiver[w].group
      /\ c[w].waiver.kind = waiver[w].kind
      /\ c[w].waiver.is_active => waiver[w].kind \in Kinds
      /\ \A t \in Trackers : c[w].bug[t] # 0 => w \in text[t][c[w].bug[t]]
  BY DEF CopyOK
<1>2. ASSUME NEW t \in Trackers, c[w].bug[t] # 0 PROVE w \in text'[t][c[w].bug[t]]
  <2>1. c[w].bug[t] \in Bugs
    BY <1>2 DEF CopySet, CopyRow, Bugs
  <2> QED BY <1>1, <1>2, <2>1 DEF Grow
<1>3. w \in 1 .. waivers' /\ waivers \in Nat
  BY <1>1 DEF Grow, TableInv, ReqTypeOK, TypeOK
<1> QED BY <1>1, <1>2, <1>3 DEF Grow

(* A request that waits for its own row has one left.                      *)
LEMMA RoomToInsert ==
  ASSUME TableInv, NEW u \in Inserting
  PROVE  waivers < MaxWaivers
<1>1. IsFiniteSet(Inserting) /\ Cardinality(Inserting) \in Nat
  BY SlotsAreFinite DEF Inserting
<1>2. Cardinality(Inserting) # 0
  BY <1>1, FS_EmptySet
<1>3. waivers \in Nat /\ waivers + Cardinality(Inserting) <= MaxWaivers
  BY DEF TableInv, RoomInv, ReqTypeOK, TypeOK
<1> QED BY <1>1, <1>2, <1>3

LEMMA RoomStays ==
  ASSUME TableInv, UNCHANGED waivers, Inserting' \subseteq Inserting
  PROVE  RoomInv'
<1>1. IsFiniteSet(Inserting) /\ Cardinality(Inserting) \in Nat
  BY SlotsAreFinite DEF Inserting
<1>2. Cardinality(Inserting') <= Cardinality(Inserting) /\ Cardinality(Inserting') \in Nat
  <2>1. IsFiniteSet(Inserting') /\ Cardinality(Inserting') <= Cardinality(Inserting)
    BY <1>1, FS_Subset
  <2> QED BY <2>1, FS_CardinalityType
<1> QED BY <1>1, <1>2 DEF RoomInv, TableInv, ReqTypeOK, TypeOK

(* All that a step of one request has to show.                             *)
LEMMA OneRequest ==
  ASSUME TableInv, Grow, NEW u \in Slots, NEW q \in Requests,
         req' = [req EXCEPT ![u] = q],
         Copying(q) => q.copies \in CopySet /\ CopyAfter(q.copies)
  PROVE  CopyInv'
<1> SUFFICES ASSUME NEW v \in Slots, NEW p, p = req'[v], Copying(p)
             PROVE  CopyAfter(p.copies)
  BY DEF CopyInv, CopyOK, CopyAfter
<1>1. CASE v = u
  BY <1>1, NextReq DEF TableInv
<1>2. CASE v # u
  <2>1. p = req[v] /\ p \in Requests
    BY <1>2, NextReq DEF TableInv, ReqTypeOK
  <2>2. p.copies \in CopySet
    BY <2>1 DEF Requests, Copying, Posts, Removals, Reports, Submissions, Idle
  <2>3. CopyOK(p.copies)
    BY <2>1 DEF TableInv, CopyInv
  <2> QED BY <2>2, <2>3, CopyStays
<1> QED BY <1>1, <1>2

LEMMA Ended == Idle \in Requests /\ ~Copying(Idle) /\ Idle.step = "none"
  BY DEF Requests, Copying, Idle

LEMMA OneReport ==
  ASSUME TableInv, Grow, NEW u \in Slots, NEW q \in Requests,
         req' = [req EXCEPT ![u] = q], SentTo(q, text'),
         \A t \in Trackers, n \in Bugs : text'[t][n] \subseteq 1 .. waivers'
  PROVE  SentInv'
<1> SUFFICES ASSUME NEW v \in Slots, NEW p, p = req'[v]
             PROVE  SentTo(p, text')
  BY DEF SentInv, SentTo
<1>1. CASE v = u
  BY <1>1, NextReq DEF TableInv
<1>2. CASE v # u
  <2>1. p = req[v] /\ SentTo(p, text)
    BY <1>2, NextReq DEF TableInv, SentInv
  <2>2. p.step \in {"save_bug", "mark"} => p.t \in Trackers
    BY <2>1, StepTells DEF TableInv, Reports, ReportSteps
  <2> QED BY <2>1, <2>2 DEF SentTo, Grow
<1> QED BY <1>1, <1>2

LEMMA NoRoomTaken ==
  ASSUME TableInv, UNCHANGED waivers, NEW u \in Slots, NEW q \in Requests,
         req' = [req EXCEPT ![u] = q],
         q.step \in {"deactivate", "insert"} => u \in Inserting
  PROVE  RoomInv'
<1>1. Inserting' \subseteq Inserting
  BY NextReq DEF Inserting, TableInv
<1> QED BY <1>1, RoomStays

(* The steps that leave the waivers and their bugs alone.                  *)
LEMMA RowsStay ==
  ASSUME TableInv, NEW u \in Slots, NEW q \in Requests, req' = [req EXCEPT ![u] = q],
         UNCHANGED <<resultVars, waiverVars, bugVars>>,
         group' \in [Results -> [Groups -> GroupStates]],
         state' \in [Results -> ScanStates],
         enabled' \subseteq Results, submitted' \in BOOLEAN,
         disturbed' \in BOOLEAN, contended' \in BOOLEAN, RoomInv',
         Copying(q) => q.copies \in CopySet /\ CopyOK(q.copies), SentTo(q, text)
  PROVE  TableInv' /\ Grow
<1>1. Grow
  BY DEF Grow, TableInv, ReqTypeOK, TypeOK, waiverVars, bugVars
<1>2. CopyInv'
  BY <1>1, CopyStays, OneRequest
<1>3. ReqTypeOK'
  BY NextReq DEF TableInv, ReqTypeOK, TypeOK, resultVars, waiverVars, bugVars
<1>4. RowInv' /\ BugListsWaiver'
  BY DEF TableInv, RowInv, BugListsWaiver, resultVars, waiverVars, bugVars
<1>5. SentInv'
  <2>1. UNCHANGED <<text, waivers>>
    BY DEF bugVars, waiverVars
  <2>2. SentTo(q, text') /\ \A t \in Trackers, n \in Bugs : text'[t][n] \subseteq 1 .. waivers'
    BY <2>1 DEF TableInv, SentInv
  <2> QED BY <1>1, <2>2, OneReport
<1> QED BY <1>1, <1>2, <1>3, <1>4, <1>5 DEF TableInv

LEMMA ArriveTables ==
  ASSUME TableInv, NEW u \in Slots, Arrive(u)
  PROVE  TableInv' /\ Grow
<1>1. ASSUME NEW q \in Requests, Begin(u, q), submitted' \in BOOLEAN,
             UNCHANGED <<waivingVars, bugVars, enabled>>, RoomInv',
             Copying(q) => q.copies \in CopySet /\ CopyOK(q.copies), SentTo(q, text)
      PROVE  TableInv' /\ Grow
  <2>1. /\ req' = [req EXCEPT ![u] = q]
        /\ UNCHANGED <<resultVars, waiverVars, bugVars, group, state, enabled>>
        /\ disturbed' \in BOOLEAN /\ contended' \in BOOLEAN
    BY <1>1 DEF Begin, waivingVars, resultVars, waiverVars, TableInv, ReqTypeOK
  <2>2. /\ group' \in [Results -> [Groups -> GroupStates]]
        /\ state' \in [Results -> ScanStates] /\ enabled' \subseteq Results
    BY <2>1 DEF TableInv, ReqTypeOK, TypeOK
  <2> QED BY <1>1, <2>1, <2>2, RowsStay
<1>2. ASSUME NEW r \in Results, NEW g \in Groups, NEW kind \in Kinds \cup {"COMMENT"},
             NEW step \in {"deactivate", "insert"},
             NEW W \in SUBSET (1 .. waivers), Post(u, r, g, kind, step, Copies(W))
      PROVE  TableInv' /\ Grow
  <2> DEFINE q == [op |-> "post", step |-> step, r |-> r, g |-> g, kind |-> kind,
                   seen |-> group[r][g], copies |-> Copies(W), scan |-> Unread]
  <2>1. Begin(u, q) /\ waivers + Cardinality(Inserting) < MaxWaivers
        /\ UNCHANGED <<waivingVars, bugVars, scanVars>>
    BY <1>2 DEF Post
  <2>2. q \in Posts
    BY <1>2, ReadsCopies, ReadsScan DEF Posts, PostSteps, TableInv, ReqTypeOK, TypeOK
  <2>3. q \in Requests /\ q.copies = Copies(W) /\ q.step \in {"deactivate", "insert"}
    BY <2>2 DEF Requests
  <2>4. RoomInv'
    <3> HIDE DEF q
    <3>1. Inserting' \subseteq Inserting \cup {u} /\ waivers' = waivers
      BY <2>1, <2>3, NextReq DEF Begin, Inserting, TableInv, waivingVars
    <3>2. IsFiniteSet(Inserting) /\ Cardinality(Inserting) \in Nat
      BY SlotsAreFinite DEF Inserting
    <3>3. /\ IsFiniteSet(Inserting \cup {u})
          /\ Cardinality(Inserting \cup {u}) <= Cardinality(Inserting) + 1
          /\ Cardinality(Inserting \cup {u}) \in Nat
      <4>1. IsFiniteSet(Inserting \cup {u})
        BY <3>2, FS_AddElement
      <4>2. Cardinality(Inserting \cup {u}) \in Nat
        BY <4>1, FS_CardinalityType
      <4>3. CASE u \in Inserting
        <5>1. Inserting \cup {u} = Inserting
          BY <4>3
        <5> QED BY <3>2, <4>1, <5>1
      <4>4. CASE u \notin Inserting
        <5>1. Cardinality(Inserting \cup {u}) = Cardinality(Inserting) + 1
          BY <3>2, <4>4, FS_AddElement
        <5> QED BY <3>2, <4>1, <5>1
      <4> QED BY <4>1, <4>2, <4>3, <4>4
    <3>4. /\ Cardinality(Inserting') <= Cardinality(Inserting \cup {u})
          /\ Cardinality(Inserting') \in Nat
      BY <3>1, <3>3, FS_Subset, FS_CardinalityType
    <3>5. waivers \in Nat
      BY DEF TableInv, ReqTypeOK, TypeOK
    <3> QED BY <2>1, <3>1, <3>2, <3>3, <3>4, <3>5 DEF RoomInv
  <2>5. CopyOK(q.copies) /\ q.copies \in CopySet /\ SentTo(q, text)
    BY <2>3, <1>2, ReadsCopies DEF SentTo
  <2>6. submitted' \in BOOLEAN /\ UNCHANGED <<waivingVars, bugVars, enabled>>
    BY <2>1 DEF scanVars, TableInv, ReqTypeOK
  <2> HIDE DEF q
  <2> QED BY <1>1, <2>1, <2>3, <2>4, <2>5, <2>6
<1>3. ASSUME NEW r \in Results, NEW g \in Groups, StartComment(u, r, g)
      PROVE  TableInv' /\ Grow
  BY <1>2, <1>3 DEF StartComment
<1>4. ASSUME NEW r \in Results, NEW g \in Groups, NEW kind \in Kinds,
             StartWaiver(u, r, g, kind)
      PROVE  TableInv' /\ Grow
  <2>1. Latest(RowsOf(r, g)) \in SUBSET (1 .. waivers)
    BY DEF Latest, RowsOf, TableInv, ReqTypeOK, TypeOK, RowInv, NoWaiver, Waivers, Results
  <2> QED BY <1>2, <1>4, <2>1 DEF StartWaiver
<1>5. ASSUME NEW w \in Waivers, StartRemove(u, w)
      PROVE  TableInv' /\ Grow
  <2> DEFINE q == [op |-> "remove", step |-> "delete", r |-> waiver[w].result,
                   g |-> waiver[w].group, kind |-> waiver[w].kind, copies |-> Copies({w}),
                   scan |-> Unread]
  <2>1. Begin(u, q) /\ UNCHANGED <<waivingVars, bugVars, scanVars>> /\ w \in 1 .. waivers
    BY <1>5 DEF StartRemove, Waivers, TableInv, ReqTypeOK, TypeOK
  <2>2. /\ waiver[w].result \in Results /\ waiver[w].group \in Groups
        /\ waiver[w].kind \in Kinds \cup {"COMMENT"}
    BY <2>1 DEF TableInv, RowInv, ReqTypeOK, TypeOK, Results
  <2>3. q \in Removals
    BY <2>1, <2>2, ReadsCopies, ReadsScan DEF Removals, RemoveSteps, TableInv
  <2>4. q \in Requests /\ q.copies = Copies({w}) /\ q.step = "delete"
    BY <2>3 DEF Requests
  <2>5. CopyOK(q.copies) /\ q.copies \in CopySet /\ SentTo(q, text)
    BY <2>1, <2>4, ReadsCopies DEF SentTo
  <2>6. /\ submitted' \in BOOLEAN /\ UNCHANGED <<waivers, waivingVars, bugVars, enabled>>
        /\ req' = [req EXCEPT ![u] = q]
    BY <2>1 DEF scanVars, TableInv, ReqTypeOK, waivingVars, Begin
  <2> HIDE DEF q
  <2>7. RoomInv'
    BY <2>4, <2>6, NoRoomTaken
  <2> QED BY <1>1, <2>1, <2>4, <2>5, <2>6, <2>7
<1>6. ASSUME NEW t \in Trackers, NEW n \in Bugs \cup {0}, StartReport(u, t, n)
      PROVE  TableInv' /\ Grow
  <2> DEFINE q == [op |-> "report", step |-> "format", t |-> t, n |-> n,
                   ids |-> Decisions, copies |-> Copies({})]
  <2>1. Begin(u, q) /\ UNCHANGED <<waivingVars, bugVars, scanVars>>
    BY <1>6 DEF StartReport
  <2>2. Decisions \in SUBSET Waivers
    BY DEF Decisions, Waivers, TableInv, ReqTypeOK, TypeOK
  <2>3. q \in Reports
    BY <2>1, <2>2, NoCopies DEF Reports, ReportSteps, TableInv, Bugs
  <2>4. q \in Requests /\ q.copies = Copies({}) /\ q.step = "format"
    BY <2>3 DEF Requests
  <2>5. CopyOK(q.copies) /\ q.copies \in CopySet /\ SentTo(q, text)
    BY <2>4, NoCopies DEF SentTo
  <2>6. /\ submitted' \in BOOLEAN /\ UNCHANGED <<waivers, waivingVars, bugVars, enabled>>
        /\ req' = [req EXCEPT ![u] = q]
    BY <2>1 DEF scanVars, TableInv, ReqTypeOK, waivingVars, Begin
  <2> HIDE DEF q
  <2>7. RoomInv'
    BY <2>4, <2>6, NoRoomTaken
  <2> QED BY <1>1, <2>1, <2>4, <2>5, <2>6, <2>7
<1>7. ASSUME StartSubmit(u) PROVE TableInv' /\ Grow
  <2> DEFINE R == Latest(attached)
             q == [op |-> "submit", step |-> "link", child |-> R,
                   scan |-> [r \in R |-> ScanRow(r)]]
  <2>1. Begin(u, q) /\ submitted' = TRUE /\ UNCHANGED <<waivingVars, bugVars, enabled>>
    BY <1>7 DEF StartSubmit
  <2>2. R \in SUBSET Results
    BY LatestIsResult
  <2>3. [r \in R |-> ScanRow(r)] \in [R -> ScanRows]
    BY <2>2, ReadsScan DEF TableInv
  <2>4. q \in Submissions
    <3> HIDE DEF R
    <3> QED BY <2>2, <2>3 DEF Submissions
  <2>5. q \in Requests /\ ~Copying(q) /\ q.step = "link" /\ SentTo(q, text)
    BY <2>4 DEF Requests, Copying, SentTo
  <2>6. UNCHANGED waivers /\ req' = [req EXCEPT ![u] = q]
    BY <2>1 DEF waivingVars, Begin
  <2> HIDE DEF q
  <2>7. RoomInv'
    BY <2>5, <2>6, NoRoomTaken
  <2> QED BY <1>1, <2>1, <2>5, <2>7
<1> QED BY <1>3, <1>4, <1>5, <1>6, <1>7 DEF Arrive

LEMMA CopiesOf ==
  ASSUME TableInv, NEW u \in Slots, Copying(req[u])
  PROVE  req[u].copies \in CopySet /\ CopyOK(req[u].copies)
<1>1. req[u] \in Requests
  BY DEF TableInv, ReqTypeOK
<1> QED BY <1>1 DEF TableInv, CopyInv, Copying, Requests, Posts, Removals, Reports,
                    Submissions, Idle

LEMMA SavesScan ==
  ASSUME ReqTypeOK, NEW r \in Results, NEW row \in ScanRows, SaveScan(r, row)
  PROVE  state' \in [Results -> ScanStates] /\ enabled' \subseteq Results
  BY DEF ReqTypeOK, TypeOK, ScanRows, SaveScan

LEMMA GoesOn ==
  ASSUME TableInv, NEW u \in Slots, NEW q \in Requests, Continue(u, q),
         UNCHANGED <<resultVars, waiverVars, bugVars, submitted>>,
         group' \in [Results -> [Groups -> GroupStates]],
         state' \in [Results -> ScanStates], enabled' \subseteq Results,
         q.step \in {"deactivate", "insert"} => u \in Inserting,
         Copying(q) => q.copies \in CopySet /\ CopyOK(q.copies), SentTo(q, text)
  PROVE  TableInv' /\ Grow
<1>1. /\ req' = [req EXCEPT ![u] = q] /\ UNCHANGED waivers
      /\ submitted' \in BOOLEAN /\ disturbed' \in BOOLEAN /\ contended' \in BOOLEAN
  BY DEF Continue, history, waiverVars, TableInv, ReqTypeOK
<1>2. RoomInv'
  BY <1>1, NoRoomTaken
<1> QED BY <1>1, <1>2, RowsStay

LEMMA PostTables ==
  ASSUME TableInv, NEW u \in Slots,
         ReadScan(u) \/ Apply(u) \/ Finalize(u) \/ FinishPost(u)
  PROVE  TableInv' /\ Grow
<1> DEFINE q == req[u]
<1>1. q \in Posts /\ Copying(q)
  BY StepTells DEF ReadScan, Apply, Finalize, FinishPost, At, PostSteps, TableInv, Copying
<1>2. q.copies \in CopySet /\ CopyOK(q.copies)
  BY <1>1, CopiesOf
<1>3. q.r \in Results /\ q.g \in Groups /\ q.scan \in ScanRows /\ q.seen \in GroupStates
  BY <1>1 DEF Posts
<1>4. /\ group \in [Results -> [Groups -> GroupStates]]
      /\ state \in [Results -> ScanStates] /\ enabled \subseteq Results
  BY DEF TableInv, ReqTypeOK, TypeOK
<1>5. \A x \in GroupStates :
        [group EXCEPT ![q.r][q.g] = x] \in [Results -> [Groups -> GroupStates]]
  BY <1>3, <1>4
<1>6. ASSUME NEW p \in Posts, Continue(u, p), p.copies = q.copies,
             p.step \notin {"deactivate", "insert"},
             UNCHANGED <<resultVars, waiverVars, bugVars, submitted>>,
             group' \in [Results -> [Groups -> GroupStates]],
             state' \in [Results -> ScanStates], enabled' \subseteq Results
      PROVE  TableInv' /\ Grow
  <2>1. p \in Requests /\ SentTo(p, text)
    BY DEF Requests, Posts, PostSteps, SentTo
  <2> QED BY <1>2, <1>6, <2>1, GoesOn
<1> HIDE DEF q
<1>7. CASE ReadScan(u)
  <2> DEFINE s == IF q.kind = "COMMENT" THEN "save_scan" ELSE "apply"
             p == [q EXCEPT !.scan = ScanRow(q.r), !.step = s]
  <2>1. Continue(u, p) /\ UNCHANGED <<resultVars, state, waiverVars, bugVars, scanVars>>
    BY <1>7 DEF ReadScan, q
  <2>2. group' = group \/ group' = [group EXCEPT ![q.r][q.g] = q.seen]
    BY <1>7 DEF ReadScan, q
  <2>3. s \in PostSteps /\ ScanRow(q.r) \in ScanRows
    BY <1>3, ReadsScan DEF PostSteps, TableInv
  <2>4. p \in Posts
    BY <1>1, <2>3, StepsOfRequests
  <2>5. p.copies = q.copies /\ p.step \in {"save_scan", "apply"}
    BY <1>1 DEF Posts
  <2>6. group' \in [Results -> [Groups -> GroupStates]]
    BY <1>3, <1>4, <1>5, <2>2
  <2> HIDE DEF p
  <2> QED BY <1>4, <1>6, <2>1, <2>4, <2>5, <2>6 DEF scanVars
<1>8. CASE Apply(u)
  <2>1. UNCHANGED <<resultVars, state, waiverVars, bugVars, scanVars>>
    BY <1>8 DEF Apply
  <2>2. PICK s \in {"save_scan", "finalize"} : Goto(u, s)
    BY <1>8 DEF Apply
  <2>3. \/ group' = group
        \/ group' = [group EXCEPT ![q.r][q.g] = "CONTAINS_BUG"]
        \/ group' = [group EXCEPT ![q.r][q.g] = "WAIVED"]
    BY <1>8 DEF Apply, q
  <2> DEFINE p == [q EXCEPT !.step = s]
  <2>4. p \in Posts /\ Continue(u, p)
    BY <1>1, <2>2, StepsOfRequests DEF PostSteps, Goto, q
  <2>5. p.copies = q.copies /\ p.step \in {"save_scan", "finalize"}
    BY <1>1 DEF Posts
  <2>6. group' \in [Results -> [Groups -> GroupStates]]
    BY <1>4, <1>5, <2>3 DEF GroupStates
  <2> HIDE DEF p
  <2> QED BY <1>4, <1>6, <2>1, <2>4, <2>5, <2>6 DEF scanVars
<1>9. CASE Finalize(u)
  <2>1. UNCHANGED <<resultVars, group, waiverVars, bugVars, submitted>>
    BY <1>9 DEF Finalize
  <2> DEFINE row == [q.scan EXCEPT !.state = Finalized(group[q.r])]
             p == [q EXCEPT !.scan = row, !.step = "save_scan"]
             o == [q EXCEPT !.step = "save_scan"]
  <2>2. \/ SaveScan(q.r, row) /\ Continue(u, p)
        \/ Continue(u, o) /\ UNCHANGED <<state, enabled>>
    BY <1>9 DEF Finalize, Goto, q
  <2>3. row \in ScanRows
    BY <1>3 DEF ScanRows, Finalized, ScanStates
  <2>4. p \in Posts /\ o \in Posts
    BY <1>1, <2>3, StepsOfRequests DEF PostSteps
  <2>5. /\ p.copies = q.copies /\ p.step = "save_scan"
        /\ o.copies = q.copies /\ o.step = "save_scan"
    BY <1>1 DEF Posts
  <2>6. state' \in [Results -> ScanStates] /\ enabled' \subseteq Results
    BY <1>3, <1>4, <2>2, <2>3, SavesScan DEF TableInv
  <2> HIDE DEF p, o
  <2> QED BY <1>4, <1>6, <2>1, <2>2, <2>4, <2>5, <2>6
<1>10. CASE FinishPost(u)
  <2>1. SaveScan(q.r, q.scan) /\ Continue(u, Idle)
        /\ UNCHANGED <<resultVars, group, waiverVars, bugVars, submitted>>
    BY <1>10 DEF FinishPost, End, q
  <2>2. state' \in [Results -> ScanStates] /\ enabled' \subseteq Results
    BY <1>3, <2>1, SavesScan DEF TableInv
  <2> QED BY <1>4, <2>1, <2>2, Ended, GoesOn DEF SentTo
<1> QED BY <1>7, <1>8, <1>9, <1>10

LEMMA RemoveTables ==
  ASSUME TableInv, NEW u \in Slots, IsWaived(u) \/ Reopen(u) \/ Dispute(u)
  PROVE  TableInv' /\ Grow
<1> DEFINE q == req[u]
<1>1. q \in Removals /\ Copying(q)
  BY StepTells DEF IsWaived, Reopen, Dispute, At, RemoveSteps, TableInv, Copying
<1>2. q.copies \in CopySet /\ CopyOK(q.copies)
  BY <1>1, CopiesOf
<1>3. q.r \in Results /\ q.g \in Groups /\ q.scan \in ScanRows
  BY <1>1 DEF Removals
<1>4. /\ group \in [Results -> [Groups -> GroupStates]]
      /\ state \in [Results -> ScanStates] /\ enabled \subseteq Results
  BY DEF TableInv, ReqTypeOK, TypeOK
<1>5. ASSUME NEW p, \/ p = Idle
                    \/ p \in Removals /\ p.copies = q.copies,
             Continue(u, p),
             UNCHANGED <<resultVars, waiverVars, bugVars, submitted>>,
             group' \in [Results -> [Groups -> GroupStates]],
             state' \in [Results -> ScanStates], enabled' \subseteq Results
      PROVE  TableInv' /\ Grow
  <2>1. CASE p = Idle
    BY <1>5, <2>1, Ended, GoesOn DEF SentTo
  <2>2. CASE p \in Removals /\ p.copies = q.copies
    <3>1. p \in Requests /\ SentTo(p, text) /\ p.step \notin {"deactivate", "insert"}
      BY <2>2 DEF Requests, Removals, RemoveSteps, SentTo
    <3> QED BY <1>2, <1>5, <2>2, <3>1, GoesOn
  <2> QED BY <1>5, <2>1, <2>2
<1> HIDE DEF q
<1>6. CASE IsWaived(u)
  <2> DEFINE p == [q EXCEPT !.step = "reopen", !.scan = ScanRow(q.r)]
  <2>1. Continue(u, p) \/ Continue(u, Idle)
    BY <1>6 DEF IsWaived, End, q
  <2>2. UNCHANGED <<resultVars, waiverVars, bugVars, submitted, group, state, enabled>>
    BY <1>6 DEF IsWaived, waivingVars, resultVars, waiverVars, scanVars
  <2>3. p \in Removals
    BY <1>1, <1>3, ReadsScan, StepsOfRequests DEF RemoveSteps, TableInv
  <2>4. p.copies = q.copies
    BY <1>1 DEF Removals
  <2> HIDE DEF p
  <2> QED BY <1>4, <1>5, <2>1, <2>2, <2>3, <2>4
<1>7. CASE Reopen(u)
  <2> DEFINE p == [q EXCEPT !.step = "dispute"]
  <2>1. Continue(u, p) \/ Continue(u, Idle)
    BY <1>7 DEF Reopen, End, Goto, q
  <2>2. UNCHANGED <<resultVars, waiverVars, bugVars, submitted, state, enabled>>
    BY <1>7 DEF Reopen, scanVars
  <2>3. p \in Removals
    BY <1>1, StepsOfRequests DEF RemoveSteps
  <2>4. p.copies = q.copies
    BY <1>1 DEF Removals
  <2>5. group' = group \/ group' = [group EXCEPT ![q.r][q.g] = "NEEDS_INSPECTION"]
    BY <1>7 DEF Reopen, q
  <2>6. group' \in [Results -> [Groups -> GroupStates]]
    <3>1. "NEEDS_INSPECTION" \in GroupStates
      BY DEF GroupStates
    <3>2. [group EXCEPT ![q.r][q.g] = "NEEDS_INSPECTION"]
            \in [Results -> [Groups -> GroupStates]]
      BY <1>3, <1>4, <3>1
    <3> QED BY <1>4, <2>5, <3>2
  <2> HIDE DEF p
  <2> QED BY <1>4, <1>5, <2>1, <2>2, <2>3, <2>4, <2>6
<1>8. CASE Dispute(u)
  <2> DEFINE row == [q.scan EXCEPT !.state = "DISPUTED"]
  <2>1. SaveScan(q.r, row) /\ Continue(u, Idle)
        /\ UNCHANGED <<resultVars, group, waiverVars, bugVars, submitted>>
    BY <1>8 DEF Dispute, End, q
  <2>2. row \in ScanRows
    BY <1>3 DEF ScanRows, ScanStates
  <2>3. state' \in [Results -> ScanStates] /\ enabled' \subseteq Results
    BY <1>3, <2>1, <2>2, SavesScan DEF TableInv
  <2> QED BY <1>4, <1>5, <2>1, <2>3
<1> QED BY <1>6, <1>7, <1>8

(* The steps that write copies of waivers back.                            *)
LEMMA SaveTables ==
  ASSUME TableInv, NEW u \in Slots, NEW c \in CopySet, CopyOK(c), SaveWaivers(c),
         UNCHANGED <<resultVars, waivers, state, group, text, filed, rows, scanVars>>,
         NEW q \in Requests, Continue(u, q),
         q.step \in {"deactivate", "insert"} => u \in Inserting,
         Copying(q) => q.copies \in CopySet /\ CopyOK(q.copies), SentTo(q, text)
  PROVE  TableInv' /\ Grow
<1>1. UNCHANGED <<results, attached, found, waivers, state, group, text, filed, rows, enabled,
                  submitted, disturbed, contended>>
      /\ req' = [req EXCEPT ![u] = q]
  BY DEF resultVars, scanVars, Continue, history
<1>2. /\ waiver' \in [Waivers -> WaiverRow]
      /\ bug' \in [Trackers -> [Waivers -> 0 .. MaxBugs]]
      /\ Grow /\ RowInv' /\ BugListsWaiver'
  BY <1>1, SavesCopies
<1>3. RoomInv'
  BY <1>1, NoRoomTaken
<1>4. CopyInv'
  BY <1>1, <1>2, CopyStays, OneRequest
<1>5. SentInv'
  <2>1. SentTo(q, text') /\ \A t \in Trackers, n \in Bugs : text'[t][n] \subseteq 1 .. waivers'
    BY <1>1 DEF TableInv, SentInv
  <2> QED BY <1>1, <1>2, <2>1, OneReport
<1>6. req' \in [Slots -> Requests]
  BY <1>1, NextReq DEF TableInv
<1>7. ReqTypeOK'
  BY <1>1, <1>2, <1>6 DEF TableInv, ReqTypeOK, TypeOK, WaiverRow
<1> QED BY <1>2, <1>3, <1>4, <1>5, <1>7 DEF TableInv

LEMMA DeactivateTables ==
  ASSUME TableInv, NEW u \in Slots, Deactivate(u)
  PROVE  TableInv' /\ Grow
<1> DEFINE q == req[u]
           c == [w \in DOMAIN q.copies |-> [q.copies[w] EXCEPT !.waiver.is_active = FALSE]]
           p == [q EXCEPT !.step = "insert"]
<1>1. q \in Posts /\ Copying(q) /\ q.step = "deactivate"
  BY StepTells DEF Deactivate, At, PostSteps, TableInv, Copying
<1>2. q.copies \in CopySet /\ CopyOK(q.copies)
  BY <1>1, CopiesOf
<1>3. SaveWaivers(c) /\ Continue(u, p)
      /\ UNCHANGED <<resultVars, waivers, state, group, text, filed, rows, scanVars>>
  BY DEF Deactivate, Goto
<1> HIDE DEF q
<1>4. c \in CopySet
  <2>1. PICK W \in SUBSET Waivers : q.copies \in [W -> CopyRow]
    BY <1>2 DEF CopySet
  <2>2. \A x \in CopyRow : [x EXCEPT !.waiver.is_active = FALSE] \in CopyRow
    BY DEF CopyRow, WaiverRow
  <2>3. c \in [W -> CopyRow]
    BY <2>1, <2>2
  <2> QED BY <2>3 DEF CopySet
<1>5. CopyOK(c)
  BY <1>2 DEF CopyOK, CopySet, CopyRow, WaiverRow
<1>6. p \in Posts /\ p.copies = q.copies /\ p.step = "insert"
  <2>1. p \in Posts
    BY <1>1, StepsOfRequests DEF PostSteps
  <2> QED BY <1>1, <2>1 DEF Posts
<1>7. p \in Requests /\ SentTo(p, text) /\ u \in Inserting
  BY <1>1, <1>6 DEF Requests, SentTo, Inserting, q
<1> HIDE DEF p, c
<1> QED BY <1>2, <1>3, <1>4, <1>5, <1>6, <1>7, SaveTables

LEMMA DeleteTables ==
  ASSUME TableInv, NEW u \in Slots, Delete(u)
  PROVE  TableInv' /\ Grow
<1> DEFINE q == req[u]
           c == [w \in DOMAIN q.copies |-> [q.copies[w] EXCEPT !.waiver.is_deleted = TRUE]]
           p == [q EXCEPT !.step = "is_waived", !.copies = Copies({})]
<1>1. q \in Removals /\ Copying(q)
  BY StepTells DEF Delete, At, RemoveSteps, TableInv, Copying
<1>2. q.copies \in CopySet /\ CopyOK(q.copies)
  BY <1>1, CopiesOf
<1>3. /\ SaveWaivers(c)
      /\ Continue(u, p) \/ Continue(u, Idle)
      /\ UNCHANGED <<resultVars, waivers, state, group, text, filed, rows, scanVars>>
  BY DEF Delete, End
<1> HIDE DEF q
<1>4. c \in CopySet
  <2>1. PICK W \in SUBSET Waivers : q.copies \in [W -> CopyRow]
    BY <1>2 DEF CopySet
  <2>2. \A x \in CopyRow : [x EXCEPT !.waiver.is_deleted = TRUE] \in CopyRow
    BY DEF CopyRow, WaiverRow
  <2>3. c \in [W -> CopyRow]
    BY <2>1, <2>2
  <2> QED BY <2>3 DEF CopySet
<1>5. CopyOK(c)
  BY <1>2 DEF CopyOK, CopySet, CopyRow, WaiverRow
<1>6. p \in Removals /\ p.copies = Copies({}) /\ p.step = "is_waived"
  <2>1. p \in Removals
    BY <1>1, NoCopies, StepsOfRequests DEF RemoveSteps
  <2> QED BY <1>1, <2>1 DEF Removals
<1>7. p \in Requests /\ SentTo(p, text) /\ SentTo(Idle, text)
  BY <1>6, Ended DEF Requests, SentTo
<1> HIDE DEF p, c
<1> QED BY <1>3, <1>4, <1>5, <1>6, <1>7, NoCopies, Ended, SaveTables

LEMMA MarkTables ==
  ASSUME TableInv, NEW u \in Slots, Mark(u)
  PROVE  TableInv' /\ Grow
<1> DEFINE q    == req[u]
           rest == Rest(DOMAIN q.copies)
           c    == [w \in DOMAIN q.copies \ rest |-> [q.copies[w] EXCEPT !.bug[q.t] = q.n]]
           d    == [w \in rest |-> q.copies[w]]
           p    == [q EXCEPT !.copies = d]
<1>1. q \in Reports /\ Copying(q) /\ q.step = "mark"
  BY StepTells DEF Mark, At, ReportSteps, TableInv, Copying
<1>2. q.copies \in CopySet /\ CopyOK(q.copies)
  BY <1>1, CopiesOf
<1>3. /\ SaveWaivers(c)
      /\ Continue(u, p) \/ Continue(u, Idle)
      /\ UNCHANGED <<resultVars, waivers, state, group, text, filed, rows, scanVars>>
  BY DEF Mark, End
<1>4. SentTo(q, text)
  BY DEF TableInv, SentInv
<1> HIDE DEF q
<1>5. q.t \in Trackers /\ q.n \in Bugs /\ DOMAIN q.copies \subseteq text[q.t][q.n]
  BY <1>1, <1>4 DEF Reports, SentTo
<1>6. rest \subseteq DOMAIN q.copies
  BY DEF Rest
<1> HIDE DEF rest
<1>7. c \in CopySet
  <2>1. PICK W \in SUBSET Waivers : q.copies \in [W -> CopyRow]
    BY <1>2 DEF CopySet
  <2>2. \A x \in CopyRow : [x EXCEPT !.bug[q.t] = q.n] \in CopyRow
    BY <1>5 DEF CopyRow, Bugs
  <2>3. c \in [W \ rest -> CopyRow] /\ W \ rest \in SUBSET Waivers
    BY <2>1, <2>2
  <2> QED BY <2>3 DEF CopySet
<1>8. CopyOK(c)
  BY <1>2, <1>5 DEF CopyOK, CopySet, CopyRow
<1>9. d \in CopySet /\ CopyOK(d) /\ DOMAIN d = rest
  BY <1>2, <1>6 DEF CopySet, CopyOK
<1>10. /\ p \in Reports /\ p.copies = d /\ p.step = "mark" /\ p.t = q.t /\ p.n = q.n
  BY <1>1, <1>9, StepsOfRequests DEF Reports
<1>11. p \in Requests /\ SentTo(p, text) /\ SentTo(Idle, text)
  <2>1. SentTo(Idle, text)
    BY Ended DEF SentTo
  <2>2. p \in Requests
    BY <1>10 DEF Requests
  <2> HIDE DEF p, d
  <2>3. SentTo(p, text)
    BY <1>5, <1>6, <1>9, <1>10 DEF SentTo
  <2> QED BY <2>1, <2>2, <2>3
<1> HIDE DEF p, c, d
<1>12. CASE Continue(u, p)
  BY <1>3, <1>7, <1>8, <1>9, <1>10, <1>11, <1>12, SaveTables
<1>13. CASE Continue(u, Idle)
  BY <1>3, <1>7, <1>8, <1>11, <1>13, Ended, SaveTables
<1> QED BY <1>3, <1>12, <1>13

LEMMA InsertTables ==
  ASSUME TableInv, PostInv, NEW u \in Slots, Insert(u)
  PROVE  TableInv' /\ Grow
<1> DEFINE q   == req[u]
           n   == waivers + 1
           row == [result |-> q.r, group |-> q.g, kind |-> q.kind,
                   is_active |-> q.kind # "COMMENT", is_deleted |-> FALSE]
           p   == [q EXCEPT !.step = "read_scan", !.copies = Copies({})]
<1>1. q \in Posts /\ q.step = "insert" /\ u \in Inserting
  BY StepTells DEF Insert, At, PostSteps, TableInv, Inserting
<1>2. /\ waivers' = n /\ waiver' = [waiver EXCEPT ![n] = row]
      /\ Continue(u, p) /\ UNCHANGED <<resultVars, state, group, bugVars, scanVars>>
  BY DEF Insert, Add
<1> HIDE DEF q
<1>3. /\ q.r \in Results /\ q.g \in Groups /\ q.kind \in Kinds \cup {"COMMENT"}
  BY <1>1 DEF Posts
<1>4. waivers \in Nat /\ n \in Waivers /\ n \in 0 .. MaxWaivers
  BY <1>1, RoomToInsert DEF TableInv, ReqTypeOK, TypeOK, Waivers
<1>5. q.r \in 1 .. results
  BY <1>1 DEF PostInv, q, Posts
<1>6. row \in WaiverRow
  BY <1>3 DEF WaiverRow, Results
<1>7. waiver' \in [Waivers -> WaiverRow]
  BY <1>2, <1>6 DEF TableInv, ReqTypeOK, TypeOK, WaiverRow
<1>8. waiver'[n] = row /\ \A w \in 1 .. waivers : w \in Waivers /\ waiver'[w] = waiver[w]
  BY <1>2, <1>4 DEF TableInv, ReqTypeOK, TypeOK, Waivers
<1>9. Grow
  BY <1>2, <1>4, <1>8 DEF Grow, bugVars
<1>10. RowInv'
  <2>1. ASSUME NEW w \in Waivers, w > n PROVE waiver'[w] = NoWaiver
    BY <1>2, <1>4, <2>1 DEF RowInv, TableInv, ReqTypeOK, TypeOK, Waivers
  <2>2. ASSUME NEW w \in 1 .. n
        PROVE  /\ waiver'[w].result \in 1 .. results
               /\ waiver'[w].group \in Groups
               /\ waiver'[w].kind \in Kinds \cup {"COMMENT"}
               /\ waiver'[w].is_active => waiver'[w].kind \in Kinds
    <3>1. CASE w = n
      <4>1. waiver'[w] = row
        BY <1>8, <3>1
      <4>2. /\ row.result \in 1 .. results /\ row.group \in Groups
            /\ row.kind \in Kinds \cup {"COMMENT"}
            /\ row.is_active => row.kind \in Kinds
        BY <1>3, <1>5
      <4> HIDE DEF row
      <4> QED BY <4>1, <4>2
    <3>2. CASE w # n
      <4>1. w \in 1 .. waivers
        BY <1>4, <3>2
      <4> QED BY <1>8, <4>1 DEF RowInv, TableInv
    <3> QED BY <3>1, <3>2
  <2> HIDE DEF n
  <2> QED BY <1>2, <2>1, <2>2 DEF RowInv, resultVars
<1>11. p \in Posts /\ p.copies = Copies({}) /\ p.step = "read_scan"
  <2>1. p \in Posts
    BY <1>1, NoCopies, StepsOfRequests DEF PostSteps
  <2> QED BY <1>1, <2>1 DEF Posts
<1>12. p \in Requests /\ req' = [req EXCEPT ![u] = p]
  BY <1>2, <1>11 DEF Requests, Continue
<1> HIDE DEF p, row
<1>13. RoomInv'
  <2>1. Inserting' = Inserting \ {u}
    BY <1>11, <1>12, NextReq DEF Inserting, TableInv
  <2>2. IsFiniteSet(Inserting) /\ Cardinality(Inserting) \in Nat
    BY SlotsAreFinite DEF Inserting
  <2>3. Cardinality(Inserting \ {u}) = Cardinality(Inserting) - 1
    BY <1>1, <2>2, FS_RemoveElement
  <2> QED BY <1>2, <1>4, <2>1, <2>2, <2>3 DEF RoomInv, TableInv
<1>14. CopyInv'
  <2>1. CopyAfter(Copies({}))
    BY NoCopies DEF CopyAfter
  <2> QED BY <1>9, <1>11, <1>12, <2>1, NoCopies, OneRequest
<1>15. SentInv'
  <2>1. SentTo(p, text')
    BY <1>11 DEF SentTo
  <2>2. \A t \in Trackers, m \in Bugs : text'[t][m] \subseteq 1 .. waivers'
    BY <1>2, <1>4 DEF TableInv, SentInv, bugVars
  <2> QED BY <1>9, <1>12, <2>1, <2>2, OneReport
<1>16. BugListsWaiver'
  BY <1>2 DEF TableInv, BugListsWaiver, bugVars
<1>17. req' \in [Slots -> Requests]
  BY <1>12, NextReq DEF TableInv
<1>18. ReqTypeOK'
  BY <1>2, <1>4, <1>7, <1>17 DEF TableInv, ReqTypeOK, TypeOK, WaiverRow, resultVars, bugVars,
                                 scanVars, Continue, history
<1> QED BY <1>9, <1>10, <1>13, <1>14, <1>15, <1>16, <1>18 DEF TableInv

LEMMA ReportTables ==
  ASSUME TableInv, NEW u \in Slots, Format(u) \/ Send(u) \/ SaveBug(u)
  PROVE  TableInv' /\ Grow
<1> DEFINE q == req[u]
<1>1. q \in Reports /\ Copying(q)
  BY StepTells DEF Format, Send, SaveBug, At, ReportSteps, TableInv, Copying
<1>2. q.copies \in CopySet /\ CopyOK(q.copies) /\ SentTo(q, text)
  BY <1>1, CopiesOf DEF TableInv, SentInv
<1>3. q.t \in Trackers /\ q.n \in 0 .. MaxBugs
  BY <1>1 DEF Reports
<1>4. /\ group \in [Results -> [Groups -> GroupStates]]
      /\ state \in [Results -> ScanStates] /\ enabled \subseteq Results
  BY DEF TableInv, ReqTypeOK, TypeOK
<1>5. CASE Format(u)
  <2> DEFINE W == Unreported(q.t, q.ids)
             p == [q EXCEPT !.step = "send", !.copies = Copies(W)]
  <2>1. Continue(u, p) \/ Continue(u, Idle)
    BY <1>5 DEF Format, End
  <2>2. UNCHANGED <<resultVars, waiverVars, bugVars, submitted, group, state, enabled>>
    BY <1>5 DEF Format, waivingVars, resultVars, waiverVars, scanVars
  <2> HIDE DEF q
  <2>3. W \in SUBSET (1 .. waivers)
    <3>1. q.ids \in SUBSET Waivers
      BY <1>1 DEF Reports
    <3>2. \A w \in Waivers : Live(w) => w \in 1 .. waivers
      BY DEF TableInv, RowInv, Live, NoWaiver, Waivers, ReqTypeOK, TypeOK
    <3> QED BY <3>1, <3>2 DEF Unreported
  <2> HIDE DEF W
  <2>4. Copies(W) \in CopySet /\ CopyOK(Copies(W))
    BY <2>3, ReadsCopies
  <2>5. p \in Reports
    BY <1>1, <2>4, StepsOfRequests DEF ReportSteps
  <2>6. p.copies = Copies(W) /\ p.step = "send"
    BY <1>1 DEF Reports
  <2>7. p \in Requests /\ SentTo(p, text) /\ SentTo(Idle, text)
    BY <2>5, <2>6, Ended DEF Requests, SentTo
  <2> HIDE DEF p
  <2> QED BY <1>4, <2>1, <2>2, <2>4, <2>6, <2>7, Ended, GoesOn
<1>6. CASE Send(u)
  <2> DEFINE k == IF q.n = 0 THEN filed[q.t] + 1 ELSE q.n
             s == IF q.n = 0 THEN "save_bug" ELSE "mark"
             p == [q EXCEPT !.n = k, !.step = s]
  <2>1. /\ k \in Bugs
        /\ filed' = [filed EXCEPT ![q.t] = IF q.n = 0 THEN k ELSE @]
        /\ text' = [text EXCEPT ![q.t][k] = @ \cup DOMAIN q.copies]
        /\ Continue(u, p) /\ UNCHANGED <<waivingVars, bug, rows, scanVars>>
    BY <1>6 DEF Send
  <2> HIDE DEF q
  <2>2. p \in Reports /\ p.copies = q.copies /\ p.t = q.t /\ p.n = k
        /\ p.step \notin {"deactivate", "insert"}
    <3>1. k \in 0 .. MaxBugs /\ s \in ReportSteps
      BY <2>1 DEF Bugs, ReportSteps
    <3> HIDE DEF k
    <3>2. p \in Reports
      BY <1>1, <3>1, StepsOfRequests
    <3> QED BY <1>1, <3>2 DEF Reports
  <2> HIDE DEF p, k
  <2>3. /\ UNCHANGED <<results, attached, found, state, group, waivers, waiver, bug, rows,
                       enabled, submitted, disturbed, contended>>
        /\ req' = [req EXCEPT ![u] = p]
    BY <2>1 DEF waivingVars, scanVars, Continue, history
  <2>4. DOMAIN q.copies \subseteq 1 .. waivers /\ 1 .. waivers \subseteq Waivers
    BY <1>2 DEF CopyOK, TableInv, ReqTypeOK, TypeOK, Waivers
  <2>5. text \in [Trackers -> [Bugs -> SUBSET Waivers]]
    BY DEF TableInv, ReqTypeOK
  <2>6. /\ text' \in [Trackers -> [Bugs -> SUBSET Waivers]]
        /\ \A t \in Trackers, n \in Bugs :
             text'[t][n] = IF t = q.t /\ n = k THEN text[t][n] \cup DOMAIN q.copies
                           ELSE text[t][n]
    BY <1>3, <2>1, <2>4, <2>5
  <2>7. Grow
    <3>1. \A t \in Trackers, n \in Bugs : text[t][n] \subseteq text'[t][n]
      BY <2>6
    <3> QED BY <2>3, <3>1 DEF Grow, TableInv, ReqTypeOK, TypeOK
  <2>8. p \in Requests
    BY <2>2 DEF Requests
  <2>9. RoomInv'
    BY <2>2, <2>3, <2>8, NoRoomTaken
  <2>10. CopyInv'
    BY <1>2, <2>2, <2>3, <2>7, <2>8, CopyStays, OneRequest
  <2>11. SentInv'
    <3>1. SentTo(p, text')
      BY <1>3, <2>1, <2>2, <2>6 DEF SentTo
    <3>2. \A t \in Trackers, n \in Bugs : text'[t][n] \subseteq 1 .. waivers'
      BY <2>3, <2>4, <2>6 DEF TableInv, SentInv
    <3> QED BY <2>3, <2>7, <2>8, <3>1, <3>2, OneReport
  <2>12. RowInv'
    BY <2>3 DEF TableInv, RowInv
  <2>13. BugListsWaiver'
    <3> SUFFICES ASSUME NEW t \in Trackers, NEW w \in Waivers, bug[t][w] # 0
                 PROVE  w \in text'[t][bug[t][w]]
      BY <2>3 DEF BugListsWaiver
    <3>1. bug[t][w] \in Bugs /\ w \in text[t][bug[t][w]]
      BY DEF TableInv, ReqTypeOK, BugListsWaiver, Bugs
    <3> QED BY <2>6, <3>1
  <2>14. filed' \in [Trackers -> 0 .. MaxBugs]
    BY <1>3, <2>1 DEF TableInv, ReqTypeOK, Bugs
  <2>15. ReqTypeOK'
    <3>1. req' \in [Slots -> Requests]
      BY <2>3, <2>8, NextReq DEF TableInv
    <3> QED BY <2>3, <2>6, <2>14, <3>1 DEF TableInv, ReqTypeOK, TypeOK
  <2> QED BY <2>7, <2>9, <2>10, <2>11, <2>12, <2>13, <2>15 DEF TableInv
<1>7. CASE SaveBug(u)
  <2> DEFINE p == [q EXCEPT !.step = "mark"]
  <2>1. /\ rows' = [rows EXCEPT ![q.t] = @ \cup {q.n}] /\ q.step = "save_bug"
        /\ Continue(u, p) /\ UNCHANGED <<waivingVars, bug, text, filed, scanVars>>
    BY <1>7 DEF SaveBug, Goto, At
  <2> HIDE DEF q
  <2>2. p \in Reports /\ p.copies = q.copies /\ p.t = q.t /\ p.n = q.n /\ p.step = "mark"
    <3>1. p \in Reports
      BY <1>1, StepsOfRequests DEF ReportSteps
    <3> QED BY <1>1, <3>1 DEF Reports
  <2> HIDE DEF p
  <2>3. /\ UNCHANGED <<results, attached, found, state, group, waivers, waiver, bug, text, filed,
                       enabled, submitted, disturbed, contended>>
        /\ req' = [req EXCEPT ![u] = p]
    BY <2>1 DEF waivingVars, scanVars, Continue, history
  <2>4. p \in Requests
    BY <2>2 DEF Requests
  <2>5. Grow
    BY <2>3 DEF Grow, TableInv, ReqTypeOK, TypeOK
  <2>6. RoomInv'
    BY <2>2, <2>3, <2>4, NoRoomTaken
  <2>7. CopyInv'
    BY <1>2, <2>2, <2>3, <2>4, <2>5, CopyStays, OneRequest
  <2>8. q.n \in Bugs
    BY <1>2, <2>1 DEF SentTo
  <2>9. SentInv'
    <3>1. SentTo(p, text')
      BY <1>2, <2>1, <2>2, <2>3 DEF SentTo
    <3>2. \A t \in Trackers, n \in Bugs : text'[t][n] \subseteq 1 .. waivers'
      BY <2>3 DEF TableInv, SentInv
    <3> QED BY <2>3, <2>4, <2>5, <3>1, <3>2, OneReport
  <2>10. RowInv' /\ BugListsWaiver'
    BY <2>3 DEF TableInv, RowInv, BugListsWaiver
  <2>11. rows' \in [Trackers -> SUBSET Bugs]
    BY <2>1, <2>8 DEF TableInv, ReqTypeOK
  <2>12. ReqTypeOK'
    <3>1. req' \in [Slots -> Requests]
      BY <2>3, <2>4, NextReq DEF TableInv
    <3> QED BY <2>3, <2>11, <3>1 DEF TableInv, ReqTypeOK, TypeOK
  <2> QED BY <2>5, <2>6, <2>7, <2>9, <2>10, <2>12 DEF TableInv
<1> QED BY <1>5, <1>6, <1>7

LEMMA LinkTables ==
  ASSUME TableInv, NEW u \in Slots, LinkChild(u)
  PROVE  TableInv' /\ Grow
<1> DEFINE q == req[u]
<1>1. q \in Submissions
  BY StepTells DEF LinkChild, At, TableInv
<1>2. /\ Continue(u, Idle) /\ UNCHANGED <<resultVars, group, waiverVars, bugVars, submitted>>
      /\ \/ UNCHANGED <<state, enabled>>
         \/ \E r \in q.child : SaveScan(r, [q.scan[r] EXCEPT !.enabled = FALSE])
  BY DEF LinkChild, End
<1> HIDE DEF q
<1>3. /\ group \in [Results -> [Groups -> GroupStates]]
      /\ state \in [Results -> ScanStates] /\ enabled \subseteq Results
  BY DEF TableInv, ReqTypeOK, TypeOK
<1>4. ASSUME NEW r \in q.child, SaveScan(r, [q.scan[r] EXCEPT !.enabled = FALSE])
      PROVE  state' \in [Results -> ScanStates] /\ enabled' \subseteq Results
  <2> DEFINE row == [q.scan[r] EXCEPT !.enabled = FALSE]
  <2>1. r \in Results
    BY <1>1 DEF Submissions
  <2>2. enabled' \subseteq Results
    BY <1>3, <1>4, <2>1 DEF SaveScan
  <2>3. q.scan[r].state \in ScanStates
    BY <1>1 DEF Submissions, ScanRows
  <2> QED BY <1>3, <1>4, <2>1, <2>2, <2>3 DEF SaveScan
<1>5. state' \in [Results -> ScanStates] /\ enabled' \subseteq Results
  BY <1>2, <1>3, <1>4
<1> QED BY <1>2, <1>3, <1>5, Ended, GoesOn DEF SentTo

LEMMA DieTables ==
  ASSUME TableInv, NEW u \in Slots, Die(u)
  PROVE  TableInv' /\ Grow
<1>1. /\ req' = [req EXCEPT ![u] = Idle] /\ UNCHANGED <<waivingVars, bugVars, scanVars>>
      /\ disturbed' \in BOOLEAN /\ contended' \in BOOLEAN
  BY DEF Die, TableInv, ReqTypeOK
<1>2. UNCHANGED <<resultVars, waiverVars, bugVars, group, state, enabled, submitted, waivers>>
  BY <1>1 DEF waivingVars, resultVars, waiverVars, scanVars
<1>3. /\ group' \in [Results -> [Groups -> GroupStates]]
      /\ state' \in [Results -> ScanStates] /\ enabled' \subseteq Results
      /\ submitted' \in BOOLEAN
  BY <1>2 DEF TableInv, ReqTypeOK, TypeOK
<1>4. RoomInv'
  BY <1>1, <1>2, Ended, NoRoomTaken
<1> QED BY <1>1, <1>2, <1>3, <1>4, Ended, RowsStay DEF SentTo

LEMMA BesideTables ==
  ASSUME TableInv, Beside, UNCHANGED waiverVars, results' \in results .. MaxResults,
         attached' \subseteq 1 .. results',
         state' \in [Results -> ScanStates],
         found' \in [Results -> [Groups -> Defects \cup {None}]],
         group' \in [Results -> [Groups -> GroupStates]],
         enabled' \subseteq Results
  PROVE  TableInv' /\ Grow
<1>1. /\ UNCHANGED <<waivers, waiver, bug, text, filed, rows, req, contended>>
      /\ submitted' = FALSE /\ disturbed' \in BOOLEAN
  BY DEF Beside, bugVars, waiverVars, TableInv, ReqTypeOK
<1>2. Grow
  BY <1>1 DEF Grow, TableInv, ReqTypeOK, TypeOK
<1>3. RoomInv' /\ CopyInv' /\ BugListsWaiver'
  BY <1>1 DEF TableInv, RoomInv, CopyInv, CopyOK, BugListsWaiver, Inserting
<1>4. SentInv'
  BY <1>1 DEF TableInv, SentInv, SentTo
<1>5. RowInv'
  BY <1>1 DEF TableInv, RowInv, ReqTypeOK, TypeOK
<1>6. ReqTypeOK'
  <2>1. results' \in 0 .. MaxResults
    BY DEF TableInv, ReqTypeOK, TypeOK
  <2>2. TypeOK'
    BY <1>1, <2>1 DEF TableInv, ReqTypeOK, TypeOK
  <2> QED BY <1>1, <2>2 DEF TableInv, ReqTypeOK
<1> QED BY <1>2, <1>3, <1>4, <1>5, <1>6 DEF TableInv

LEMMA NewResultTables ==
  ASSUME TableInv, NEW defects \in Contents, NewResult(defects)
  PROVE  TableInv' /\ Grow
<1> DEFINE n   == results + 1
           att == attached \ {0}
           gs  == [g \in Groups |-> IF defects[g] = None THEN "ABSENT"
                                    ELSE IF g \in Groups THEN Processed(defects[g], g, att)
                                    ELSE "NEEDS_INSPECTION"]
<1>1. /\ Beside /\ enabled' = enabled \cup {n} /\ results < MaxResults /\ results' = n
      /\ attached' = att \cup {n} /\ found' = [found EXCEPT ![n] = defects]
      /\ group' = [group EXCEPT ![n] = gs]
      /\ UNCHANGED waiverVars
      /\ state' = [state EXCEPT ![n] = Verdict(group'[n])]
  BY DEF NewResult, FinishScan, CreateResult
<1>2. n \in Results /\ n \in results .. MaxResults /\ results \in Nat
  BY <1>1 DEF TableInv, ReqTypeOK, TypeOK, Results
<1>3. gs \in [Groups -> GroupStates]
  BY DEF Processed, GroupStates
<1>4. Verdict(group'[n]) \in ScanStates
  BY DEF Verdict, ScanStates
<1> HIDE DEF n, gs
<1>5. /\ state' \in [Results -> ScanStates]
      /\ found' \in [Results -> [Groups -> Defects \cup {None}]]
      /\ group' \in [Results -> [Groups -> GroupStates]]
      /\ enabled' \subseteq Results
  BY <1>1, <1>2, <1>3, <1>4 DEF TableInv, ReqTypeOK, TypeOK
<1>6. attached' \subseteq 1 .. results'
  BY <1>1, <1>2 DEF TableInv, ReqTypeOK, TypeOK, n
<1> QED BY <1>1, <1>2, <1>5, <1>6, BesideTables

LEMMA AbandonTables ==
  ASSUME TableInv, Abandon
  PROVE  TableInv' /\ Grow
<1>1. /\ Beside /\ enabled' = enabled \cup Latest(attached)
      /\ UNCHANGED <<results, attached, found, state, group, waivers, waiver>>
  BY DEF Abandon, waivingVars
<1>2. Latest(attached) \subseteq Results
  BY LatestIsResult
<1>3. enabled' \subseteq Results
  BY <1>1, <1>2 DEF TableInv, ReqTypeOK
<1>4. UNCHANGED waiverVars /\ results' \in results .. MaxResults
  BY <1>1 DEF waiverVars, TableInv, ReqTypeOK, TypeOK
<1> QED BY <1>1, <1>3, <1>4, BesideTables DEF TableInv, ReqTypeOK, TypeOK

(* A request that goes on is about what it was about.                      *)
Same(q, p) ==
  /\ q.op = p.op
  /\ q.op \in {"post", "remove"} => q.r = p.r /\ q.g = p.g /\ q.kind = p.kind
  /\ q.op = "post" => q.seen = p.seen
  /\ q.op = "report" => q.t = p.t

LEMMA ProceedKeeps ==
  ASSUME TableInv, NEW u \in Slots, Proceed(u)
  PROVE  Continue(u, Idle) \/ \E q : Continue(u, q) /\ Same(q, req[u])
<1> DEFINE q == req[u]
<1>1. CASE Deactivate(u) \/ Insert(u) \/ ReadScan(u) \/ Apply(u) \/ Finalize(u) \/ FinishPost(u)
  <2>1. q \in Posts
    BY <1>1, StepTells DEF Deactivate, Insert, ReadScan, Apply, Finalize, FinishPost, At,
                           PostSteps, TableInv
  <2>2. \A s, c, x : /\ Same([q EXCEPT !.step = s], q)
                     /\ Same([q EXCEPT !.step = s, !.copies = c], q)
                     /\ Same([q EXCEPT !.scan = x, !.step = s], q)
    BY <2>1 DEF Same, Posts
  <2> QED BY <1>1, <2>2 DEF Deactivate, Insert, ReadScan, Apply, Finalize, FinishPost, Goto, End
<1>2. CASE Delete(u) \/ IsWaived(u) \/ Reopen(u) \/ Dispute(u)
  <2>1. q \in Removals
    BY <1>2, StepTells DEF Delete, IsWaived, Reopen, Dispute, At, RemoveSteps, TableInv
  <2>2. \A s, c, x : /\ Same([q EXCEPT !.step = s], q)
                     /\ Same([q EXCEPT !.step = s, !.copies = c], q)
                     /\ Same([q EXCEPT !.step = s, !.scan = x], q)
    BY <2>1 DEF Same, Removals
  <2> QED BY <1>2, <2>2 DEF Delete, IsWaived, Reopen, Dispute, Goto, End
<1>3. CASE Format(u) \/ Send(u) \/ SaveBug(u) \/ Mark(u)
  <2>1. q \in Reports
    BY <1>3, StepTells DEF Format, Send, SaveBug, Mark, At, ReportSteps, TableInv
  <2>2. \A s, c, n : /\ Same([q EXCEPT !.step = s], q)
                     /\ Same([q EXCEPT !.step = s, !.copies = c], q)
                     /\ Same([q EXCEPT !.n = n, !.step = s], q)
                     /\ Same([q EXCEPT !.copies = c], q)
    BY <2>1 DEF Same, Reports
  <2> QED BY <1>3, <2>2 DEF Format, Send, SaveBug, Mark, Goto, End
<1>4. CASE LinkChild(u)
  BY <1>4 DEF LinkChild, End
<1> QED BY <1>1, <1>2, <1>3, <1>4 DEF Proceed

LEMMA ProceedIsBusy ==
  ASSUME TableInv, NEW u \in Slots, Proceed(u)
  PROVE  req[u].op # "none"
<1>1. Idle.step = "none" /\ "none" \notin PostSteps \cup RemoveSteps \cup ReportSteps
  BY DEF Idle, PostSteps, RemoveSteps, ReportSteps
<1>2. req[u] # Idle
  BY <1>1 DEF Proceed, Deactivate, Insert, ReadScan, Apply, Finalize, FinishPost, Delete,
              IsWaived, Reopen, Dispute, Format, Send, SaveBug, Mark, LinkChild, At, PostSteps,
              RemoveSteps, ReportSteps
<1> QED BY <1>2, StepTells DEF TableInv

LEMMA ProceedTables ==
  ASSUME TableInv, PostInv, NEW u \in Slots, Proceed(u)
  PROVE  TableInv' /\ Grow
<1>1. CASE ReadScan(u) \/ Apply(u) \/ Finalize(u) \/ FinishPost(u)
  BY <1>1, PostTables
<1>2. CASE IsWaived(u) \/ Reopen(u) \/ Dispute(u)
  BY <1>2, RemoveTables
<1>3. CASE Format(u) \/ Send(u) \/ SaveBug(u)
  BY <1>3, ReportTables
<1> QED BY <1>1, <1>2, <1>3, DeactivateTables, InsertTables, DeleteTables, MarkTables,
           LinkTables DEF Proceed

LEMMA StutterTables ==
  ASSUME TableInv, UNCHANGED reqVars
  PROVE  TableInv' /\ Grow
<1>1. UNCHANGED <<results, attached, state, found, group, waivers, waiver, bug, text, filed, rows,
                  enabled, submitted, req, disturbed, contended>>
  BY DEF reqVars, waivingVars, bugVars, scanVars, history
<1>2. Grow
  BY <1>1 DEF Grow, TableInv, ReqTypeOK, TypeOK
<1>3. RoomInv' /\ RowInv' /\ CopyInv' /\ SentInv' /\ BugListsWaiver'
  BY <1>1 DEF TableInv, RoomInv, RowInv, CopyInv, CopyOK, SentInv, SentTo, BugListsWaiver, Inserting
<1>4. ReqTypeOK'
  BY <1>1 DEF TableInv, ReqTypeOK, TypeOK
<1> QED BY <1>2, <1>3, <1>4 DEF TableInv

(* Results are only added, and nothing is found in an old one.             *)
OldResults ==
  /\ results' \in results .. MaxResults
  /\ \A r \in 1 .. results : found'[r] = found[r]

LEMMA ResultsStay ==
  ASSUME TableInv, [ReqNext]_reqVars
  PROVE  OldResults
<1>1. results \in 0 .. MaxResults /\ found \in [Results -> [Groups -> Defects \cup {None}]]
  BY DEF TableInv, ReqTypeOK, TypeOK
<1>2. ASSUME UNCHANGED <<results, found>> PROVE OldResults
  BY <1>1, <1>2 DEF OldResults
<1>3. ASSUME NEW u \in Slots, Arrive(u) PROVE OldResults
  BY <1>2, <1>3 DEF Arrive, StartSubmit, StartComment, StartWaiver, StartRemove, StartReport, Post,
                    waivingVars
<1>4. ASSUME NEW u \in Slots, Proceed(u) PROVE OldResults
  BY <1>2, <1>4 DEF Proceed, Deactivate, Insert, ReadScan, Apply, Finalize, FinishPost, Delete,
                    IsWaived, Reopen, Dispute, Format, Send, SaveBug, Mark, LinkChild,
                    waivingVars, resultVars
<1>5. ASSUME NEW u \in Slots, Die(u) PROVE OldResults
  BY <1>2, <1>5 DEF Die, waivingVars
<1>6. ASSUME NEW defects \in Contents, NewResult(defects) PROVE OldResults
  <2>1. results < MaxResults /\ results' = results + 1
        /\ found' = [found EXCEPT ![results + 1] = defects]
    BY <1>6 DEF NewResult, FinishScan, CreateResult
  <2> QED BY <1>1, <2>1 DEF OldResults
<1>7. ASSUME Abandon PROVE OldResults
  BY <1>2, <1>7 DEF Abandon, waivingVars
<1>8. ASSUME UNCHANGED reqVars PROVE OldResults
  BY <1>2, <1>8 DEF reqVars, waivingVars
<1> QED BY <1>3, <1>4, <1>5, <1>6, <1>7, <1>8 DEF ReqNext

LEMMA ArrivesAs ==
  ASSUME NEW u \in Slots, Arrive(u)
  PROVE  /\ UNCHANGED <<waivingVars, bugVars, enabled>>
         /\ \E q :
              /\ Begin(u, q)
              /\ \/ /\ q.op = "post" /\ q.step \in {"deactivate", "insert"}
                    /\ q.r \in attached /\ q.g \in Groups /\ q.seen = group[q.r][q.g]
                    /\ UNCHANGED submitted
                 \/ q.op = "remove" /\ q.step = "delete" /\ UNCHANGED submitted
                 \/ q.op = "report" /\ q.step = "format" /\ UNCHANGED submitted
                 \/ /\ q.op = "submit" /\ q.step = "link" /\ q.child = Latest(attached)
                    /\ ~submitted /\ submitted' = TRUE
<1>1. ASSUME NEW r, NEW g \in Groups, NEW kind, NEW step \in {"deactivate", "insert"}, NEW copies,
             Post(u, r, g, kind, step, copies)
      PROVE  /\ UNCHANGED <<waivingVars, bugVars, enabled>>
             /\ \E q :
                  /\ Begin(u, q) /\ q.op = "post" /\ q.step \in {"deactivate", "insert"}
                  /\ q.r \in attached /\ q.g \in Groups /\ q.seen = group[q.r][q.g]
                  /\ UNCHANGED submitted
  <2> DEFINE q == [op |-> "post", step |-> step, r |-> r, g |-> g, kind |-> kind,
                   seen |-> group[r][g], copies |-> copies, scan |-> Unread]
  <2>1. /\ q.op = "post" /\ q.step = step /\ q.r = r /\ q.g = g /\ q.seen = group[r][g]
    OBVIOUS
  <2>2. /\ Begin(u, q) /\ r \in attached
        /\ UNCHANGED <<waivingVars, bugVars, enabled, submitted>>
    BY <1>1 DEF Post, scanVars
  <2> HIDE DEF q
  <2> QED BY <1>1, <2>1, <2>2
<1>2. CASE \E r \in Results, g \in Groups :
             StartComment(u, r, g) \/ \E kind \in Kinds : StartWaiver(u, r, g, kind)
  BY <1>1, <1>2 DEF StartComment, StartWaiver
<1>3. ASSUME NEW w \in Waivers, StartRemove(u, w)
      PROVE  /\ UNCHANGED <<waivingVars, bugVars, scanVars>>
             /\ \E q : Begin(u, q) /\ q.op = "remove" /\ q.step = "delete"
  BY <1>3 DEF StartRemove
<1>4. ASSUME NEW t \in Trackers, NEW n, StartReport(u, t, n)
      PROVE  /\ UNCHANGED <<waivingVars, bugVars, scanVars>>
             /\ \E q : Begin(u, q) /\ q.op = "report" /\ q.step = "format"
  BY <1>4 DEF StartReport
<1>5. CASE StartSubmit(u)
  <2> DEFINE q == [op |-> "submit", step |-> "link", child |-> Latest(attached),
                   scan |-> [r \in Latest(attached) |-> ScanRow(r)]]
  <2>1. q.op = "submit" /\ q.step = "link" /\ q.child = Latest(attached)
    OBVIOUS
  <2>2. Begin(u, q) /\ ~submitted /\ submitted' = TRUE
        /\ UNCHANGED <<waivingVars, bugVars, enabled>>
    BY <1>5 DEF StartSubmit
  <2> HIDE DEF q
  <2> QED BY <2>1, <2>2
<1> QED BY <1>2, <1>3, <1>4, <1>5 DEF Arrive, scanVars

LEMMA PostsStay ==
  ASSUME TableInv, PostInv, [ReqNext]_reqVars
  PROVE  PostInv'
<1>1. 1 .. results \subseteq 1 .. results' /\ attached \subseteq 1 .. results
  BY ResultsStay DEF OldResults, TableInv, ReqTypeOK, TypeOK
<1>2. req \in [Slots -> Requests]
  BY DEF TableInv, ReqTypeOK
<1>3. ASSUME NEW u \in Slots, NEW q, req' = [req EXCEPT ![u] = q],
             q.op = "post" => q.r \in 1 .. results
      PROVE  PostInv'
  BY <1>1, <1>2, <1>3 DEF PostInv
<1>4. Idle.op # "post"
  BY DEF Idle
<1>5. ASSUME NEW u \in Slots, Arrive(u) PROVE PostInv'
  <2>1. PICK q : Begin(u, q) /\ (q.op = "post" => q.r \in attached)
    BY <1>5, ArrivesAs
  <2> QED BY <1>1, <1>3, <2>1 DEF Begin
<1>6. ASSUME NEW u \in Slots, Proceed(u) PROVE PostInv'
  <2>1. PICK q : req' = [req EXCEPT ![u] = q] /\ (q = Idle \/ Same(q, req[u]))
    BY <1>6, ProceedKeeps DEF Continue
  <2>2. q.op = "post" => q.r \in 1 .. results
    BY <1>4, <2>1 DEF Same, PostInv
  <2> QED BY <1>3, <2>1, <2>2
<1>7. ASSUME NEW u \in Slots, Die(u) PROVE PostInv'
  BY <1>3, <1>4, <1>7 DEF Die
<1>8. ASSUME UNCHANGED req PROVE PostInv'
  BY <1>1, <1>8 DEF PostInv
<1>9. ASSUME Beside PROVE PostInv'
  BY <1>8, <1>9 DEF Beside
<1>10. ASSUME UNCHANGED reqVars PROVE PostInv'
  BY <1>8, <1>10 DEF reqVars
<1> QED BY <1>5, <1>6, <1>7, <1>9, <1>10 DEF ReqNext, NewResult, Abandon

LEMMA NextTables ==
  ASSUME TableInv, PostInv, [ReqNext]_reqVars
  PROVE  TableInv' /\ PostInv' /\ Grow
<1>1. ASSUME NEW u \in Slots, Arrive(u) \/ Proceed(u) \/ Die(u) PROVE TableInv' /\ Grow
  BY <1>1, ArriveTables, ProceedTables, DieTables
<1>2. ASSUME NEW defects \in Contents, NewResult(defects) PROVE TableInv' /\ Grow
  BY <1>2, NewResultTables
<1> QED BY <1>1, <1>2, AbandonTables, StutterTables, PostsStay DEF ReqNext

LEMMA InitTables == ASSUME ReqInit PROVE TableInv /\ PostInv
<1>1. TypeOK
  BY DEF ReqInit, Init, TypeOK, NoWaiver, ScanStates, GroupStates, Results, Waivers
<1>2. /\ req = [u \in Slots |-> Idle] /\ waivers = 0
      /\ waiver = [w \in Waivers |-> NoWaiver]
      /\ bug = [t \in Trackers |-> [w \in Waivers |-> 0]]
      /\ text = [t \in Trackers |-> [n \in Bugs |-> {}]]
      /\ filed = [t \in Trackers |-> 0] /\ rows = [t \in Trackers |-> {}]
  BY DEF ReqInit, Init
<1>3. ReqTypeOK
  <2>1. /\ bug \in [Trackers -> [Waivers -> 0 .. MaxBugs]]
        /\ filed \in [Trackers -> 0 .. MaxBugs]
    BY <1>2
  <2>2. /\ text \in [Trackers -> [Bugs -> SUBSET Waivers]]
        /\ rows \in [Trackers -> SUBSET Bugs]
    BY <1>2
  <2>3. req \in [Slots -> Requests]
    BY <1>2, Ended
  <2> QED BY <1>1, <2>1, <2>2, <2>3 DEF ReqInit, ReqTypeOK
<1>4. RowInv
  BY <1>2 DEF RowInv
<1>5. RoomInv
  <2>1. Inserting = {}
    BY <1>2 DEF Inserting, Idle
  <2> QED BY <1>2, <2>1, FS_EmptySet DEF RoomInv
<1>6. CopyInv /\ SentInv /\ PostInv
  BY <1>2, Ended DEF CopyInv, SentInv, SentTo, PostInv, Idle
<1>7. BugListsWaiver
  BY <1>2 DEF BugListsWaiver
<1> QED BY <1>3, <1>4, <1>5, <1>6, <1>7 DEF TableInv

(* Every table and every copy a request holds keeps its type, a post always *)
(* has a row left to insert, and no copy disagrees with its row on what    *)
(* never changes.                                                          *)
THEOREM TablesAreSound == ReqSpec => [](TableInv /\ PostInv)
<1>1. TableInv /\ PostInv /\ [ReqNext]_reqVars => (TableInv /\ PostInv)'
  BY NextTables
<1> QED BY <1>1, InitTables, PTL DEF ReqSpec

(* However requests overlap or die, the bug that a waiver links to lists   *)
(* it: old copies that are saved never bring back a link to another bug.   *)
THEOREM BugsListTheirWaivers == ReqSpec => []BugListsWaiver
<1>1. TableInv => BugListsWaiver
  BY DEF TableInv
<1> QED BY <1>1, TablesAreSound, PTL

-----------------------------------------------------------------------------
(* Nothing is waived that nobody looked at, however requests overlap: what *)
(* a post is about to write was true when it read it, and stays true.      *)

(* A waiver for the state st of the group g of r, on the same defects.     *)
Reviewed(r, g, st) ==
  \E w \in 1 .. waivers :
    /\ waiver[w].group = g
    /\ waiver[w].result \in 1 .. r
    /\ waiver[w].kind \in Kinds
    /\ found[waiver[w].result][g] = found[r][g]
    /\ st = "CONTAINS_BUG" <=> waiver[w].kind = "IS_A_BUG"

(* The same after the step.                                                *)
ReviewedAfter(r, g, st) ==
  \E w \in 1 .. waivers' :
    /\ waiver'[w].group = g
    /\ waiver'[w].result \in 1 .. r
    /\ waiver'[w].kind \in Kinds
    /\ found'[waiver'[w].result][g] = found'[r][g]
    /\ st = "CONTAINS_BUG" <=> waiver'[w].kind = "IS_A_BUG"

Posted(q) ==
  \E w \in 1 .. waivers :
    /\ waiver[w].result = q.r
    /\ waiver[w].group = q.g
    /\ waiver[w].kind = q.kind

PostedAfter(q) ==
  \E w \in 1 .. waivers' :
    /\ waiver'[w].result = q.r
    /\ waiver'[w].group = q.g
    /\ waiver'[w].kind = q.kind

GroupsReviewed ==
  \A r \in Results, g \in Groups :
    group[r][g] \notin {"ABSENT", "NEEDS_INSPECTION"} =>
      r \in 1 .. results /\ Reviewed(r, g, group[r][g])

PostsReviewed ==
  \A u \in Slots : req[u].op = "post" =>
    /\ req[u].seen = "PREVIOUSLY_WAIVED" => Reviewed(req[u].r, req[u].g, "PREVIOUSLY_WAIVED")
    /\ req[u].step \in {"read_scan", "apply"} => Posted(req[u])
    /\ req[u].step = "apply" => req[u].kind \in Kinds

ReviewInv == GroupsReviewed /\ PostsReviewed

LEMMA ReviewsStay ==
  ASSUME TableInv, Grow, OldResults
  PROVE  /\ \A r \in 1 .. results, g \in Groups :
              \A st : Reviewed(r, g, st) => ReviewedAfter(r, g, st)
         /\ \A q : Posted(q) => PostedAfter(q)
<1>1. \A w \in 1 .. waivers :
        /\ w \in 1 .. waivers' /\ waiver[w].result \in 1 .. results
        /\ waiver'[w].result = waiver[w].result
        /\ waiver'[w].group = waiver[w].group
        /\ waiver'[w].kind = waiver[w].kind
  BY DEF Grow, TableInv, RowInv, ReqTypeOK, TypeOK
<1>2. \A r \in 1 .. results : found'[r] = found[r]
  BY DEF OldResults
<1>3. ASSUME NEW r \in 1 .. results, NEW g \in Groups, NEW st, Reviewed(r, g, st)
      PROVE  ReviewedAfter(r, g, st)
  BY <1>1, <1>2, <1>3 DEF Reviewed, ReviewedAfter
<1>4. ASSUME NEW q, Posted(q) PROVE PostedAfter(q)
  BY <1>1, <1>4 DEF Posted, PostedAfter
<1> QED BY <1>3, <1>4

(* A state that a new result inherits is that of a reviewed group.         *)
LEMMA ProcessedIsReviewed ==
  ASSUME TableInv, NEW g \in Groups, NEW d, NEW att \in SUBSET attached,
         Processed(d, g, att) # "NEEDS_INSPECTION"
  PROVE  \E w \in 1 .. waivers :
           /\ waiver[w].group = g
           /\ waiver[w].kind \in Kinds
           /\ found[waiver[w].result][g] = d
           /\ Processed(d, g, att) = "CONTAINS_BUG" <=> waiver[w].kind = "IS_A_BUG"
<1> DEFINE past == {w \in LastWaiver(g, att) : Matches(d, waiver[w].result, g)}
<1>1. past # {}
  BY DEF Processed
<1>2. \A w \in past : /\ w \in Waivers /\ waiver[w].is_active /\ waiver[w].group = g
                      /\ found[waiver[w].result][g] = d
  BY DEF LastWaiver, Latest, Live, Matches
<1>3. \A w \in past : w \in 1 .. waivers
  BY <1>2 DEF TableInv, RowInv, NoWaiver, ReqTypeOK, TypeOK, Waivers
<1>4. \A w \in past : waiver[w].kind \in Kinds
  BY <1>2, <1>3 DEF TableInv, RowInv
<1>5. CASE \E w \in past : waiver[w].kind = "IS_A_BUG"
  <2>1. PICK w \in past : waiver[w].kind = "IS_A_BUG"
    BY <1>5
  <2>2. Processed(d, g, att) = "CONTAINS_BUG"
    BY <1>5 DEF Processed
  <2> QED BY <1>2, <1>3, <1>4, <2>1, <2>2
<1>6. CASE ~\E w \in past : waiver[w].kind = "IS_A_BUG"
  <2>1. Processed(d, g, att) # "CONTAINS_BUG"
    BY <1>6 DEF Processed
  <2>2. PICK w \in past : TRUE
    BY <1>1
  <2> QED BY <1>2, <1>3, <1>4, <1>6, <2>1, <2>2
<1> QED BY <1>5, <1>6

(* Groups that a step leaves alone stay reviewed.                          *)
LEMMA GroupsStayReviewed ==
  ASSUME TableInv, ReviewInv, Grow, OldResults,
         NEW r0 \in Results, NEW g0 \in Groups,
         \A r \in Results, g \in Groups :
           r # r0 \/ g # g0 => group'[r][g] = group[r][g],
         group'[r0][g0] \notin {"ABSENT", "NEEDS_INSPECTION"} =>
           r0 \in 1 .. results /\ ReviewedAfter(r0, g0, group'[r0][g0])
  PROVE  GroupsReviewed'
<1> SUFFICES ASSUME NEW r \in Results, NEW g \in Groups, NEW st, st = group'[r][g],
                    st \notin {"ABSENT", "NEEDS_INSPECTION"}
             PROVE  r \in 1 .. results' /\ ReviewedAfter(r, g, st)
  BY DEF GroupsReviewed, Reviewed, ReviewedAfter
<1>1. 1 .. results \subseteq 1 .. results'
  BY DEF OldResults, TableInv, ReqTypeOK, TypeOK
<1>2. CASE r = r0 /\ g = g0
  BY <1>1, <1>2
<1>3. CASE r # r0 \/ g # g0
  <2>1. r \in 1 .. results /\ Reviewed(r, g, st)
    BY <1>3 DEF ReviewInv, GroupsReviewed
  <2> QED BY <1>1, <2>1, ReviewsStay
<1> QED BY <1>2, <1>3

LEMMA NoGroupTouched ==
  ASSUME TableInv, ReviewInv, Grow, OldResults, UNCHANGED group
  PROVE  GroupsReviewed'
<1> SUFFICES ASSUME NEW r \in Results, NEW g \in Groups, NEW st, st = group'[r][g],
                    st \notin {"ABSENT", "NEEDS_INSPECTION"}
             PROVE  r \in 1 .. results' /\ ReviewedAfter(r, g, st)
  BY DEF GroupsReviewed, Reviewed, ReviewedAfter
<1>1. 1 .. results \subseteq 1 .. results'
  BY DEF OldResults, TableInv, ReqTypeOK, TypeOK
<1>2. r \in 1 .. results /\ Reviewed(r, g, st)
  BY DEF ReviewInv, GroupsReviewed
<1> QED BY <1>1, <1>2, ReviewsStay

LEMMA GroupsKeepReviewed ==
  ASSUME TableInv, PostInv, ReviewInv, [ReqNext]_reqVars
  PROVE  GroupsReviewed'
<1>1. Grow /\ OldResults
  BY NextTables, ResultsStay
<1>2. group \in [Results -> [Groups -> GroupStates]]
  BY DEF TableInv, ReqTypeOK, TypeOK
<1>3. ASSUME UNCHANGED group PROVE GroupsReviewed'
  BY <1>1, <1>3, NoGroupTouched
<1>4. ASSUME NEW r0 \in Results, NEW g0 \in Groups, NEW st \in GroupStates,
             group' = [group EXCEPT ![r0][g0] = st],
             st # "NEEDS_INSPECTION" => r0 \in 1 .. results /\ ReviewedAfter(r0, g0, st)
      PROVE  GroupsReviewed'
  <2>1. /\ group'[r0][g0] = st
        /\ \A r \in Results, g \in Groups : r # r0 \/ g # g0 => group'[r][g] = group[r][g]
    BY <1>2, <1>4
  <2> QED BY <1>1, <1>4, <2>1, GroupsStayReviewed
<1>5. ASSUME NEW u \in Slots, ReadScan(u) PROVE GroupsReviewed'
  <2> DEFINE q == req[u]
  <2>1. q \in Posts
    BY <1>5, StepTells DEF ReadScan, At, PostSteps, TableInv
  <2>2. q.r \in 1 .. results /\ q.r \in Results /\ q.g \in Groups /\ q.op = "post"
    BY <2>1 DEF Posts, PostInv
  <2>3. \/ UNCHANGED group
        \/ q.seen = "PREVIOUSLY_WAIVED" /\ group' = [group EXCEPT ![q.r][q.g] = q.seen]
    BY <1>5 DEF ReadScan
  <2>4. CASE UNCHANGED group
    BY <1>3, <2>4
  <2>5. CASE q.seen = "PREVIOUSLY_WAIVED" /\ group' = [group EXCEPT ![q.r][q.g] = q.seen]
    <3>1. Reviewed(q.r, q.g, "PREVIOUSLY_WAIVED")
      BY <2>2, <2>5 DEF ReviewInv, PostsReviewed
    <3>2. ReviewedAfter(q.r, q.g, "PREVIOUSLY_WAIVED")
      BY <1>1, <2>2, <3>1, ReviewsStay
    <3>3. "PREVIOUSLY_WAIVED" \in GroupStates
      BY DEF GroupStates
    <3> HIDE DEF q
    <3> QED BY <1>4, <2>2, <2>5, <3>2, <3>3
  <2> QED BY <2>3, <2>4, <2>5
<1>6. ASSUME NEW u \in Slots, Apply(u) PROVE GroupsReviewed'
  <2> DEFINE q  == req[u]
             st == IF q.kind = "IS_A_BUG" THEN "CONTAINS_BUG" ELSE "WAIVED"
  <2>1. q \in Posts
    BY <1>6, StepTells DEF Apply, At, PostSteps, TableInv
  <2>2. q.r \in 1 .. results /\ q.r \in Results /\ q.g \in Groups /\ q.op = "post"
    BY <2>1 DEF Posts, PostInv
  <2>3. Posted(q) /\ q.kind \in Kinds
    BY <1>6, <2>2 DEF ReviewInv, PostsReviewed, Apply, At
  <2>4. UNCHANGED group \/ group' = [group EXCEPT ![q.r][q.g] = st]
    BY <1>6 DEF Apply
  <2> HIDE DEF q
  <2>5. PostedAfter(q)
    BY <1>1, <2>3, ReviewsStay
  <2>6. ReviewedAfter(q.r, q.g, st)
    BY <2>2, <2>3, <2>5 DEF PostedAfter, ReviewedAfter
  <2>7. st \in GroupStates
    BY DEF GroupStates
  <2> HIDE DEF st
  <2> QED BY <1>3, <1>4, <2>2, <2>4, <2>6, <2>7
<1>7. ASSUME NEW u \in Slots, Reopen(u) PROVE GroupsReviewed'
  <2> DEFINE q == req[u]
  <2>1. q \in Removals
    BY <1>7, StepTells DEF Reopen, At, RemoveSteps, TableInv
  <2>2. q.r \in Results /\ q.g \in Groups /\ "NEEDS_INSPECTION" \in GroupStates
    BY <2>1 DEF Removals, GroupStates
  <2>3. UNCHANGED group \/ group' = [group EXCEPT ![q.r][q.g] = "NEEDS_INSPECTION"]
    BY <1>7 DEF Reopen
  <2> HIDE DEF q
  <2> QED BY <1>3, <1>4, <2>2, <2>3
<1>8. ASSUME NEW u \in Slots, Proceed(u) PROVE GroupsReviewed'
  <2>1. CASE ReadScan(u) \/ Apply(u) \/ Reopen(u)
    BY <1>5, <1>6, <1>7, <2>1
  <2>2. CASE ~(ReadScan(u) \/ Apply(u) \/ Reopen(u))
    <3>1. UNCHANGED group
      BY <1>8, <2>2 DEF Proceed, Deactivate, Insert, Finalize, FinishPost, Delete, IsWaived,
                        Dispute, Format, Send, SaveBug, Mark, LinkChild, waivingVars
    <3> QED BY <1>3, <3>1
  <2> QED BY <2>1, <2>2
<1>9. ASSUME NEW u \in Slots, Arrive(u) \/ Die(u) PROVE GroupsReviewed'
  <2>1. UNCHANGED group
    BY <1>9 DEF Arrive, StartSubmit, StartComment, StartWaiver, StartRemove, StartReport, Post,
                Die, waivingVars
  <2> QED BY <1>3, <2>1
<1>10. ASSUME NEW defects \in Contents, NewResult(defects) PROVE GroupsReviewed'
  <2> DEFINE n   == results + 1
             att == attached \ {0}
             gs  == [g \in Groups |-> IF defects[g] = None THEN "ABSENT"
                                      ELSE IF g \in Groups THEN Processed(defects[g], g, att)
                                      ELSE "NEEDS_INSPECTION"]
  <2>1. /\ results < MaxResults /\ results' = n
        /\ found' = [found EXCEPT ![n] = defects]
        /\ group' = [group EXCEPT ![n] = gs]
        /\ UNCHANGED <<waivers, waiver>>
    BY <1>10 DEF NewResult, FinishScan, CreateResult, waiverVars
  <2>2. /\ results \in Nat /\ n \in Results /\ results \in 0 .. MaxResults
        /\ found \in [Results -> [Groups -> Defects \cup {None}]]
        /\ defects \in [Groups -> Defects \cup {None}]
    BY <2>1 DEF TableInv, ReqTypeOK, TypeOK, Results
  <2>3. att \in SUBSET attached
    OBVIOUS
  <2> SUFFICES ASSUME NEW r \in Results, NEW g \in Groups, NEW st, st = group'[r][g],
                      st \notin {"ABSENT", "NEEDS_INSPECTION"}
               PROVE  r \in 1 .. results' /\ ReviewedAfter(r, g, st)
    BY DEF GroupsReviewed, Reviewed, ReviewedAfter
  <2>4. CASE r # n
    <3>1. st = group[r][g]
      BY <1>2, <2>1, <2>4
    <3>2. r \in 1 .. results /\ Reviewed(r, g, st)
      BY <3>1 DEF ReviewInv, GroupsReviewed
    <3> QED BY <1>1, <2>1, <2>2, <3>2, ReviewsStay
  <2>5. CASE r = n
    <3>1. st = gs[g]
      BY <1>2, <2>1, <2>2, <2>5
    <3>2. st = Processed(defects[g], g, att)
      BY <3>1
    <3>3. PICK w \in 1 .. waivers :
            /\ waiver[w].group = g
            /\ waiver[w].kind \in Kinds
            /\ found[waiver[w].result][g] = defects[g]
            /\ st = "CONTAINS_BUG" <=> waiver[w].kind = "IS_A_BUG"
      BY <2>3, <3>2, ProcessedIsReviewed
    <3>4. waiver[w].result \in 1 .. results
      BY DEF TableInv, RowInv
    <3>5. found'[waiver[w].result] = found[waiver[w].result] /\ found'[n] = defects
      BY <2>1, <2>2, <3>4 DEF Results
    <3>6. waiver[w].result \in 1 .. n /\ n \in 1 .. n
      BY <2>2, <3>4
    <3> QED BY <2>1, <2>5, <3>3, <3>5, <3>6 DEF ReviewedAfter
  <2> QED BY <2>4, <2>5
<1>11. ASSUME Abandon \/ UNCHANGED reqVars PROVE GroupsReviewed'
  BY <1>3, <1>11 DEF Abandon, reqVars, waivingVars
<1> QED BY <1>8, <1>9, <1>10, <1>11 DEF ReqNext

LEMMA PostGoesOn ==
  ASSUME TableInv, ReviewInv, Grow, OldResults, NEW u \in Slots, Proceed(u),
         req[u].op = "post", NEW p, req' = [req EXCEPT ![u] = p], p # Idle
  PROVE  /\ p.step \in {"read_scan", "apply"} => PostedAfter(p)
         /\ p.step = "apply" => p.kind \in Kinds
<1> DEFINE q == req[u]
<1>1. q \in Posts /\ q.step \in PostSteps
  BY StepTells DEF TableInv
<1>2. q.kind \in Kinds \cup {"COMMENT"}
  BY <1>1 DEF Posts
<1>3. \A x : req' = [req EXCEPT ![u] = x] => x = p
  BY DEF TableInv, ReqTypeOK
<1>4. CASE Insert(u)
  <2>1. /\ waivers' = waivers + 1
        /\ waiver' = Add(waiver, q.r, q.g, q.kind, q.kind # "COMMENT")
        /\ p = [q EXCEPT !.step = "read_scan", !.copies = Copies({})]
    BY <1>3, <1>4 DEF Insert, Continue
  <2>2. waivers \in Nat /\ waivers + 1 \in Waivers
    BY <1>4, StepTells, RoomToInsert DEF Insert, At, Inserting, TableInv, ReqTypeOK, TypeOK, Waivers
  <2>3. /\ waiver'[waivers + 1].result = q.r
        /\ waiver'[waivers + 1].group = q.g
        /\ waiver'[waivers + 1].kind = q.kind
    BY <2>1, <2>2 DEF Add, TableInv, ReqTypeOK, TypeOK
  <2>4. p.r = q.r /\ p.g = q.g /\ p.kind = q.kind /\ p.step = "read_scan"
    BY <1>1, <2>1 DEF Posts
  <2>5. waivers + 1 \in 1 .. waivers'
    BY <2>1, <2>2
  <2> QED BY <2>3, <2>4, <2>5 DEF PostedAfter
<1>5. CASE ReadScan(u)
  <2>1. p = [q EXCEPT !.scan = ScanRow(q.r),
                      !.step = IF q.kind = "COMMENT" THEN "save_scan" ELSE "apply"]
    BY <1>3, <1>5 DEF ReadScan, Continue
  <2>2. /\ p.r = q.r /\ p.g = q.g /\ p.kind = q.kind
        /\ p.step = IF q.kind = "COMMENT" THEN "save_scan" ELSE "apply"
    BY <1>1, <2>1 DEF Posts
  <2>3. Posted(q)
    BY <1>5 DEF ReviewInv, PostsReviewed, ReadScan, At
  <2>4. PostedAfter(q)
    BY <2>3, ReviewsStay
  <2> QED BY <1>2, <2>2, <2>4 DEF PostedAfter
<1>6. CASE Deactivate(u) \/ Apply(u) \/ Finalize(u) \/ FinishPost(u)
  <2>1. \/ p = Idle
        \/ \E s \in {"insert", "save_scan", "finalize"} :
             p = [q EXCEPT !.step = s] \/ \E x : p = [q EXCEPT !.scan = x, !.step = s]
    BY <1>3, <1>6 DEF Deactivate, Apply, Finalize, FinishPost, Goto, End, Continue
  <2>2. p.step \in {"insert", "save_scan", "finalize"}
    BY <1>1, <2>1 DEF Posts
  <2> QED BY <2>2
<1>7. ~At(u, "link") /\ q.step \notin RemoveSteps /\ q.step \notin ReportSteps
  BY <1>1 DEF At, PostSteps, RemoveSteps, ReportSteps
<1>8. \/ Deactivate(u) \/ Insert(u) \/ ReadScan(u) \/ Apply(u) \/ Finalize(u) \/ FinishPost(u)
  BY <1>7 DEF Proceed, Delete, IsWaived, Reopen, Dispute, Format, Send, SaveBug, Mark, LinkChild,
              At, RemoveSteps, ReportSteps
<1> QED BY <1>4, <1>5, <1>6, <1>8

LEMMA PostsKeepReviewed ==
  ASSUME TableInv, PostInv, ReviewInv, [ReqNext]_reqVars
  PROVE  PostsReviewed'
<1>1. Grow /\ OldResults
  BY NextTables, ResultsStay
<1>2. req \in [Slots -> Requests]
  BY DEF TableInv, ReqTypeOK
<1> DEFINE Good(q) ==
             q.op = "post" =>
               /\ q.seen = "PREVIOUSLY_WAIVED" => ReviewedAfter(q.r, q.g, "PREVIOUSLY_WAIVED")
               /\ q.step \in {"read_scan", "apply"} => PostedAfter(q)
               /\ q.step = "apply" => q.kind \in Kinds
<1>3. ASSUME NEW v \in Slots PROVE Good(req[v])
  <2>1. req[v].op = "post" => req[v].r \in 1 .. results /\ req[v].g \in Groups
    BY StepTells DEF PostInv, TableInv, Posts
  <2> QED BY <1>1, <2>1, ReviewsStay DEF ReviewInv, PostsReviewed
<1>4. ASSUME NEW u \in Slots, NEW q, req' = [req EXCEPT ![u] = q], Good(q)
      PROVE  PostsReviewed'
  <2> SUFFICES ASSUME NEW v \in Slots, NEW p, p = req'[v] PROVE Good(p)
    BY DEF PostsReviewed, Reviewed, ReviewedAfter, Posted, PostedAfter
  <2> HIDE DEF Good
  <2> QED BY <1>2, <1>3, <1>4
<1>5. Good(Idle)
  BY DEF Idle
<1>6. ASSUME NEW u \in Slots, Arrive(u) PROVE PostsReviewed'
  <2>1. PICK q : /\ Begin(u, q)
                 /\ q.op = "post" => q.r \in attached /\ q.step \in {"deactivate", "insert"}
                                     /\ q.seen = group[q.r][q.g] /\ q.g \in Groups
    BY <1>6, ArrivesAs
  <2>2. q.op = "post" /\ q.seen = "PREVIOUSLY_WAIVED" =>
          q.r \in 1 .. results /\ Reviewed(q.r, q.g, "PREVIOUSLY_WAIVED")
    <3>1. q.op = "post" => q.r \in 1 .. results /\ q.r \in Results /\ q.g \in Groups
      <4>1. \A r \in attached : r \in 1 .. results /\ r \in Results
        BY DEF TableInv, ReqTypeOK, TypeOK, Results
      <4>2. q.op = "post" => q.r \in attached /\ q.g \in Groups
        BY <2>1
      <4> QED BY <4>1, <4>2
    <3> HIDE DEF Good
    <3> QED BY <2>1, <3>1 DEF ReviewInv, GroupsReviewed
  <2>3. Good(q)
    BY <1>1, <2>1, <2>2, ReviewsStay
  <2> QED BY <1>4, <2>1, <2>3 DEF Begin
<1>7. ASSUME NEW u \in Slots, Proceed(u) PROVE PostsReviewed'
  <2> DEFINE q == req[u]
  <2>1. PICK p : req' = [req EXCEPT ![u] = p] /\ (p = Idle \/ Same(p, q))
    BY <1>7, ProceedKeeps DEF Continue
  <2>2. CASE p = Idle \/ p.op # "post"
    BY <1>4, <1>5, <2>1, <2>2
  <2>3. CASE p # Idle /\ p.op = "post"
    <3>1. /\ q.op = "post" /\ p.r = q.r /\ p.g = q.g /\ p.kind = q.kind /\ p.seen = q.seen
      BY <2>1, <2>3 DEF Same
    <3>2. q \in Posts /\ q.step \in PostSteps
      BY <3>1, StepTells DEF TableInv
    <3>3. /\ p.step \in {"read_scan", "apply"} => PostedAfter(p)
          /\ p.step = "apply" => p.kind \in Kinds
      BY <1>1, <1>7, <2>1, <2>3, <3>1, PostGoesOn
    <3>4. Good(p)
      BY <1>3, <3>1, <3>3
    <3> QED BY <1>4, <2>1, <3>4
  <2> QED BY <2>2, <2>3
<1>8. ASSUME NEW u \in Slots, Die(u) PROVE PostsReviewed'
  BY <1>4, <1>5, <1>8 DEF Die
<1>9. ASSUME UNCHANGED req PROVE PostsReviewed'
  <2> SUFFICES ASSUME NEW v \in Slots, NEW p, p = req'[v] PROVE Good(p)
    BY DEF PostsReviewed, Reviewed, ReviewedAfter, Posted, PostedAfter
  <2> QED BY <1>3, <1>9
<1>10. ASSUME Beside PROVE PostsReviewed'
  BY <1>9, <1>10 DEF Beside
<1>11. ASSUME UNCHANGED reqVars PROVE PostsReviewed'
  BY <1>9, <1>11 DEF reqVars
<1> QED BY <1>6, <1>7, <1>8, <1>10, <1>11 DEF ReqNext, NewResult, Abandon

(* Nothing is waived or confirmed that no user looked at, however posts,   *)
(* removals and new scans overlap and wherever a request dies: a decision  *)
(* that a stale copy brings back was once made on the very same defects.   *)
THEOREM ReviewedUnderOverlap == ReqSpec => []EverReviewed
<1>1. ReqInit => ReviewInv
  BY DEF ReqInit, Init, ReviewInv, GroupsReviewed, PostsReviewed, Idle
<1>2. (TableInv /\ PostInv) /\ ReviewInv /\ [ReqNext]_reqVars => ReviewInv'
  BY GroupsKeepReviewed, PostsKeepReviewed DEF ReviewInv
<1>3. ReviewInv => EverReviewed
  BY DEF ReviewInv, GroupsReviewed, Reviewed, EverReviewed
<1> QED BY <1>1, <1>2, <1>3, TablesAreSound, PTL DEF ReqSpec

-----------------------------------------------------------------------------
(* While no two requests overlap, a scan is enabled exactly if it is the   *)
(* newest: what a handler writes back is what it read.                     *)

OneBusy == ~disturbed => \A u, v \in Busy : u = v

LEMMA OneBusyStays ==
  ASSUME TableInv, OneBusy, [ReqNext]_reqVars
  PROVE  OneBusy'
<1>1. req \in [Slots -> Requests] /\ Idle.op = "none"
  BY DEF TableInv, ReqTypeOK, Idle
<1>2. ASSUME NEW u \in Slots, Arrive(u) PROVE OneBusy'
  <2>1. PICK q : Begin(u, q)
    BY <1>2, ArrivesAs
  <2>2. CASE disturbed'
    BY <2>2 DEF OneBusy
  <2>3. CASE ~disturbed'
    <3>1. Busy = {} /\ req' = [req EXCEPT ![u] = q]
      BY <2>1, <2>3 DEF Begin
    <3>2. Busy' \subseteq {u}
      BY <1>1, <3>1 DEF Busy
    <3> QED BY <3>2 DEF OneBusy
  <2> QED BY <2>2, <2>3
<1>3. ASSUME NEW u \in Slots, Proceed(u) PROVE OneBusy'
  <2>1. PICK q : Continue(u, q) /\ (q = Idle \/ Same(q, req[u]))
    BY <1>3, ProceedKeeps
  <2>2. Busy' \subseteq Busy /\ disturbed' = disturbed
    BY <1>1, <2>1 DEF Continue, history, Same, Busy
  <2> QED BY <2>2 DEF OneBusy
<1>4. ASSUME NEW u \in Slots, Die(u) PROVE OneBusy'
  BY <1>4 DEF Die, OneBusy
<1>5. ASSUME UNCHANGED req, disturbed' = disturbed \/ disturbed' PROVE OneBusy'
  BY <1>5 DEF OneBusy, Busy
<1>6. ASSUME Beside PROVE OneBusy'
  BY <1>6 DEF Beside, OneBusy, Busy
<1>7. ASSUME UNCHANGED reqVars PROVE OneBusy'
  BY <1>7 DEF reqVars, history, OneBusy, Busy
<1> QED BY <1>2, <1>3, <1>4, <1>6, <1>7 DEF ReqNext, NewResult, Abandon

HasScan(q) == q.step \in {"apply", "finalize", "save_scan", "reopen", "dispute"}

ScanKnown(q, now) == HasScan(q) => (q.scan.enabled <=> q.r \in now)

NewestInv ==
  ~disturbed =>
    /\ (\A u \in Slots : req[u].op # "submit") =>
         enabled = IF submitted THEN {} ELSE Latest(attached)
    /\ \A u \in Slots : req[u].op = "submit" =>
         submitted /\ enabled = req[u].child /\ req[u].child = Latest(attached)
    /\ \A u \in Slots : ScanKnown(req[u], enabled)

LEMMA LatestIsOne ==
  ASSUME TableInv, NEW r \in Latest(attached)
  PROVE  Latest(attached) = {r}
<1>1. attached \subseteq Nat
  BY DEF TableInv, ReqTypeOK, TypeOK
<1>2. \A w \in Latest(attached) : w = r
  BY <1>1 DEF Latest
<1> QED BY <1>2

(* The steps that write a scan do not change whether it is enabled.        *)
LEMMA ProceedKeepsScans ==
  ASSUME TableInv, NEW u \in Slots, Proceed(u), req[u].op # "submit", ScanKnown(req[u], enabled)
  PROVE  /\ UNCHANGED <<enabled, submitted, attached, disturbed>>
         /\ \E q : req' = [req EXCEPT ![u] = q] /\ ScanKnown(q, enabled) /\ q.op # "submit"
<1> DEFINE q == req[u]
<1>1. ScanKnown(Idle, enabled) /\ Idle.op # "submit"
  BY DEF ScanKnown, HasScan, Idle
<1>2. CASE q.op = "post"
  <2>1. q \in Posts /\ q.step \in PostSteps
    BY <1>2, StepTells DEF TableInv
  <2>2. CASE Deactivate(u) \/ Insert(u) \/ Apply(u)
    <3>1. /\ UNCHANGED <<enabled, submitted, attached, disturbed>>
          /\ \/ Continue(u, [q EXCEPT !.step = "insert"]) /\ q.step = "deactivate"
             \/ Continue(u, [q EXCEPT !.step = "read_scan", !.copies = Copies({})])
             \/ \E s : Continue(u, [q EXCEPT !.step = s]) /\ q.step = "apply"
      BY <2>2 DEF Deactivate, Insert, Apply, Goto, Continue, At, scanVars, resultVars, history
    <3>2. \A s : /\ [q EXCEPT !.step = s].scan = q.scan /\ [q EXCEPT !.step = s].r = q.r
                 /\ [q EXCEPT !.step = s].step = s /\ [q EXCEPT !.step = s].op = "post"
      BY <1>2, <2>1 DEF Posts
    <3>3. \A c : /\ [q EXCEPT !.step = "read_scan", !.copies = c].step = "read_scan"
                 /\ [q EXCEPT !.step = "read_scan", !.copies = c].op = "post"
      BY <1>2, <2>1 DEF Posts
    <3>4. \A s : q.step = "apply" => ScanKnown([q EXCEPT !.step = s], enabled)
      BY <3>2 DEF ScanKnown, HasScan
    <3>5. /\ ScanKnown([q EXCEPT !.step = "insert"], enabled)
          /\ ScanKnown([q EXCEPT !.step = "read_scan", !.copies = Copies({})], enabled)
      BY <3>2, <3>3 DEF ScanKnown, HasScan
    <3> QED BY <3>1, <3>2, <3>3, <3>4, <3>5 DEF Continue
  <2>3. CASE ReadScan(u)
    <3> DEFINE p == [q EXCEPT !.scan = ScanRow(q.r),
                              !.step = IF q.kind = "COMMENT" THEN "save_scan" ELSE "apply"]
    <3>1. /\ UNCHANGED <<enabled, submitted, attached, disturbed>>
          /\ req' = [req EXCEPT ![u] = p]
      BY <2>3 DEF ReadScan, Continue, scanVars, resultVars, history
    <3>2. p.scan = ScanRow(q.r) /\ p.r = q.r /\ p.op = "post"
      BY <1>2, <2>1 DEF Posts
    <3> HIDE DEF p
    <3>3. ScanKnown(p, enabled)
      <4>1. p.scan.enabled = (p.r \in enabled)
        BY <3>2 DEF ScanRow
      <4> QED BY <4>1 DEF ScanKnown
    <3> QED BY <3>1, <3>2, <3>3
  <2>4. ASSUME Finalize(u) \/ FinishPost(u)
        PROVE  UNCHANGED <<submitted, attached, disturbed>> /\ enabled' = enabled
    <3>1. /\ UNCHANGED <<submitted, attached, disturbed>> /\ q.step \in {"finalize", "save_scan"}
          /\ \/ UNCHANGED enabled
             \/ \E row : SaveScan(q.r, row) /\ row.enabled = q.scan.enabled
      <4>1. \A st : [q.scan EXCEPT !.state = st].enabled = q.scan.enabled
        BY <2>1 DEF Posts, ScanRows
      <4> QED BY <2>4, <4>1 DEF Finalize, FinishPost, Goto, End, Continue, At, resultVars, history
    <3> QED BY <3>1 DEF SaveScan, ScanKnown, HasScan
  <2>5. CASE Finalize(u)
    <3> DEFINE row == [q.scan EXCEPT !.state = Finalized(group[q.r])]
               p == [q EXCEPT !.scan = row, !.step = "save_scan"]
               o == [q EXCEPT !.step = "save_scan"]
    <3>1. (req' = [req EXCEPT ![u] = p] \/ req' = [req EXCEPT ![u] = o]) /\ q.step = "finalize"
      BY <2>5 DEF Finalize, Continue, Goto, At
    <3>2. /\ p.scan.enabled = q.scan.enabled /\ p.r = q.r /\ p.op = "post"
          /\ o.scan.enabled = q.scan.enabled /\ o.r = q.r /\ o.op = "post"
      BY <1>2, <2>1 DEF Posts, ScanRows
    <3>3. ScanKnown(p, enabled) /\ ScanKnown(o, enabled)
      BY <3>1, <3>2 DEF ScanKnown, HasScan
    <3> QED BY <2>4, <2>5, <3>1, <3>2, <3>3
  <2>6. CASE FinishPost(u)
    BY <1>1, <2>4, <2>6 DEF FinishPost, End, Continue
  <2>7. ~At(u, "link") /\ q.step \notin RemoveSteps /\ q.step \notin ReportSteps
    BY <2>1 DEF At, PostSteps, RemoveSteps, ReportSteps
  <2>8. \/ Deactivate(u) \/ Insert(u) \/ ReadScan(u) \/ Apply(u) \/ Finalize(u) \/ FinishPost(u)
    BY <2>7 DEF Proceed, Delete, IsWaived, Reopen, Dispute, Format, Send, SaveBug, Mark, LinkChild,
                At, RemoveSteps, ReportSteps
  <2> QED BY <2>2, <2>3, <2>5, <2>6, <2>8
<1>3. CASE q.op = "remove"
  <2>1. q \in Removals /\ q.step \in RemoveSteps
    BY <1>3, StepTells DEF TableInv
  <2>2. CASE Delete(u)
    <3>1. /\ UNCHANGED <<enabled, submitted, attached, disturbed>>
          /\ \/ Continue(u, Idle)
             \/ Continue(u, [q EXCEPT !.step = "is_waived", !.copies = Copies({})])
      BY <2>2 DEF Delete, End, Continue, scanVars, resultVars, history
    <3>2. \A c : /\ [q EXCEPT !.step = "is_waived", !.copies = c].step = "is_waived"
                 /\ [q EXCEPT !.step = "is_waived", !.copies = c].op = "remove"
      BY <1>3, <2>1 DEF Removals
    <3> QED BY <1>1, <3>1, <3>2 DEF ScanKnown, HasScan, Continue
  <2>3. CASE IsWaived(u)
    <3> DEFINE p == [q EXCEPT !.step = "reopen", !.scan = ScanRow(q.r)]
    <3>1. /\ UNCHANGED <<enabled, submitted, attached, disturbed>>
          /\ req' = [req EXCEPT ![u] = p] \/ req' = [req EXCEPT ![u] = Idle]
      BY <2>3 DEF IsWaived, End, Continue, scanVars, waivingVars, history
    <3>2. p.scan = ScanRow(q.r) /\ p.r = q.r /\ p.op = "remove"
      BY <1>3, <2>1 DEF Removals
    <3> HIDE DEF p
    <3>3. ScanKnown(p, enabled)
      <4>1. p.scan.enabled = (p.r \in enabled)
        BY <3>2 DEF ScanRow
      <4> QED BY <4>1 DEF ScanKnown
    <3> QED BY <1>1, <3>1, <3>2, <3>3
  <2>4. CASE Reopen(u)
    <3> DEFINE p == [q EXCEPT !.step = "dispute"]
    <3>1. /\ UNCHANGED <<enabled, submitted, attached, disturbed>> /\ q.step = "reopen"
          /\ req' = [req EXCEPT ![u] = p] \/ req' = [req EXCEPT ![u] = Idle]
      BY <2>4 DEF Reopen, End, Goto, Continue, At, scanVars, resultVars, history
    <3>2. p.scan = q.scan /\ p.r = q.r /\ p.op = "remove"
      BY <1>3, <2>1 DEF Removals
    <3>3. ScanKnown(p, enabled)
      BY <3>1, <3>2 DEF ScanKnown, HasScan
    <3> QED BY <1>1, <3>1, <3>2, <3>3
  <2>5. CASE Dispute(u)
    <3> DEFINE row == [q.scan EXCEPT !.state = "DISPUTED"]
    <3>1. /\ UNCHANGED <<submitted, attached, disturbed>> /\ q.step = "dispute"
          /\ req' = [req EXCEPT ![u] = Idle] /\ SaveScan(q.r, row)
      BY <2>5 DEF Dispute, End, Continue, At, resultVars, history
    <3>2. row.enabled = q.scan.enabled
      BY <2>1 DEF Removals, ScanRows
    <3>3. enabled' = enabled
      BY <3>1, <3>2 DEF SaveScan, ScanKnown, HasScan
    <3> QED BY <1>1, <3>1, <3>3
  <2>6. ~At(u, "link") /\ q.step \notin PostSteps /\ q.step \notin ReportSteps
    BY <2>1 DEF At, PostSteps, RemoveSteps, ReportSteps
  <2>7. Delete(u) \/ IsWaived(u) \/ Reopen(u) \/ Dispute(u)
    BY <2>6 DEF Proceed, Deactivate, Insert, ReadScan, Apply, Finalize, FinishPost, Format, Send,
                SaveBug, Mark, LinkChild, At, PostSteps, ReportSteps
  <2> QED BY <2>2, <2>3, <2>4, <2>5, <2>7
<1>4. CASE q.op = "report"
  <2>1. q \in Reports /\ q.step \in ReportSteps
    BY <1>4, StepTells DEF TableInv
  <2>2. ~At(u, "link") /\ q.step \notin PostSteps /\ q.step \notin RemoveSteps
    BY <2>1 DEF At, PostSteps, RemoveSteps, ReportSteps
  <2>3. Format(u) \/ Send(u) \/ SaveBug(u) \/ Mark(u)
    BY <2>2 DEF Proceed, Deactivate, Insert, ReadScan, Apply, Finalize, FinishPost, Delete,
                IsWaived, Reopen, Dispute, LinkChild, At, PostSteps, RemoveSteps
  <2>4. UNCHANGED <<enabled, submitted, attached>>
    BY <2>3 DEF Format, Send, SaveBug, Mark, waivingVars, resultVars, scanVars
  <2>5. PICK p : Continue(u, p) /\ (p = Idle \/ Same(p, q))
    BY ProceedKeeps
  <2>6. req' \in [Slots -> Requests] /\ req' = [req EXCEPT ![u] = p] /\ disturbed' = disturbed
    <3>1. TableInv'
      BY <2>3, ReportTables, MarkTables
    <3> QED BY <2>5, <3>1 DEF TableInv, ReqTypeOK, Continue, history
  <2>7. p \in Requests
    BY <2>6 DEF TableInv, ReqTypeOK
  <2>8. CASE Same(p, q)
    <3>1. p.op = "report"
      BY <1>4, <2>8 DEF Same
    <3>2. p \in Reports
      BY <2>7, <3>1 DEF Requests, Posts, Removals, Submissions, Idle
    <3>3. ScanKnown(p, enabled)
      BY <3>2 DEF Reports, ReportSteps, ScanKnown, HasScan
    <3> QED BY <2>4, <2>6, <3>1, <3>3
  <2> QED BY <1>1, <2>4, <2>5, <2>6, <2>8
<1>5. q.op # "none"
  BY ProceedIsBusy
<1>6. q.op \in {"none", "post", "remove", "report"}
  <2>1. q \in Requests
    BY DEF TableInv, ReqTypeOK
  <2> QED BY <2>1 DEF Requests, Posts, Removals, Reports, Submissions, Idle
<1> QED BY <1>2, <1>3, <1>4, <1>5, <1>6

LEMMA NewestStays ==
  ASSUME TableInv, PostInv, OneBusy, NewestInv, [ReqNext]_reqVars
  PROVE  NewestInv'
<1>1. /\ req \in [Slots -> Requests] /\ Idle.op = "none" /\ ~HasScan(Idle)
      /\ \A v \in Slots : req[v].op = "none" => req[v] = Idle
  BY StepTells DEF TableInv, ReqTypeOK, Idle, HasScan
<1>2. ASSUME NEW u \in Slots, Arrive(u), ~disturbed' PROVE NewestInv'
  <2>1. /\ UNCHANGED <<waivingVars, enabled>>
        /\ \E q : /\ Begin(u, q) /\ ~HasScan(q)
                  /\ \/ q.op # "submit" /\ UNCHANGED submitted
                     \/ /\ q.op = "submit" /\ q.child = Latest(attached)
                        /\ ~submitted /\ submitted' = TRUE
    BY <1>2, ArrivesAs DEF HasScan
  <2>2. PICK q : /\ Begin(u, q) /\ ~HasScan(q)
                 /\ \/ q.op # "submit" /\ UNCHANGED submitted
                    \/ /\ q.op = "submit" /\ q.child = Latest(attached)
                       /\ ~submitted /\ submitted' = TRUE
    BY <2>1
  <2>3. /\ ~disturbed /\ req' = [req EXCEPT ![u] = q]
        /\ \A v \in Slots : req[v].op = "none"
    BY <1>2, <2>2 DEF Begin, Busy
  <2>4. /\ req'[u] = q
        /\ \A v \in Slots \ {u} : req'[v] = Idle
    BY <1>1, <2>3
  <2>5. enabled = IF submitted THEN {} ELSE Latest(attached)
    BY <2>3 DEF NewestInv
  <2>6. \A v \in Slots : ~HasScan(req'[v])
    BY <1>1, <2>2, <2>4
  <2>7. enabled' = enabled /\ Latest(attached)' = Latest(attached)
    BY <2>1 DEF waivingVars, Latest
  <2>8. (\A v \in Slots : req'[v].op # "submit") =>
          enabled' = IF submitted' THEN {} ELSE Latest(attached)'
    BY <2>2, <2>4, <2>5, <2>7
  <2>9. ASSUME NEW v \in Slots, req'[v].op = "submit"
        PROVE  submitted' /\ enabled' = req'[v].child /\ req'[v].child = Latest(attached)'
    <3>1. v = u
      BY <1>1, <2>4, <2>9
    <3> QED BY <2>2, <2>4, <2>5, <2>7, <2>9, <3>1
  <2> QED BY <2>6, <2>8, <2>9 DEF NewestInv, ScanKnown, HasScan
<1>3. ASSUME NEW u \in Slots, Proceed(u), ~disturbed PROVE NewestInv'
  <2>1. req[u].op # "none"
    BY <1>3, ProceedIsBusy
  <2>2. \A v \in Slots \ {u} : req[v] = Idle
    BY <1>1, <1>3, <2>1 DEF OneBusy, Busy
  <2>3. CASE req[u].op # "submit"
    <3>1. PICK p : req' = [req EXCEPT ![u] = p] /\ ScanKnown(p, enabled) /\ p.op # "submit"
      BY <1>3, <2>3, ProceedKeepsScans DEF NewestInv
    <3>2. UNCHANGED <<enabled, submitted, attached>>
      BY <1>3, <2>3, ProceedKeepsScans DEF NewestInv
    <3>3. \A v \in Slots : req'[v].op # "submit" /\ ScanKnown(req'[v], enabled)
      BY <1>1, <2>2, <3>1 DEF ScanKnown
    <3>4. enabled = IF submitted THEN {} ELSE Latest(attached)
      BY <1>1, <1>3, <2>2, <2>3 DEF NewestInv
    <3>5. Latest(attached)' = Latest(attached)
      BY <3>2 DEF Latest
    <3> QED BY <3>2, <3>3, <3>4, <3>5 DEF NewestInv
  <2>4. CASE req[u].op = "submit"
    <3>1. req[u].step = "link" /\ req[u] \in Submissions
      BY <2>4, StepTells DEF TableInv
    <3>2. LinkChild(u)
      BY <1>3, <3>1 DEF Proceed, Deactivate, Insert, ReadScan, Apply, Finalize, FinishPost, Delete,
                        IsWaived, Reopen, Dispute, Format, Send, SaveBug, Mark, At
    <3>3. /\ req' = [req EXCEPT ![u] = Idle] /\ UNCHANGED <<submitted, attached>>
      BY <3>2 DEF LinkChild, End, Continue, resultVars
    <3>4. submitted /\ enabled = req[u].child /\ req[u].child = Latest(attached)
      BY <1>3, <2>4 DEF NewestInv
    <3>5. enabled' = {}
      <4>1. CASE req[u].child = {}
        BY <3>2, <3>4, <4>1 DEF LinkChild
      <4>2. CASE req[u].child # {}
        <5>1. PICK r \in req[u].child : SaveScan(r, [req[u].scan[r] EXCEPT !.enabled = FALSE])
          BY <3>2, <4>2 DEF LinkChild
        <5>2. ~[req[u].scan[r] EXCEPT !.enabled = FALSE].enabled
          BY <3>1 DEF Submissions, ScanRows
        <5>3. enabled' = enabled \ {r}
          BY <5>1, <5>2 DEF SaveScan
        <5>4. enabled = {r}
          BY <3>4, LatestIsOne
        <5> QED BY <5>3, <5>4
      <4> QED BY <4>1, <4>2
    <3>6. \A v \in Slots : req'[v] = Idle
      BY <1>1, <2>2, <3>3
    <3> QED BY <1>1, <3>3, <3>4, <3>5, <3>6 DEF NewestInv, ScanKnown
  <2> QED BY <2>3, <2>4
<1>4. ASSUME Beside, ~disturbed'
      PROVE  /\ submitted /\ submitted' = FALSE /\ enabled = {}
             /\ \A v \in Slots : req'[v] = Idle
  BY <1>1, <1>4 DEF Beside, NewestInv, Busy
<1>5. ASSUME Beside, ~disturbed', enabled' = Latest(attached') PROVE NewestInv'
  <2>1. \A v \in Slots : req'[v].op # "submit" /\ ~HasScan(req'[v])
    BY <1>1, <1>4, <1>5
  <2> QED BY <1>4, <1>5, <2>1 DEF NewestInv, ScanKnown, Latest, HasScan
<1>6. ASSUME NEW defects \in Contents, NewResult(defects), ~disturbed' PROVE NewestInv'
  <2>1. Beside /\ attached' = (attached \ {0}) \cup {results + 1}
        /\ enabled' = enabled \cup {results + 1}
    BY <1>6 DEF NewResult, FinishScan, CreateResult
  <2>2. attached \subseteq 1 .. results /\ results \in Nat
    BY DEF TableInv, ReqTypeOK, TypeOK
  <2>3. Latest(attached') = {results + 1}
    <3>1. \A v \in attached' : v = results + 1 \/ (v \in Nat /\ v < results + 1)
      BY <2>1, <2>2
    <3>2. results + 1 \in attached' /\ results + 1 \in Nat
      BY <2>1, <2>2
    <3>3. \A v \in attached' : (\A w \in attached' : w <= v) <=> v = results + 1
      BY <3>1, <3>2
    <3> QED BY <3>2, <3>3 DEF Latest
  <2> QED BY <1>4, <1>5, <1>6, <2>1, <2>3
<1>7. ASSUME Abandon, ~disturbed' PROVE NewestInv'
  <2>1. Beside /\ enabled' = enabled \cup Latest(attached) /\ attached' = attached
    BY <1>7 DEF Abandon, waivingVars
  <2> QED BY <1>4, <1>5, <1>7, <2>1
<1>8. ASSUME UNCHANGED reqVars PROVE NewestInv'
  BY <1>8 DEF reqVars, waivingVars, scanVars, history, NewestInv, ScanKnown, HasScan, Latest
<1>9. ASSUME disturbed' PROVE NewestInv'
  BY <1>9 DEF NewestInv
<1>10. ASSUME NEW u \in Slots, Proceed(u) PROVE NewestInv'
  <2>1. disturbed' = disturbed
    BY <1>10, ProceedKeeps DEF Continue, history
  <2> QED BY <1>3, <1>9, <1>10, <2>1
<1>11. ASSUME NEW u \in Slots, Die(u) PROVE NewestInv'
  BY <1>9, <1>11 DEF Die
<1> QED BY <1>2, <1>6, <1>7, <1>8, <1>9, <1>10, <1>11 DEF ReqNext

(* While no two requests overlap and none dies, the newest scan is the one *)
(* that counts, or none while a newer one is in progress: no handler that  *)
(* saves a scan enables an old one again.                                  *)
THEOREM NewestScanCounts == ReqSpec => []NewestCounts
<1>1. ReqInit => OneBusy /\ NewestInv
  <2>1. ASSUME ReqInit PROVE Busy = {} /\ enabled = {} /\ attached = {} /\ req = [u \in Slots |-> Idle]
    BY <2>1 DEF ReqInit, Init, Busy, Idle
  <2> QED BY <2>1 DEF OneBusy, NewestInv, Latest, Idle, ScanKnown, HasScan
<1>2. (TableInv /\ PostInv) /\ OneBusy /\ NewestInv /\ [ReqNext]_reqVars => (OneBusy /\ NewestInv)'
  BY OneBusyStays, NewestStays
<1>3. NewestInv => NewestCounts
  BY DEF NewestInv, NewestCounts, Busy
<1> QED BY <1>1, <1>2, <1>3, TablesAreSound, PTL DEF ReqSpec

-----------------------------------------------------------------------------
(* While reports neither overlap nor die, no waiver is in two bugs of one  *)
(* tracker.  A live waiver that a bug lists has a link to it, or the       *)
(* report that sent it is about to set it: every other handler that writes *)
(* an old copy of a waiver leaves the waiver dead.                         *)

OneReporting == ~contended => \A u, v \in Reporting : u = v

Marking(q) == q.step \in {"save_bug", "mark"}

LinkedOrMarking ==
  \A t \in Trackers, n \in Bugs : \A w \in text[t][n] :
    Live(w) => \/ bug[t][w] # 0
               \/ \E u \in Slots : /\ Marking(req[u]) /\ req[u].t = t
                                   /\ w \in DOMAIN req[u].copies

(* What a report has read and not sent is in no bug of its tracker; the    *)
(* links of the other trackers it has read with the row.                   *)
ReadBefore(q, lists) ==
  /\ q.step = "send" =>
       \A w \in DOMAIN q.copies, n \in Bugs : w \notin lists[q.t][n]
  /\ q.step = "send" \/ Marking(q) =>
       \A w \in DOMAIN q.copies, t \in Trackers \ {q.t}, n \in Bugs :
         w \in lists[t][n] => q.copies[w].bug[t] # 0

OnceInv ==
  ~contended =>
    /\ \A t \in Trackers, m, n \in Bugs : m # n => text[t][m] \cap text[t][n] = {}
    /\ LinkedOrMarking
    /\ \A u \in Slots : ReadBefore(req[u], text)

LEMMA OneReportingStays ==
  ASSUME TableInv, OneReporting, [ReqNext]_reqVars
  PROVE  OneReporting'
<1>1. req \in [Slots -> Requests] /\ Idle.op = "none"
  BY DEF TableInv, ReqTypeOK, Idle
<1>2. ASSUME NEW u \in Slots, Arrive(u) PROVE OneReporting'
  <2>1. PICK q : Begin(u, q)
    BY <1>2, ArrivesAs
  <2>2. CASE q.op = "report"
    <3>1. CASE contended'
      BY <3>1 DEF OneReporting
    <3>2. CASE ~contended'
      <4>1. Reporting = {} /\ req' = [req EXCEPT ![u] = q]
        BY <2>1, <2>2, <3>2 DEF Begin
      <4>2. Reporting' \subseteq {u}
        BY <1>1, <4>1 DEF Reporting
      <4> QED BY <4>2 DEF OneReporting
    <3> QED BY <3>1, <3>2
  <2>3. CASE q.op # "report"
    <3>1. Reporting' \subseteq Reporting /\ contended' = contended
      BY <1>1, <2>1, <2>3 DEF Begin, Reporting, TableInv, ReqTypeOK
    <3> QED BY <3>1 DEF OneReporting
  <2> QED BY <2>2, <2>3
<1>3. ASSUME NEW u \in Slots, Proceed(u) PROVE OneReporting'
  <2>1. PICK q : Continue(u, q) /\ (q = Idle \/ Same(q, req[u]))
    BY <1>3, ProceedKeeps
  <2>2. Reporting' \subseteq Reporting /\ contended' = contended
    BY <1>1, <2>1 DEF Continue, history, Same, Reporting
  <2> QED BY <2>2 DEF OneReporting
<1>4. ASSUME NEW u \in Slots, Die(u) PROVE OneReporting'
  <2>1. Reporting' \subseteq Reporting /\ (~contended' => ~contended)
    BY <1>1, <1>4 DEF Die, Reporting
  <2> QED BY <2>1 DEF OneReporting
<1>5. ASSUME UNCHANGED <<req, contended>> PROVE OneReporting'
  BY <1>5 DEF OneReporting, Reporting
<1> QED BY <1>2, <1>3, <1>4, <1>5 DEF ReqNext, NewResult, Abandon, Beside, reqVars, history

(* What a step that is none of a report's leaves behind.                   *)
Apart ==
  /\ text' = text
  /\ ~contended' => ~contended
  /\ \A w \in 1 .. waivers : waiver'[w].is_active /\ ~waiver'[w].is_deleted =>
       Live(w) /\ \A t \in Trackers : bug'[t][w] = bug[t][w]
  /\ \A v \in Slots : req'[v] = req[v] \/ req'[v].step \notin {"send", "save_bug", "mark"}
  /\ \A v \in Slots : Marking(req[v]) /\ ~contended' => req'[v] = req[v]

LEMMA ApartIsOnce ==
  ASSUME TableInv, OnceInv, Apart
  PROVE  OnceInv'
<1> SUFFICES ASSUME ~contended' PROVE OnceInv'
  BY DEF OnceInv
<1>1. /\ ~contended /\ text' = text
      /\ \A t \in Trackers, m, n \in Bugs : m # n => text[t][m] \cap text[t][n] = {}
      /\ LinkedOrMarking
      /\ \A u \in Slots : ReadBefore(req[u], text)
  BY DEF Apart, OnceInv
<1>2. LinkedOrMarking'
  <2> SUFFICES ASSUME NEW t \in Trackers, NEW n \in Bugs, NEW w, w \in text[t][n],
                      waiver'[w].is_active, ~waiver'[w].is_deleted
               PROVE  \/ bug'[t][w] # 0
                      \/ \E u \in Slots : /\ Marking(req'[u]) /\ req'[u].t = t
                                          /\ w \in DOMAIN req'[u].copies
    BY <1>1 DEF LinkedOrMarking, Live, Marking
  <2>1. w \in 1 .. waivers
    BY DEF TableInv, SentInv
  <2>2. Live(w) /\ bug'[t][w] = bug[t][w]
    BY <2>1 DEF Apart
  <2>3. CASE bug[t][w] # 0
    BY <2>2, <2>3
  <2>4. CASE bug[t][w] = 0
    <3>1. PICK u \in Slots : Marking(req[u]) /\ req[u].t = t /\ w \in DOMAIN req[u].copies
      BY <1>1, <2>2, <2>4 DEF LinkedOrMarking
    <3>2. req'[u] = req[u]
      BY <3>1 DEF Apart
    <3> QED BY <3>1, <3>2
  <2> QED BY <2>3, <2>4
<1>3. ASSUME NEW u \in Slots PROVE ReadBefore(req'[u], text)
  <2>1. CASE req'[u] = req[u]
    BY <1>1, <2>1
  <2>2. CASE req'[u].step \notin {"send", "save_bug", "mark"}
    BY <2>2 DEF ReadBefore, Marking
  <2> QED BY <2>1, <2>2 DEF Apart
<1> QED BY <1>1, <1>2, <1>3 DEF OnceInv, ReadBefore, Marking

LEMMA ApartRows ==
  ASSUME UNCHANGED <<text, waiver, bug>>
  PROVE  /\ text' = text
         /\ \A w \in 1 .. waivers : waiver'[w].is_active /\ ~waiver'[w].is_deleted =>
              Live(w) /\ \A t \in Trackers : bug'[t][w] = bug[t][w]
  BY DEF Live

LEMMA ArriveIsApart == ASSUME TableInv, NEW u \in Slots, Arrive(u) PROVE Apart
<1>1. req \in [Slots -> Requests] /\ UNCHANGED <<text, waiver, bug>>
  BY ArrivesAs DEF TableInv, ReqTypeOK, waivingVars, waiverVars, bugVars
<1>2. PICK q : Begin(u, q) /\ q.step \in {"deactivate", "insert", "delete", "format", "link"}
  BY ArrivesAs
<1>3. /\ \A v \in Slots : req'[v] = req[v] \/ (v = u /\ req'[v] = q)
      /\ (~contended' => ~contended) /\ ~Marking(req[u])
  <2>1. req[u] = Idle /\ req' = [req EXCEPT ![u] = q] /\ (~contended' => ~contended)
    BY <1>2 DEF Begin
  <2>2. ~Marking(req[u])
    BY <2>1 DEF Marking, Idle
  <2> QED BY <1>1, <2>1, <2>2
<1>4. \A v \in Slots : Marking(req[v]) => req'[v] = req[v]
  BY <1>3
<1> QED BY <1>1, <1>2, <1>3, <1>4, ApartRows DEF Apart

(* A waiver that Deactivate or Delete saves is dead.                       *)
LEMMA SavedAreDead ==
  ASSUME TableInv, NEW u \in Slots, Deactivate(u) \/ Delete(u), NEW w \in 1 .. waivers,
         waiver'[w].is_active, ~waiver'[w].is_deleted
  PROVE  Live(w) /\ \A t \in Trackers : bug'[t][w] = bug[t][w]
<1> DEFINE q == req[u]
<1>1. Copying(q)
  BY StepTells DEF Deactivate, Delete, At, PostSteps, RemoveSteps, TableInv, Copying
<1>2. q.copies \in CopySet
  BY <1>1, CopiesOf
<1>3. w \in Waivers
  BY DEF TableInv, ReqTypeOK, TypeOK, Waivers
<1>4. PICK c : /\ SaveWaivers(c) /\ DOMAIN c = DOMAIN q.copies
               /\ \/ \A v \in DOMAIN c : c[v] = [q.copies[v] EXCEPT !.waiver.is_active = FALSE]
                  \/ \A v \in DOMAIN c : c[v] = [q.copies[v] EXCEPT !.waiver.is_deleted = TRUE]
  <2>1. CASE Deactivate(u)
    <3> DEFINE c == [v \in DOMAIN q.copies |-> [q.copies[v] EXCEPT !.waiver.is_active = FALSE]]
    <3>1. SaveWaivers(c)
      BY <2>1 DEF Deactivate
    <3>2. DOMAIN c = DOMAIN q.copies
      OBVIOUS
    <3>3. \A v \in DOMAIN c : c[v] = [q.copies[v] EXCEPT !.waiver.is_active = FALSE]
      OBVIOUS
    <3> HIDE DEF c
    <3> QED BY <3>1, <3>2, <3>3
  <2>2. CASE Delete(u)
    <3> DEFINE c == [v \in DOMAIN q.copies |-> [q.copies[v] EXCEPT !.waiver.is_deleted = TRUE]]
    <3>1. SaveWaivers(c)
      BY <2>2 DEF Delete
    <3>2. DOMAIN c = DOMAIN q.copies
      OBVIOUS
    <3>3. \A v \in DOMAIN c : c[v] = [q.copies[v] EXCEPT !.waiver.is_deleted = TRUE]
      OBVIOUS
    <3> HIDE DEF c
    <3> QED BY <3>1, <3>2, <3>3
  <2> QED BY <2>1, <2>2
<1>5. \A v \in DOMAIN c : ~c[v].waiver.is_active \/ c[v].waiver.is_deleted
  <2>1. \A v \in DOMAIN q.copies : q.copies[v] \in CopyRow
    BY <1>2 DEF CopySet
  <2>2. \A x \in CopyRow : /\ ~[x EXCEPT !.waiver.is_active = FALSE].waiver.is_active
                           /\ [x EXCEPT !.waiver.is_deleted = TRUE].waiver.is_deleted
    BY DEF CopyRow, WaiverRow
  <2> QED BY <1>4, <2>1, <2>2
<1>6. waiver'[w] = IF w \in DOMAIN c THEN c[w].waiver ELSE waiver[w]
  BY <1>3, <1>4 DEF SaveWaivers
<1>7. w \notin DOMAIN c
  BY <1>5, <1>6
<1> QED BY <1>3, <1>4, <1>6, <1>7 DEF SaveWaivers, Live

LEMMA PostOrRemovalIsApart ==
  ASSUME TableInv, PostInv, NEW u \in Slots, Proceed(u), req[u].op # "report"
  PROVE  Apart
<1>1. req \in [Slots -> Requests] /\ req[u].step \notin ReportSteps
  BY StepTells DEF TableInv, ReqTypeOK
<1>2. PICK q : Continue(u, q) /\ (q = Idle \/ Same(q, req[u]))
  BY ProceedKeeps
<1>3. req'[u] \in Requests
  BY ProceedTables DEF TableInv, ReqTypeOK
<1>4. req'[u] = q /\ req'[u].op # "report" /\ \A v \in Slots \ {u} : req'[v] = req[v]
  BY <1>1, <1>2 DEF Continue, Same, Idle
<1>5. req'[u].step \notin ReportSteps
  BY <1>3, <1>4, RequestTells
<1>6. /\ \A v \in Slots : req'[v] = req[v] \/ req'[v].step \notin {"send", "save_bug", "mark"}
      /\ \A v \in Slots : Marking(req[v]) => req'[v] = req[v]
      /\ contended' = contended
  BY <1>1, <1>2, <1>4, <1>5 DEF ReportSteps, Marking, Continue, history
<1>7. ~(Format(u) \/ Send(u) \/ SaveBug(u) \/ Mark(u))
  BY <1>1 DEF Format, Send, SaveBug, Mark, At, ReportSteps
<1>8. text' = text
  BY <1>7 DEF Proceed, Deactivate, Insert, ReadScan, Apply, Finalize, FinishPost, Delete,
              IsWaived, Reopen, Dispute, LinkChild, bugVars
<1>9. ASSUME NEW w \in 1 .. waivers, waiver'[w].is_active, ~waiver'[w].is_deleted
      PROVE  Live(w) /\ \A t \in Trackers : bug'[t][w] = bug[t][w]
  <2>1. CASE Deactivate(u) \/ Delete(u)
    BY <1>9, <2>1, SavedAreDead
  <2>2. CASE Insert(u)
    <3>1. waiver'[w] = waiver[w] /\ bug' = bug
      BY <2>2 DEF Insert, Add, bugVars, TableInv, ReqTypeOK, TypeOK, Waivers
    <3> QED BY <1>9, <3>1 DEF Live
  <2>3. CASE ~(Deactivate(u) \/ Delete(u) \/ Insert(u))
    <3>1. UNCHANGED <<waiver, bug>>
      BY <1>7, <2>3 DEF Proceed, ReadScan, Apply, Finalize, FinishPost, IsWaived, Reopen, Dispute,
                        LinkChild, bugVars, waiverVars, waivingVars
    <3> QED BY <1>9, <3>1 DEF Live
  <2> QED BY <2>1, <2>2, <2>3
<1> QED BY <1>6, <1>8, <1>9 DEF Apart

LEMMA ReportIsOnce ==
  ASSUME TableInv, PostInv, OneReporting, OnceInv, NEW u \in Slots, Proceed(u),
         req[u].op = "report"
  PROVE  OnceInv'
<1> DEFINE q == req[u]
<1>1. q \in Reports /\ q.step \in ReportSteps /\ req \in [Slots -> Requests]
  BY StepTells DEF TableInv, ReqTypeOK
<1>2. PICK p : Continue(u, p) /\ (p = Idle \/ Same(p, q))
  BY ProceedKeeps
<1>3. req' = [req EXCEPT ![u] = p] /\ contended' = contended
  BY <1>2 DEF Continue, history
<1>4. req'[u] = p /\ (\A v \in Slots \ {u} : req'[v] = req[v])
      /\ \A x : req' = [req EXCEPT ![u] = x] => x = p
  BY <1>1, <1>3
<1> SUFFICES ASSUME ~contended' PROVE OnceInv'
  BY DEF OnceInv
<1>5. /\ \A t \in Trackers, m, n \in Bugs : m # n => text[t][m] \cap text[t][n] = {}
      /\ LinkedOrMarking
      /\ ReadBefore(q, text)
  BY <1>3 DEF OnceInv
<1>6. \A v \in Slots \ {u} : req[v].step \notin ReportSteps
  <2>1. \A v \in Slots \ {u} : req[v].op # "report"
    BY <1>3 DEF OneReporting, Reporting
  <2> QED BY <2>1, StepTells DEF TableInv
<1>7. \A v \in Slots : Marking(req[v]) => v = u
  BY <1>6 DEF Marking, ReportSteps
<1>8. ASSUME \A t \in Trackers, m, n \in Bugs : m # n => text'[t][m] \cap text'[t][n] = {},
             ReadBefore(p, text'),
             \A t \in Trackers, n \in Bugs : \A w \in text'[t][n] :
               waiver'[w].is_active /\ ~waiver'[w].is_deleted =>
                 bug'[t][w] # 0 \/ (Marking(p) /\ p.t = t /\ w \in DOMAIN p.copies)
      PROVE  OnceInv'
  <2>1. LinkedOrMarking'
    BY <1>4, <1>8 DEF LinkedOrMarking, Live, Marking
  <2>2. ASSUME NEW v \in Slots PROVE ReadBefore(req'[v], text')
    <3>1. CASE v = u
      BY <1>4, <1>8, <3>1
    <3>2. CASE v # u
      BY <1>4, <1>6, <3>2 DEF ReadBefore, Marking, ReportSteps
    <3> QED BY <3>1, <3>2
  <2> QED BY <1>8, <2>1, <2>2 DEF OnceInv, ReadBefore, Marking
<1>9. \A t \in Trackers, n \in Bugs : \A w \in text[t][n] :
        Live(w) => bug[t][w] # 0 \/ (Marking(q) /\ q.t = t /\ w \in DOMAIN q.copies)
  BY <1>5, <1>7 DEF LinkedOrMarking
<1>10. q.t \in Trackers /\ q.copies \in CopySet /\ q.n \in 0 .. MaxBugs
  BY <1>1 DEF Reports
<1>11. ReadBefore(Idle, text)
  BY DEF ReadBefore, Marking, Idle
<1>12. CASE Format(u)
  <2> DEFINE W == Unreported(q.t, q.ids)
  <2>1. /\ p = Idle \/ p = [q EXCEPT !.step = "send", !.copies = Copies(W)]
        /\ ~Marking(q) /\ UNCHANGED <<text, waiver, bug>>
    BY <1>4, <1>12 DEF Format, End, Continue, At, Marking, waivingVars, waiverVars, bugVars
  <2>2. \A t \in Trackers, n \in Bugs : \A w \in text[t][n] : Live(w) => bug[t][w] # 0
    BY <1>9, <2>1
  <2>3. CASE p = Idle
    BY <1>5, <1>8, <1>11, <2>1, <2>2, <2>3 DEF Live
  <2>4. CASE p = [q EXCEPT !.step = "send", !.copies = Copies(W)]
    <3>1. p.step = "send" /\ p.t = q.t /\ p.copies = Copies(W)
      BY <1>1, <2>4 DEF Reports
    <3>2. \A w \in W : Live(w) /\ bug[q.t][w] = 0
      BY DEF Unreported
    <3> HIDE DEF W
    <3>3. DOMAIN Copies(W) = W /\ \A w \in W, t \in Trackers : Copies(W)[w].bug[t] = bug[t][w]
      BY DEF Copies
    <3>4. ReadBefore(p, text)
      BY <1>10, <2>2, <3>1, <3>2, <3>3 DEF ReadBefore, Marking
    <3> QED BY <1>5, <1>8, <2>1, <2>2, <3>4 DEF Live
  <2> QED BY <2>1, <2>3, <2>4
<1>13. CASE Send(u)
  <2> DEFINE k == IF q.n = 0 THEN filed[q.t] + 1 ELSE q.n
             s == IF q.n = 0 THEN "save_bug" ELSE "mark"
  <2>1. /\ k \in Bugs /\ q.step = "send"
        /\ text' = [text EXCEPT ![q.t][k] = @ \cup DOMAIN q.copies]
        /\ p = [q EXCEPT !.n = k, !.step = s] /\ UNCHANGED <<waiver, bug>>
    BY <1>4, <1>13 DEF Send, Continue, At, waivingVars, waiverVars
  <2>2. p.step = s /\ Marking(p) /\ p.t = q.t /\ p.copies = q.copies
    BY <1>1, <2>1 DEF Reports, Marking
  <2> HIDE DEF k
  <2>3. \A t \in Trackers, n \in Bugs :
          text'[t][n] = IF t = q.t /\ n = k THEN text[t][n] \cup DOMAIN q.copies
                        ELSE text[t][n]
    BY <1>10, <2>1 DEF TableInv, ReqTypeOK
  <2>4. /\ \A w \in DOMAIN q.copies, n \in Bugs : w \notin text[q.t][n]
        /\ \A w \in DOMAIN q.copies, t \in Trackers \ {q.t}, n \in Bugs :
             w \in text[t][n] => q.copies[w].bug[t] # 0
    BY <1>5, <2>1 DEF ReadBefore
  <2>5. ASSUME NEW t \in Trackers, NEW m \in Bugs, NEW n \in Bugs, m # n
        PROVE  text'[t][m] \cap text'[t][n] = {}
    <3>1. text[t][m] \cap text[t][n] = {}
      BY <1>5, <2>5
    <3>2. ASSUME NEW w \in text'[t][m], w \in text'[t][n] PROVE FALSE
      <4>1. w \in text[t][m] \/ (t = q.t /\ m = k /\ w \in DOMAIN q.copies)
        BY <2>3
      <4>2. w \in text[t][n] \/ (t = q.t /\ n = k /\ w \in DOMAIN q.copies)
        BY <2>3, <3>2
      <4> QED BY <2>4, <2>5, <3>1, <4>1, <4>2
    <3> QED BY <3>2
  <2>6. ReadBefore(p, text')
    <3>1. ASSUME NEW w \in DOMAIN q.copies, NEW t \in Trackers \ {q.t}, NEW n \in Bugs,
                 w \in text'[t][n]
          PROVE  q.copies[w].bug[t] # 0
      BY <2>3, <2>4, <3>1
    <3>2. p.step # "send"
      BY <2>2
    <3> QED BY <2>2, <3>1, <3>2 DEF ReadBefore
  <2>7. ASSUME NEW t \in Trackers, NEW n \in Bugs, NEW w \in text'[t][n],
               waiver'[w].is_active /\ ~waiver'[w].is_deleted
        PROVE  bug'[t][w] # 0 \/ (Marking(p) /\ p.t = t /\ w \in DOMAIN p.copies)
    <3>1. CASE t = q.t /\ w \in DOMAIN q.copies
      BY <2>2, <3>1
    <3>2. CASE ~(t = q.t /\ w \in DOMAIN q.copies)
      <4>1. w \in text[t][n] /\ Live(w) /\ ~Marking(q)
        BY <2>1, <2>3, <2>7, <3>2 DEF Live, Marking
      <4> QED BY <1>9, <2>1, <4>1
    <3> QED BY <3>1, <3>2
  <2> QED BY <1>8, <2>5, <2>6, <2>7
<1>14. CASE SaveBug(u)
  <2>1. /\ p = [q EXCEPT !.step = "mark"] /\ q.step = "save_bug"
        /\ UNCHANGED <<text, waiver, bug>>
    BY <1>4, <1>14 DEF SaveBug, Goto, Continue, At, waivingVars, waiverVars
  <2>2. p.step = "mark" /\ Marking(p) /\ Marking(q) /\ p.t = q.t /\ p.copies = q.copies
    BY <1>1, <2>1 DEF Reports, Marking
  <2>3. ReadBefore(p, text)
    BY <1>5, <2>2 DEF ReadBefore
  <2> QED BY <1>5, <1>8, <1>9, <2>1, <2>2, <2>3 DEF Live
<1>15. CASE Mark(u)
  <2> DEFINE rest == Rest(DOMAIN q.copies)
             c    == [w \in DOMAIN q.copies \ rest |-> [q.copies[w] EXCEPT !.bug[q.t] = q.n]]
             d    == [w \in rest |-> q.copies[w]]
  <2>1. /\ SaveWaivers(c) /\ UNCHANGED text /\ q.step = "mark" /\ Marking(q)
        /\ \/ p = Idle /\ rest = {}
           \/ p = [q EXCEPT !.copies = d]
    BY <1>4, <1>15 DEF Mark, End, Continue, At, Marking
  <2>2. rest \subseteq DOMAIN q.copies
    BY DEF Rest
  <2>3. /\ q.n \in Bugs /\ 0 \notin Bugs
    BY <2>1 DEF TableInv, SentInv, SentTo, Bugs
  <2>4. DOMAIN q.copies \subseteq Waivers /\ \A w \in DOMAIN q.copies : q.copies[w] \in CopyRow
    BY <1>10 DEF CopySet
  <2>5. DOMAIN c = DOMAIN q.copies \ rest
        /\ \A w \in DOMAIN c, t \in Trackers :
             c[w].bug[t] = IF t = q.t THEN q.n ELSE q.copies[w].bug[t]
    BY <2>4 DEF CopyRow
  <2> HIDE DEF c, rest, q
  <2>6. \A w \in Waivers, t \in Trackers :
          /\ w \in DOMAIN c => bug'[t][w] = c[w].bug[t]
          /\ w \notin DOMAIN c => bug'[t][w] = bug[t][w] /\ waiver'[w] = waiver[w]
    BY <2>1 DEF SaveWaivers
  <2>7. ReadBefore(p, text) 
        /\ \/ p = Idle /\ rest = {}
           \/ Marking(p) /\ p.t = q.t /\ DOMAIN p.copies = rest
    <3>1. CASE p = Idle /\ rest = {}
      BY <1>11, <3>1
    <3>2. CASE p = [q EXCEPT !.copies = d]
      <4>1. p.step = "mark" /\ p.t = q.t /\ p.copies = d
        BY <1>1, <2>1, <3>2 DEF Reports
      <4>2. DOMAIN d = rest /\ \A w \in rest : d[w] = q.copies[w]
        OBVIOUS
      <4> HIDE DEF d
      <4> QED BY <1>5, <2>1, <2>2, <4>1, <4>2 DEF ReadBefore, Marking
    <3> QED BY <2>1, <3>1, <3>2
  <2>8. ASSUME NEW t \in Trackers, NEW n \in Bugs, NEW w \in text'[t][n],
               waiver'[w].is_active /\ ~waiver'[w].is_deleted
        PROVE  bug'[t][w] # 0 \/ (Marking(p) /\ p.t = t /\ w \in DOMAIN p.copies)
    <3>1. w \in text[t][n] /\ w \in Waivers
      BY <2>1 DEF TableInv, ReqTypeOK
    <3>2. CASE w \in DOMAIN c
      <4>1. CASE t = q.t
        BY <2>3, <2>5, <2>6, <3>1, <3>2, <4>1
      <4>2. CASE t # q.t
        BY <1>5, <2>1, <2>5, <2>6, <3>1, <3>2, <4>2 DEF ReadBefore
      <4> QED BY <4>1, <4>2
    <3>3. CASE w \notin DOMAIN c
      <4>1. Live(w) /\ bug'[t][w] = bug[t][w]
        BY <2>6, <2>8, <3>1, <3>3 DEF Live
      <4>2. bug[t][w] # 0 \/ (q.t = t /\ w \in DOMAIN q.copies)
        BY <1>9, <3>1, <4>1
      <4> QED BY <2>1, <2>5, <2>7, <3>3, <4>1, <4>2
    <3> QED BY <3>2, <3>3
  <2> QED BY <1>5, <1>8, <2>1, <2>7, <2>8
<1>16. Format(u) \/ Send(u) \/ SaveBug(u) \/ Mark(u)
  <2>1. ~At(u, "link") /\ q.step \notin PostSteps /\ q.step \notin RemoveSteps
    BY <1>1 DEF At, PostSteps, RemoveSteps, ReportSteps
  <2> QED BY <2>1 DEF Proceed, Deactivate, Insert, ReadScan, Apply, Finalize, FinishPost, Delete,
                      IsWaived, Reopen, Dispute, LinkChild, At, PostSteps, RemoveSteps
<1> QED BY <1>12, <1>13, <1>14, <1>15, <1>16

LEMMA OnceStays ==
  ASSUME TableInv, PostInv, OneReporting, OnceInv, [ReqNext]_reqVars
  PROVE  OnceInv'
<1>1. req \in [Slots -> Requests]
  BY DEF TableInv, ReqTypeOK
<1>2. ASSUME NEW u \in Slots, Arrive(u) PROVE OnceInv'
  BY <1>2, ArriveIsApart, ApartIsOnce
<1>3. ASSUME NEW u \in Slots, Proceed(u) PROVE OnceInv'
  BY <1>3, ReportIsOnce, PostOrRemovalIsApart, ApartIsOnce
<1>4. ASSUME NEW u \in Slots, Die(u) PROVE OnceInv'
  <2>1. /\ req' = [req EXCEPT ![u] = Idle] /\ UNCHANGED <<text, waiver, bug>>
        /\ ~contended' => ~contended /\ u \notin Reporting
    BY <1>4 DEF Die, waivingVars, waiverVars, bugVars
  <2>2. \A v \in Slots : req'[v] = req[v] \/ req'[v].step \notin {"send", "save_bug", "mark"}
    BY <1>1, <2>1 DEF Idle
  <2>3. ASSUME NEW v \in Slots, Marking(req[v]), ~contended' PROVE req'[v] = req[v]
    <3>1. v \in Reporting
      BY <2>3, StepTells DEF Marking, ReportSteps, Reporting, TableInv
    <3> QED BY <1>1, <2>1, <2>3, <3>1
  <2>4. Apart
    BY <2>1, <2>2, <2>3, ApartRows DEF Apart
  <2> QED BY <2>4, ApartIsOnce
<1>5. ASSUME UNCHANGED <<text, waiver, bug, req, contended>> PROVE OnceInv'
  <2>1. Apart
    BY <1>5, ApartRows DEF Apart
  <2> QED BY <2>1, ApartIsOnce
<1>6. ASSUME NEW defects \in Contents, NewResult(defects) PROVE OnceInv'
  BY <1>5, <1>6 DEF NewResult, FinishScan, CreateResult, Beside, bugVars, waiverVars
<1>7. ASSUME Abandon \/ UNCHANGED reqVars PROVE OnceInv'
  BY <1>5, <1>7 DEF Abandon, Beside, bugVars, waivingVars, waiverVars, reqVars, history
<1> QED BY <1>2, <1>3, <1>4, <1>6, <1>7 DEF ReqNext

(* No waiver is reported to a tracker twice, whatever users post, remove   *)
(* or supersede while a report is under way, as long as reports to the     *)
(* trackers neither overlap nor die.                                       *)
THEOREM WaiversReportedOnce == ReqSpec => []ReportedOnce
<1>1. ReqInit => OneReporting /\ OnceInv
  <2> SUFFICES ASSUME ReqInit PROVE OneReporting /\ OnceInv
    OBVIOUS
  <2>1. /\ req = [u \in Slots |-> Idle] /\ Reporting = {}
        /\ text = [t \in Trackers |-> [n \in Bugs |-> {}]]
    BY DEF ReqInit, Reporting, Idle
  <2>2. ReadBefore(Idle, text)
    BY DEF ReadBefore, Marking, Idle
  <2>3. \A u \in Slots : ReadBefore(req[u], text)
    BY <2>1, <2>2
  <2>4. LinkedOrMarking
    BY <2>1 DEF LinkedOrMarking
  <2>5. \A t \in Trackers, m, n \in Bugs : text[t][m] \cap text[t][n] = {}
    BY <2>1
  <2> QED BY <2>1, <2>3, <2>4, <2>5 DEF OneReporting, OnceInv
<1>2. (TableInv /\ PostInv) /\ OneReporting /\ OnceInv /\ [ReqNext]_reqVars
        => (OneReporting /\ OnceInv)'
  BY OneReportingStays, OnceStays
<1>3. OnceInv => ReportedOnce
  BY DEF OnceInv, ReportedOnce
<1> QED BY <1>1, <1>2, <1>3, TablesAreSound, PTL DEF ReqSpec

-----------------------------------------------------------------------------
(* A request that is alone in the hub is one step of Waiving, which takes  *)
(* place when it ends.  What the tables are meanwhile follows from those   *)
(* it began with, b, and from how far it is.                               *)

RowsIn(b, r, g) == {w \in Waivers : b.waiver[w].result = r /\ b.waiver[w].group = g}

LiveIn(b, r, g) ==
  {w \in RowsIn(b, r, g) : b.waiver[w].is_active /\ ~b.waiver[w].is_deleted}

(* The columns that a post leaves, at its steps.                           *)
RowsReplaced(b, q) ==
  IF q.kind = "COMMENT" THEN b.waiver
  ELSE [w \in Waivers |-> IF w \in Latest(RowsIn(b, q.r, q.g))
                          THEN [b.waiver[w] EXCEPT !.is_active = FALSE]
                          ELSE b.waiver[w]]

RowsPosted(b, q) ==
  [RowsReplaced(b, q) EXCEPT ![b.waivers + 1] =
     [result |-> q.r, group |-> q.g, kind |-> q.kind,
      is_active |-> q.kind # "COMMENT", is_deleted |-> FALSE]]

GroupsPosted(b, q) ==
  [b.group[q.r] EXCEPT ![q.g] = IF q.kind = "IS_A_BUG" THEN "CONTAINS_BUG" ELSE "WAIVED"]

StatePosted(b, q) ==
  [b.state EXCEPT ![q.r] =
     IF Unwaived(GroupsPosted(b, q)) = {} THEN Finalized(GroupsPosted(b, q)) ELSE @]

SameResults(b, t) == t.results = b.results /\ t.attached = b.attached /\ t.found = b.found

AlonePost(q, b, t) ==
  /\ SameResults(b, t)
  /\ q.r \in b.attached /\ b.group[q.r][q.g] # "ABSENT" /\ q.seen = b.group[q.r][q.g]
  /\ b.waivers \in Nat /\ b.waivers < MaxWaivers
  /\ t.waivers = IF q.step \in {"deactivate", "insert"} THEN b.waivers ELSE b.waivers + 1
  /\ q.step = "deactivate" =>
       /\ t.waiver = b.waiver /\ q.kind # "COMMENT"
       /\ DOMAIN q.copies = Latest(RowsIn(b, q.r, q.g))
       /\ \A w \in DOMAIN q.copies : q.copies[w].waiver = b.waiver[w]
  /\ q.step = "insert" => t.waiver = RowsReplaced(b, q)
  /\ q.step \notin {"deactivate", "insert"} => t.waiver = RowsPosted(b, q)
  /\ q.step \in {"apply", "finalize"} => q.kind # "COMMENT"
  /\ t.group = IF q.step \in {"finalize", "save_scan"} /\ q.kind # "COMMENT"
               THEN [b.group EXCEPT ![q.r] = GroupsPosted(b, q)] ELSE b.group
  /\ t.state = IF q.step = "save_scan" /\ q.kind # "COMMENT"
               THEN StatePosted(b, q) ELSE b.state
  /\ q.step \in {"apply", "finalize", "save_scan"} => q.scan.state = t.state[q.r]

Removing(q, b, t, w) ==
  /\ w <= b.waivers /\ q.r \in b.attached
  /\ b.waiver[w].result = q.r /\ b.waiver[w].group = q.g /\ b.waiver[w].kind = q.kind
  /\ IF q.step = "delete"
     THEN t.waiver = b.waiver /\ DOMAIN q.copies = {w} /\ q.copies[w].waiver = b.waiver[w]
     ELSE t.waiver = [b.waiver EXCEPT ![w].is_deleted = TRUE]

AloneRemoval(q, b, t) ==
  /\ SameResults(b, t) /\ t.waivers = b.waivers /\ t.state = b.state
  /\ b.waiver \in [Waivers -> WaiverRow]
  /\ t.group = IF q.step = "dispute" THEN [b.group EXCEPT ![q.r][q.g] = "NEEDS_INSPECTION"]
               ELSE b.group
  /\ q.step # "delete" => q.kind # "COMMENT"
  /\ q.step \in {"reopen", "dispute"} => b.state[q.r] = "WAIVED"
  /\ q.step = "dispute" => LiveIn(t, q.r, q.g) = {}
  /\ \E w \in Waivers : Removing(q, b, t, w)

AloneReport(q, b, t) ==
  /\ t = b
  /\ q.step # "format" => \A w \in DOMAIN q.copies : q.copies[w].waiver = t.waiver[w]

AloneSubmission(q, b, t) ==
  /\ t = b
  /\ \A r \in q.child : q.scan[r].state = t.state[r]

AloneIs(q, b, t) ==
  /\ q.op = "post"   => AlonePost(q, b, t)
  /\ q.op = "remove" => AloneRemoval(q, b, t)
  /\ q.op = "report" => AloneReport(q, b, t)
  /\ q.op = "submit" => AloneSubmission(q, b, t)

AloneInv == ~disturbed => \A u \in Slots : AloneIs(req[u], before, Tables)

(* What the tables show while a request begins, goes on and ends.          *)
LEMMA ShownInFlight ==
  ASSUME TableInv, OneBusy, ~disturbed, NEW u \in Slots, Proceed(u)
  PROVE  /\ Shown = before /\ disturbed' = disturbed /\ before' = before
         /\ \A v \in Slots \ {u} : req[v] = Idle
         /\ req' = [req EXCEPT ![u] = Idle] => Shown' = Tables'
         /\ req'[u].op # "none" => Shown' = Shown
<1>1. u \in Busy /\ \A v \in Slots \ {u} : req[v] = Idle
  BY ProceedIsBusy, StepTells DEF OneBusy, Busy, TableInv
<1>2. PICK p : Continue(u, p)
  BY ProceedKeeps
<1>3. disturbed' = disturbed /\ before' = before
  BY <1>2 DEF Continue, history
<1>4. req \in [Slots -> Requests]
  BY DEF TableInv, ReqTypeOK
<1>5. Shown = before
  BY <1>1 DEF Shown
<1>6. ASSUME req' = [req EXCEPT ![u] = Idle] PROVE Shown' = Tables'
  <2>1. Busy' = {}
    BY <1>1, <1>4, <1>6 DEF Busy, Idle
  <2> QED BY <2>1 DEF Shown
<1>7. ASSUME req'[u].op # "none" PROVE Shown' = Shown
  <2>1. Busy' # {}
    BY <1>7 DEF Busy
  <2> QED BY <1>3, <1>5, <2>1 DEF Shown
<1> QED BY <1>1, <1>3, <1>5, <1>6, <1>7

LEMMA ShownAtArrival ==
  ASSUME TableInv, NEW u \in Slots, NEW q, Begin(u, q), q.op # "none", ~disturbed',
         UNCHANGED waivingVars
  PROVE  /\ Shown' = Shown /\ before' = Tables /\ Tables' = Tables
         /\ req'[u] = q /\ \A v \in Slots \ {u} : req'[v] = Idle
<1>1. Busy = {} /\ before' = Tables /\ req' = [req EXCEPT ![u] = q]
  BY DEF Begin
<1>2. req \in [Slots -> Requests] /\ \A v \in Slots : req[v] = Idle
  BY <1>1, StepTells DEF TableInv, ReqTypeOK, Busy
<1>3. req'[u] = q /\ \A v \in Slots \ {u} : req'[v] = Idle
  BY <1>1, <1>2
<1>4. Busy' # {}
  BY <1>3 DEF Busy
<1>5. Tables' = Tables
  BY DEF Tables, waivingVars
<1> QED BY <1>1, <1>3, <1>4, <1>5 DEF Shown

LEMMA AloneAtArrival ==
  ASSUME TableInv, NEW u \in Slots, Arrive(u), ~disturbed'
  PROVE  AloneInv' /\ UNCHANGED Shown
<1>1. ASSUME NEW q, Begin(u, q), q.op # "none", UNCHANGED waivingVars, AloneIs(q, Tables, Tables)
      PROVE  AloneInv' /\ UNCHANGED Shown
  <2>1. /\ Shown' = Shown /\ before' = Tables /\ Tables' = Tables
        /\ req'[u] = q /\ \A v \in Slots \ {u} : req'[v] = Idle
    BY <1>1, ShownAtArrival
  <2>2. AloneIs(Idle, Tables, Tables)
    BY DEF AloneIs, Idle
  <2>3. \A v \in Slots : AloneIs(req'[v], before', Tables')
    BY <1>1, <2>1, <2>2
  <2> QED BY <2>1, <2>3 DEF AloneInv
<1>2. /\ waivers \in 0 .. MaxWaivers /\ waivers \in Nat
      /\ waiver \in [Waivers -> WaiverRow]
  BY DEF TableInv, ReqTypeOK, TypeOK, WaiverRow
<1>3. /\ Tables.results = results /\ Tables.attached = attached /\ Tables.state = state
      /\ Tables.found = found /\ Tables.group = group /\ Tables.waivers = waivers
      /\ Tables.waiver = waiver
  BY DEF Tables
<1>4. \A r, g : RowsOf(r, g) = RowsIn(Tables, r, g)
  BY <1>3 DEF RowsOf, RowsIn
<1>5. IsFiniteSet(Inserting) /\ Cardinality(Inserting) \in Nat
  BY SlotsAreFinite DEF Inserting
<1>6. ASSUME NEW r \in Results, NEW g \in Groups, NEW kind \in Kinds \cup {"COMMENT"},
             NEW step \in {"deactivate", "insert"}, NEW W,
             Post(u, r, g, kind, step, Copies(W)),
             step = "insert" => kind = "COMMENT",
             step = "deactivate" => kind # "COMMENT" /\ W = Latest(RowsOf(r, g))
      PROVE  AloneInv' /\ UNCHANGED Shown
  <2> DEFINE q == [op |-> "post", step |-> step, r |-> r, g |-> g, kind |-> kind,
                   seen |-> group[r][g], copies |-> Copies(W), scan |-> Unread]
  <2>1. /\ Begin(u, q) /\ UNCHANGED waivingVars /\ r \in attached /\ group[r][g] # "ABSENT"
        /\ waivers < MaxWaivers
    BY <1>2, <1>5, <1>6 DEF Post
  <2>2. /\ q.op = "post" /\ q.step = step /\ q.r = r /\ q.g = g /\ q.kind = kind
        /\ q.seen = group[r][g] /\ q.copies = Copies(W)
    OBVIOUS
  <2> HIDE DEF q
  <2>3. DOMAIN Copies(W) = W /\ \A w \in W : Copies(W)[w].waiver = waiver[w]
    BY DEF Copies
  <2>4. step = "insert" => waiver = RowsReplaced(Tables, q)
    BY <1>3, <1>6, <2>2 DEF RowsReplaced
  <2>5. AlonePost(q, Tables, Tables)
    BY <1>2, <1>3, <1>4, <1>6, <2>1, <2>2, <2>3, <2>4 DEF AlonePost, SameResults
  <2> QED BY <1>1, <2>1, <2>2, <2>5 DEF AloneIs
<1>7. ASSUME NEW w \in Waivers, StartRemove(u, w) PROVE AloneInv' /\ UNCHANGED Shown
  <2> DEFINE q == [op |-> "remove", step |-> "delete", r |-> waiver[w].result,
                   g |-> waiver[w].group, kind |-> waiver[w].kind, copies |-> Copies({w}),
                   scan |-> Unread]
  <2>1. Begin(u, q) /\ UNCHANGED waivingVars /\ w <= waivers /\ waiver[w].result \in attached
    BY <1>7 DEF StartRemove
  <2>2. /\ q.op = "remove" /\ q.step = "delete" /\ q.r = waiver[w].result
        /\ q.g = waiver[w].group /\ q.kind = waiver[w].kind /\ q.copies = Copies({w})
    OBVIOUS
  <2> HIDE DEF q
  <2>3. DOMAIN Copies({w}) = {w} /\ Copies({w})[w].waiver = waiver[w]
    BY DEF Copies
  <2>4. Removing(q, Tables, Tables, w)
    BY <1>3, <2>1, <2>2, <2>3 DEF Removing
  <2>5. AloneRemoval(q, Tables, Tables)
    BY <1>2, <1>3, <2>2, <2>4 DEF AloneRemoval, SameResults
  <2> QED BY <1>1, <2>1, <2>2, <2>5 DEF AloneIs
<1>8. ASSUME NEW t \in Trackers, NEW n \in Bugs \cup {0}, StartReport(u, t, n)
      PROVE  AloneInv' /\ UNCHANGED Shown
  <2> DEFINE q == [op |-> "report", step |-> "format", t |-> t, n |-> n,
                   ids |-> Decisions, copies |-> Copies({})]
  <2>1. Begin(u, q) /\ UNCHANGED waivingVars
    BY <1>8 DEF StartReport
  <2>2. q.op = "report" /\ q.step = "format"
    OBVIOUS
  <2> HIDE DEF q
  <2> QED BY <1>1, <2>1, <2>2 DEF AloneIs, AloneReport
<1>9. ASSUME StartSubmit(u) PROVE AloneInv' /\ UNCHANGED Shown
  <2> DEFINE R == Latest(attached)
             q == [op |-> "submit", step |-> "link", child |-> R,
                   scan |-> [r \in R |-> ScanRow(r)]]
  <2>1. Begin(u, q) /\ UNCHANGED waivingVars
    BY <1>9 DEF StartSubmit
  <2>2. q.op = "submit" /\ q.child = R /\ \A r \in R : q.scan[r].state = state[r]
    BY DEF ScanRow
  <2> HIDE DEF q, R
  <2> QED BY <1>1, <1>3, <2>1, <2>2 DEF AloneIs, AloneSubmission
<1>10. ASSUME NEW r \in Results, NEW g \in Groups, StartComment(u, r, g)
       PROVE  AloneInv' /\ UNCHANGED Shown
  BY <1>6, <1>10 DEF StartComment
<1>11. ASSUME NEW r \in Results, NEW g \in Groups, NEW kind \in Kinds,
              StartWaiver(u, r, g, kind)
       PROVE  AloneInv' /\ UNCHANGED Shown
  <2>1. kind # "COMMENT"
    BY DEF WAIVERS_ONLY
  <2> QED BY <1>6, <1>11, <2>1 DEF StartWaiver
<1> QED BY <1>7, <1>8, <1>9, <1>10, <1>11 DEF Arrive


(* The columns of the tables, now and after the step.                      *)
LEMMA TablesAre ==
  /\ Tables.results = results /\ Tables.attached = attached /\ Tables.state = state
  /\ Tables.found = found /\ Tables.group = group /\ Tables.waivers = waivers
  /\ Tables.waiver = waiver
  /\ Tables'.results = results' /\ Tables'.attached = attached' /\ Tables'.state = state'
  /\ Tables'.found = found' /\ Tables'.group = group' /\ Tables'.waivers = waivers'
  /\ Tables'.waiver = waiver'
  BY DEF Tables

(* A post that ends is PostComment or PostWaiver.                          *)
LEMMA PostIsOne ==
  ASSUME NEW b, Shown = b, Shown' = Tables', NEW q \in Posts, q.step = "save_scan",
         AlonePost(q, b, Tables')
  PROVE  Alone!Next
<1> DEFINE r == q.r
           g == q.g
<1>1. q.r \in Results /\ q.g \in Groups /\ q.kind \in Kinds \cup {"COMMENT"}
  BY DEF Posts
<1> DEFINE t == Tables'
<1>2. /\ Shown.results = b.results /\ Shown.attached = b.attached /\ Shown.state = b.state
      /\ Shown.found = b.found /\ Shown.group = b.group /\ Shown.waivers = b.waivers
      /\ Shown.waiver = b.waiver /\ Shown' = t
  OBVIOUS
<1> HIDE DEF t
<1>3. /\ SameResults(b, t)
      /\ q.r \in b.attached /\ b.group[q.r][q.g] # "ABSENT" /\ b.waivers < MaxWaivers
      /\ t.waivers = b.waivers + 1 /\ t.waiver = RowsPosted(b, q)
      /\ q.kind = "COMMENT" => t.group = b.group /\ t.state = b.state
      /\ q.kind # "COMMENT" => /\ t.group = [b.group EXCEPT ![q.r] = GroupsPosted(b, q)]
                               /\ t.state = StatePosted(b, q)
  BY DEF AlonePost, t
<1>4. UNCHANGED <<Shown.results, Shown.attached, Shown.found>>
  BY <1>2, <1>3 DEF SameResults
<1>5. \A W : Alone!Latest(W) = Latest(W)
  BY DEF Alone!Latest, Latest
<1>6. Alone!RowsOf(q.r, q.g) = RowsIn(b, q.r, q.g)
  BY <1>2 DEF Alone!RowsOf, RowsIn, Alone!Waivers, Waivers
<1>7. CASE q.kind = "COMMENT"
  <2>1. t.waiver = Alone!Add(b.waiver, q.r, q.g, "COMMENT", FALSE)
    BY <1>2, <1>3, <1>7 DEF RowsPosted, RowsReplaced, Alone!Add
  <2>2. Alone!PostComment(q.r, q.g)
    BY <1>2, <1>3, <1>4, <1>7, <2>1 DEF Alone!PostComment, Alone!resultVars
  <2> QED BY <1>1, <2>2 DEF Alone!Next, Alone!Results, Results
<1>8. CASE q.kind # "COMMENT"
  <2>1. RowsReplaced(b, q) = Alone!Deactivated(q.r, q.g)
    BY <1>2, <1>5, <1>6, <1>8 DEF RowsReplaced, Alone!Deactivated, Alone!Waivers, Waivers
  <2>2. t.waiver = Alone!Add(Alone!Deactivated(q.r, q.g), q.r, q.g, q.kind, TRUE)
    BY <1>2, <1>3, <1>8, <2>1 DEF RowsPosted, Alone!Add
  <2> DEFINE gs == [Shown.group[q.r] EXCEPT ![q.g] = IF q.kind = "IS_A_BUG" THEN "CONTAINS_BUG"
                                                                     ELSE "WAIVED"]
  <2>3. gs = GroupsPosted(b, q)
    BY <1>2 DEF GroupsPosted
  <2>4. Alone!Unwaived(gs) = Unwaived(gs) /\ Alone!Finalized(gs) = Finalized(gs)
    BY DEF Alone!Unwaived, Unwaived, Alone!Finalized, Finalized, Alone!HasBugs, HasBugs
  <2>5. t.group = [Shown.group EXCEPT ![q.r] = gs]
    BY <1>2, <1>3, <1>8, <2>3
  <2>6. t.state = [Shown.state EXCEPT ![q.r] = IF Alone!Unwaived(gs) = {} THEN Alone!Finalized(gs)
                                              ELSE @]
    BY <1>2, <1>3, <1>8, <2>3, <2>4 DEF StatePosted
  <2>7. Alone!PostWaiver(q.r, q.g, q.kind)
    BY <1>2, <1>3, <1>4, <2>2, <2>5, <2>6 DEF Alone!PostWaiver, Alone!resultVars
  <2> QED BY <1>1, <1>8, <2>7 DEF Alone!Next, Alone!Results, Results
<1> QED BY <1>7, <1>8

(* The steps of a request are those of its handler.                        *)
LEMMA OneHandler ==
  ASSUME ReqTypeOK, NEW u \in Slots, Proceed(u)
  PROVE  /\ req[u].op = "post" =>
              \/ Deactivate(u) \/ Insert(u) \/ ReadScan(u)
              \/ Apply(u) \/ Finalize(u) \/ FinishPost(u)
         /\ req[u].op = "remove" => Delete(u) \/ IsWaived(u) \/ Reopen(u) \/ Dispute(u)
         /\ req[u].op = "report" => Format(u) \/ Send(u) \/ SaveBug(u) \/ Mark(u)
         /\ req[u].op = "submit" => LinkChild(u)
         /\ req[u].op \in {"post", "remove", "report", "submit"}
<1> DEFINE s == req[u].step
<1>1. /\ Deactivate(u) => s \in PostSteps
      /\ Insert(u) => s \in PostSteps
      /\ ReadScan(u) => s \in PostSteps
      /\ Apply(u) => s \in PostSteps
      /\ Finalize(u) => s \in PostSteps
      /\ FinishPost(u) => s \in PostSteps
  BY DEF Deactivate, Insert, ReadScan, Apply, Finalize, FinishPost, At, PostSteps
<1>2. /\ Delete(u) => s \in RemoveSteps
      /\ IsWaived(u) => s \in RemoveSteps
      /\ Reopen(u) => s \in RemoveSteps
      /\ Dispute(u) => s \in RemoveSteps
  BY DEF Delete, IsWaived, Reopen, Dispute, At, RemoveSteps
<1>3. /\ Format(u) => s \in ReportSteps
      /\ Send(u) => s \in ReportSteps
      /\ SaveBug(u) => s \in ReportSteps
      /\ Mark(u) => s \in ReportSteps
  BY DEF Format, Send, SaveBug, Mark, At, ReportSteps
<1>4. LinkChild(u) => s = "link"
  BY DEF LinkChild, At
<1>5. /\ req[u].op = "post"   <=> s \in PostSteps
      /\ req[u].op = "remove" <=> s \in RemoveSteps
      /\ req[u].op = "report" <=> s \in ReportSteps
      /\ req[u].op = "submit" <=> s = "link"
  BY StepTells
<1> HIDE DEF s
<1> QED BY <1>1, <1>2, <1>3, <1>4, <1>5 DEF Proceed

LEMMA PostGoesOnAlone ==
  ASSUME TableInv, NEW u \in Slots, Proceed(u), req[u].op = "post",
         NEW b, AlonePost(req[u], b, Tables), NEW p, req' = [req EXCEPT ![u] = p]
  PROVE  \/ p = Idle /\ req[u].step = "save_scan" /\ AlonePost(req[u], b, Tables')
         \/ p.op = "post" /\ AlonePost(p, b, Tables')
<1> DEFINE q == req[u]
<1>1. q \in Posts /\ q.step \in PostSteps /\ \A x : req' = [req EXCEPT ![u] = x] => x = p
  BY StepTells DEF TableInv, ReqTypeOK
<1>2. q.copies \in CopySet /\ q.r \in Results /\ q.g \in Groups
      /\ q.kind \in Kinds \cup {"COMMENT"} /\ q.scan \in ScanRows
  BY <1>1 DEF Posts
<1>3. /\ group \in [Results -> [Groups -> GroupStates]] /\ state \in [Results -> ScanStates]
      /\ waiver \in [Waivers -> WaiverRow] /\ waivers \in 0 .. MaxWaivers
  BY DEF TableInv, ReqTypeOK, TypeOK, WaiverRow
<1> HIDE DEF q
<1>4. /\ SameResults(b, Tables)
      /\ q.r \in b.attached /\ b.group[q.r][q.g] # "ABSENT" /\ q.seen = b.group[q.r][q.g]
      /\ b.waivers \in Nat /\ b.waivers < MaxWaivers
  BY DEF AlonePost, q
<1>5. CASE Deactivate(u)
  <2> DEFINE c == [w \in DOMAIN q.copies |-> [q.copies[w] EXCEPT !.waiver.is_active = FALSE]]
  <2>1. /\ SaveWaivers(c) /\ p = [q EXCEPT !.step = "insert"] /\ q.step = "deactivate"
        /\ UNCHANGED <<results, attached, found, waivers, state, group>>
    BY <1>1, <1>5 DEF Deactivate, Goto, Continue, At, resultVars, q
  <2>2. /\ waivers = b.waivers /\ waiver = b.waiver /\ q.kind # "COMMENT"
        /\ DOMAIN q.copies = Latest(RowsIn(b, q.r, q.g))
        /\ \A w \in DOMAIN q.copies : q.copies[w].waiver = b.waiver[w]
        /\ group = b.group /\ state = b.state
    BY <2>1, TablesAre DEF AlonePost, q
  <2>3. \A w \in DOMAIN q.copies : /\ w \in DOMAIN c
                                   /\ c[w].waiver = [b.waiver[w] EXCEPT !.is_active = FALSE]
    <3>1. \A w \in DOMAIN q.copies : q.copies[w] \in CopyRow
      BY <1>2 DEF CopySet
    <3>2. \A x \in CopyRow : [x EXCEPT !.waiver.is_active = FALSE].waiver
                               = [x.waiver EXCEPT !.is_active = FALSE]
      BY DEF CopyRow
    <3> QED BY <2>2, <3>1, <3>2
  <2>4. DOMAIN c = DOMAIN q.copies
    OBVIOUS
  <2> HIDE DEF c
  <2>5. waiver' = [w \in Waivers |-> IF w \in DOMAIN q.copies
                                     THEN [b.waiver[w] EXCEPT !.is_active = FALSE]
                                     ELSE b.waiver[w]]
    BY <2>1, <2>2, <2>3, <2>4 DEF SaveWaivers
  <2>6. /\ p.op = "post" /\ p.step = "insert" /\ p.r = q.r /\ p.g = q.g /\ p.kind = q.kind
        /\ p.seen = q.seen
    BY <1>1, <2>1 DEF Posts
  <2>7. waiver' = RowsReplaced(b, p)
    BY <2>2, <2>5, <2>6 DEF RowsReplaced
  <2>8. AlonePost(p, b, Tables')
    BY <1>4, <2>1, <2>2, <2>6, <2>7, TablesAre DEF AlonePost, SameResults
  <2> QED BY <2>6, <2>8
<1>6. CASE Insert(u)
  <2>1. /\ waivers' = waivers + 1 /\ waiver' = Add(waiver, q.r, q.g, q.kind, q.kind # "COMMENT")
        /\ p = [q EXCEPT !.step = "read_scan", !.copies = Copies({})] /\ q.step = "insert"
        /\ UNCHANGED <<results, attached, found, state, group>>
    BY <1>1, <1>6 DEF Insert, Continue, At, resultVars, q
  <2>2. waivers = b.waivers /\ waiver = RowsReplaced(b, q) /\ group = b.group /\ state = b.state
    BY <2>1, TablesAre DEF AlonePost, q
  <2>3. /\ p.op = "post" /\ p.step = "read_scan" /\ p.r = q.r /\ p.g = q.g /\ p.kind = q.kind
        /\ p.seen = q.seen
    BY <1>1, <2>1 DEF Posts
  <2>4. waiver' = RowsPosted(b, p)
    BY <2>1, <2>2, <2>3 DEF Add, RowsPosted, RowsReplaced
  <2>5. AlonePost(p, b, Tables')
    BY <1>4, <2>1, <2>2, <2>3, <2>4, TablesAre DEF AlonePost, SameResults
  <2> QED BY <2>3, <2>5
<1>7. CASE ReadScan(u)
  <2> DEFINE s == IF q.kind = "COMMENT" THEN "save_scan" ELSE "apply"
  <2>1. /\ p = [q EXCEPT !.scan = ScanRow(q.r), !.step = s] /\ q.step = "read_scan"
        /\ UNCHANGED <<results, attached, found, state, waivers, waiver>>
        /\ group' = group \/ group' = [group EXCEPT ![q.r][q.g] = q.seen]
    BY <1>1, <1>7 DEF ReadScan, Continue, At, resultVars, waiverVars, q
  <2>2. /\ waivers = b.waivers + 1 /\ waiver = RowsPosted(b, q)
        /\ group = b.group /\ state = b.state
    BY <2>1, TablesAre DEF AlonePost, q
  <2>3. group' = group
    <3>1. [group EXCEPT ![q.r][q.g] = group[q.r][q.g]] = group
      BY <1>2, <1>3
    <3> QED BY <1>4, <2>1, <2>2, <3>1
  <2>4. /\ p.op = "post" /\ p.step = s /\ p.r = q.r /\ p.g = q.g /\ p.kind = q.kind
        /\ p.seen = q.seen /\ p.scan.state = state[q.r]
    BY <1>1, <2>1 DEF Posts, ScanRow
  <2>5. waiver' = RowsPosted(b, p)
    BY <2>1, <2>2, <2>4 DEF RowsPosted, RowsReplaced
  <2>6. AlonePost(p, b, Tables')
    BY <1>4, <2>1, <2>2, <2>3, <2>4, <2>5, TablesAre DEF AlonePost, SameResults
  <2> QED BY <2>4, <2>6
<1>8. CASE Apply(u)
  <2> DEFINE st == IF q.kind = "IS_A_BUG" THEN "CONTAINS_BUG" ELSE "WAIVED"
  <2>1. /\ q.step = "apply"
        /\ UNCHANGED <<results, attached, found, state, waivers, waiver>>
    BY <1>8 DEF Apply, At, resultVars, waiverVars, q
  <2>2. /\ waivers = b.waivers + 1 /\ waiver = RowsPosted(b, q) /\ q.kind # "COMMENT"
        /\ group = b.group /\ state = b.state /\ q.scan.state = state[q.r]
    BY <2>1, TablesAre DEF AlonePost, q
  <2>3. LiveOf(q.r, q.g) # {}
    <3>1. b.waivers + 1 \in Waivers
      BY <1>4 DEF Waivers
    <3>2. waiver[b.waivers + 1] = [result |-> q.r, group |-> q.g, kind |-> q.kind,
                                   is_active |-> TRUE, is_deleted |-> FALSE]
      BY <2>2, <3>1 DEF RowsPosted, RowsReplaced
    <3>3. b.waivers + 1 \in LiveOf(q.r, q.g)
      BY <3>1, <3>2 DEF LiveOf, RowsOf, Live
    <3> QED BY <3>3
  <2>4. p = [q EXCEPT !.step = "finalize"] /\ group' = [group EXCEPT ![q.r][q.g] = st]
    BY <1>1, <1>8, <2>3 DEF Apply, Goto, Continue, q
  <2>5. /\ p.op = "post" /\ p.step = "finalize" /\ p.r = q.r /\ p.g = q.g /\ p.kind = q.kind
        /\ p.seen = q.seen /\ p.scan = q.scan
    BY <1>1, <2>4 DEF Posts
  <2>6. waiver' = RowsPosted(b, p)
    BY <2>1, <2>2, <2>5 DEF RowsPosted, RowsReplaced
  <2>7. group' = [b.group EXCEPT ![p.r] = GroupsPosted(b, p)]
    BY <2>2, <2>4, <2>5 DEF GroupsPosted
  <2>8. AlonePost(p, b, Tables')
    BY <1>4, <2>1, <2>2, <2>5, <2>6, <2>7, TablesAre DEF AlonePost, SameResults
  <2> QED BY <2>5, <2>8
<1>9. CASE Finalize(u)
  <2> DEFINE gs  == GroupsPosted(b, q)
             row == [q.scan EXCEPT !.state = Finalized(group[q.r])]
  <2>1. /\ q.step = "finalize"
        /\ UNCHANGED <<results, attached, found, group, waivers, waiver>>
        /\ IF Unwaived(group[q.r]) = {}
           THEN SaveScan(q.r, row) /\ p = [q EXCEPT !.scan = row, !.step = "save_scan"]
           ELSE p = [q EXCEPT !.step = "save_scan"] /\ UNCHANGED state
    BY <1>1, <1>9 DEF Finalize, Goto, Continue, At, resultVars, waiverVars, q
  <2>2. /\ waivers = b.waivers + 1 /\ waiver = RowsPosted(b, q) /\ q.kind # "COMMENT"
        /\ group = [b.group EXCEPT ![q.r] = gs] /\ state = b.state
        /\ q.scan.state = state[q.r]
    BY <2>1, TablesAre DEF AlonePost, q
  <2>3. group[q.r] = gs
    <3>1. DOMAIN b.group = DOMAIN group
      BY <2>2
    <3>2. q.r \in DOMAIN b.group
      BY <1>2, <1>3, <3>1
    <3> QED BY <2>2, <3>2
  <2>4. /\ p.op = "post" /\ p.step = "save_scan" /\ p.r = q.r /\ p.g = q.g /\ p.kind = q.kind
        /\ p.seen = q.seen
        /\ p.scan.state = IF Unwaived(gs) = {} THEN Finalized(gs) ELSE q.scan.state
    <3> HIDE DEF gs
    <3>1. row.state = Finalized(gs)
      BY <1>2, <2>3 DEF ScanRows
    <3> HIDE DEF row
    <3> QED BY <1>1, <2>1, <2>3, <3>1 DEF Posts
  <2>5. state' = StatePosted(b, p) /\ p.scan.state = state'[q.r]
    <3>1. GroupsPosted(b, p) = gs
      BY <2>4 DEF GroupsPosted
    <3> HIDE DEF gs
    <3>2. CASE Unwaived(gs) = {}
      <4>1. state' = [state EXCEPT ![q.r] = Finalized(gs)]
        BY <1>2, <2>1, <2>3, <3>2 DEF SaveScan, ScanRows
      <4> QED BY <1>2, <1>3, <2>2, <2>4, <3>1, <3>2, <4>1 DEF StatePosted
    <3>3. CASE Unwaived(gs) # {}
      <4>1. state' = state /\ state = [state EXCEPT ![q.r] = state[q.r]]
        BY <1>2, <1>3, <2>1, <2>3, <3>3
      <4> QED BY <2>2, <2>4, <3>1, <3>3, <4>1 DEF StatePosted
    <3> QED BY <3>2, <3>3
  <2>6. waiver' = RowsPosted(b, p) /\ GroupsPosted(b, p) = gs
    BY <2>1, <2>2, <2>4 DEF RowsPosted, RowsReplaced, GroupsPosted
  <2> HIDE DEF gs, row
  <2>7. AlonePost(p, b, Tables')
    BY <1>4, <2>1, <2>2, <2>4, <2>5, <2>6, TablesAre DEF AlonePost, SameResults
  <2> QED BY <2>4, <2>7
<1>10. CASE FinishPost(u)
  <2>1. /\ q.step = "save_scan" /\ p = Idle /\ SaveScan(q.r, q.scan)
        /\ UNCHANGED <<results, attached, found, group, waivers, waiver>>
    BY <1>1, <1>10 DEF FinishPost, End, Continue, At, resultVars, waiverVars, q
  <2>2. q.scan.state = state[q.r]
    BY <2>1, TablesAre DEF AlonePost, q
  <2>3. state' = state
    BY <1>2, <1>3, <2>1, <2>2 DEF SaveScan
  <2>4. Tables' = Tables
    BY <2>1, <2>3 DEF Tables
  <2>5. AlonePost(q, b, Tables')
    BY <2>1, <2>3, TablesAre DEF AlonePost, SameResults, q
  <2> QED BY <2>1, <2>5 DEF q
<1>11. \/ Deactivate(u) \/ Insert(u) \/ ReadScan(u)
       \/ Apply(u) \/ Finalize(u) \/ FinishPost(u)
  BY OneHandler DEF TableInv
<1> QED BY <1>5, <1>6, <1>7, <1>8, <1>9, <1>10, <1>11

(* A waiver that is deleted is the only one that is not in force any more. *)
LEMMA DeletedIsNotLive ==
  ASSUME NEW b, NEW t, NEW w \in Waivers, b.waiver \in [Waivers -> WaiverRow],
         t.waiver = [b.waiver EXCEPT ![w].is_deleted = TRUE], NEW r, NEW g
  PROVE  LiveIn(t, r, g) = {} <=> LiveIn(b, r, g) \subseteq {w}
<1>1. \A x \in WaiverRow :
        /\ [x EXCEPT !.is_deleted = TRUE].result = x.result
        /\ [x EXCEPT !.is_deleted = TRUE].group = x.group
        /\ [x EXCEPT !.is_deleted = TRUE].is_deleted
  BY DEF WaiverRow
<1>2. \A v \in Waivers : t.waiver[v] = IF v = w THEN [b.waiver[w] EXCEPT !.is_deleted = TRUE]
                                       ELSE b.waiver[v]
  OBVIOUS
<1>3. ASSUME NEW v \in Waivers
      PROVE  v \in LiveIn(t, r, g) <=> v \in LiveIn(b, r, g) /\ v # w
  BY <1>1, <1>2 DEF LiveIn, RowsIn
<1>4. LiveIn(t, r, g) \subseteq Waivers /\ LiveIn(b, r, g) \subseteq Waivers
  BY DEF LiveIn, RowsIn
<1> QED BY <1>3, <1>4

(* A removal that ends is RemoveWaiver.                                    *)
LEMMA RemovalIsOne ==
  ASSUME NEW b, Shown = b, Shown' = Tables', NEW r, NEW g, NEW w \in Waivers,
         SameResults(b, Tables'), waivers' = b.waivers,
         waiver' = [b.waiver EXCEPT ![w].is_deleted = TRUE],
         w <= b.waivers, r \in b.attached, b.waiver[w].result = r, b.waiver[w].group = g,
         IF b.waiver[w].kind # "COMMENT" /\ b.state[r] = "WAIVED" /\ LiveIn(b, r, g) \subseteq {w}
         THEN /\ group' = [b.group EXCEPT ![r][g] = "NEEDS_INSPECTION"]
              /\ state' = [b.state EXCEPT ![r] = "DISPUTED"]
         ELSE group' = b.group /\ state' = b.state
  PROVE  Alone!Next
<1> DEFINE t == Tables'
<1>1. /\ Shown.results = b.results /\ Shown.attached = b.attached /\ Shown.state = b.state
      /\ Shown.found = b.found /\ Shown.group = b.group /\ Shown.waivers = b.waivers
      /\ Shown.waiver = b.waiver /\ Shown' = t
  OBVIOUS
<1>2. /\ t.state = state' /\ t.group = group' /\ t.waivers = waivers' /\ t.waiver = waiver'
  BY TablesAre
<1>3. SameResults(b, t)
  OBVIOUS
<1> HIDE DEF t
<1>4. UNCHANGED <<Shown.results, Shown.attached, Shown.found, Shown.waivers>>
  BY <1>1, <1>2, <1>3 DEF SameResults
<1>5. Alone!LiveOf(r, g) = LiveIn(b, r, g)
  BY <1>1 DEF Alone!LiveOf, Alone!RowsOf, Alone!Live, LiveIn, RowsIn, Alone!Waivers, Waivers
<1>6. Alone!Reopens(w) <=> /\ b.waiver[w].kind # "COMMENT" /\ b.state[r] = "WAIVED"
                           /\ LiveIn(b, r, g) \subseteq {w}
  BY <1>1, <1>5 DEF Alone!Reopens
<1>7. Alone!RemoveWaiver(w)
  BY <1>1, <1>2, <1>4, <1>6 DEF Alone!RemoveWaiver, Alone!resultVars
<1> QED BY <1>7 DEF Alone!Next, Alone!Waivers, Waivers

LEMMA RemovalGoesOnAlone ==
  ASSUME TableInv, NEW u \in Slots, Proceed(u), req[u].op = "remove",
         NEW b, Shown = b, AloneRemoval(req[u], b, Tables),
         NEW p, req' = [req EXCEPT ![u] = p]
  PROVE  \/ p = Idle /\ (Shown' = Tables' => Alone!Next)
         \/ p.op = "remove" /\ AloneRemoval(p, b, Tables')
<1> DEFINE q == req[u]
<1>1. q \in Removals /\ q.step \in RemoveSteps /\ \A x : req' = [req EXCEPT ![u] = x] => x = p
  BY StepTells DEF TableInv, ReqTypeOK
<1>2. q.copies \in CopySet /\ q.r \in Results /\ q.g \in Groups
      /\ q.kind \in Kinds \cup {"COMMENT"} /\ q.scan \in ScanRows
  BY <1>1 DEF Removals
<1>3. group \in [Results -> [Groups -> GroupStates]] /\ state \in [Results -> ScanStates]
  BY DEF TableInv, ReqTypeOK, TypeOK
<1> HIDE DEF q
<1>4. /\ SameResults(b, Tables) /\ waivers = b.waivers /\ state = b.state
      /\ b.waiver \in [Waivers -> WaiverRow]
  BY TablesAre DEF AloneRemoval, q
<1>5. PICK w \in Waivers : Removing(q, b, Tables, w)
  BY DEF AloneRemoval, q
<1>6. /\ w <= b.waivers /\ q.r \in b.attached
      /\ b.waiver[w].result = q.r /\ b.waiver[w].group = q.g /\ b.waiver[w].kind = q.kind
      /\ IF q.step = "delete"
         THEN waiver = b.waiver /\ DOMAIN q.copies = {w} /\ q.copies[w].waiver = b.waiver[w]
         ELSE waiver = [b.waiver EXCEPT ![w].is_deleted = TRUE]
  BY <1>5, TablesAre DEF Removing
<1>7. q.step # "delete" => (LiveOf(q.r, q.g) = {} <=> LiveIn(b, q.r, q.g) \subseteq {w})
  <2>1. LiveOf(q.r, q.g) = LiveIn(Tables, q.r, q.g)
    BY TablesAre DEF LiveOf, RowsOf, Live, LiveIn, RowsIn
  <2>2. q.step # "delete" =>
          (LiveIn(Tables, q.r, q.g) = {} <=> LiveIn(b, q.r, q.g) \subseteq {w})
    BY <1>4, <1>6, DeletedIsNotLive, TablesAre
  <2> QED BY <2>1, <2>2
<1>8. CASE Delete(u)
  <2> DEFINE c == [v \in DOMAIN q.copies |-> [q.copies[v] EXCEPT !.waiver.is_deleted = TRUE]]
  <2>1. /\ SaveWaivers(c) /\ q.step = "delete"
        /\ p = IF q.kind = "COMMENT" THEN Idle
               ELSE [q EXCEPT !.step = "is_waived", !.copies = Copies({})]
        /\ UNCHANGED <<results, attached, found, waivers, state, group>>
    BY <1>1, <1>8 DEF Delete, End, Continue, At, resultVars, q
  <2>2. group = b.group
    BY <2>1, TablesAre DEF AloneRemoval, q
  <2>3. DOMAIN c = {w} /\ c[w].waiver = [b.waiver[w] EXCEPT !.is_deleted = TRUE]
    <3>1. q.copies[w] \in CopyRow
      BY <1>2, <1>6, <2>1 DEF CopySet
    <3>2. \A x \in CopyRow : [x EXCEPT !.waiver.is_deleted = TRUE].waiver
                               = [x.waiver EXCEPT !.is_deleted = TRUE]
      BY DEF CopyRow
    <3> QED BY <1>6, <2>1, <3>1, <3>2
  <2> HIDE DEF c
  <2>4. waiver' = [b.waiver EXCEPT ![w].is_deleted = TRUE]
    BY <1>4, <1>6, <2>1, <2>3 DEF SaveWaivers
  <2>5. SameResults(b, Tables')
    BY <1>4, <2>1, TablesAre DEF SameResults
  <2>6. CASE q.kind = "COMMENT"
    <3>1. Shown' = Tables' => Alone!Next
      BY <1>4, <1>6, <2>1, <2>2, <2>4, <2>5, <2>6, RemovalIsOne
    <3> QED BY <2>1, <2>6, <3>1
  <2>7. CASE q.kind # "COMMENT"
    <3>1. p.op = "remove" /\ p.step = "is_waived" /\ p.r = q.r /\ p.g = q.g /\ p.kind = q.kind
      BY <1>1, <2>1, <2>7 DEF Removals
    <3>2. Removing(p, b, Tables', w)
      BY <1>6, <2>4, <3>1, TablesAre DEF Removing
    <3>3. AloneRemoval(p, b, Tables')
      BY <1>4, <2>1, <2>2, <2>5, <2>7, <3>1, <3>2, TablesAre DEF AloneRemoval
    <3> QED BY <3>1, <3>3
  <2> QED BY <2>6, <2>7
<1>9. CASE IsWaived(u)
  <2>1. /\ q.step = "is_waived"
        /\ p = IF state[q.r] = "WAIVED" THEN [q EXCEPT !.step = "reopen", !.scan = ScanRow(q.r)]
               ELSE Idle
        /\ UNCHANGED <<results, attached, found, waivers, waiver, state, group>>
    BY <1>1, <1>9 DEF IsWaived, End, Continue, At, waivingVars, q
  <2>2. group = b.group /\ q.kind # "COMMENT"
    BY <2>1, TablesAre DEF AloneRemoval, q
  <2>3. SameResults(b, Tables')
    BY <1>4, <2>1, TablesAre DEF SameResults
  <2>4. waiver' = [b.waiver EXCEPT ![w].is_deleted = TRUE]
    BY <1>6, <2>1
  <2>5. CASE state[q.r] # "WAIVED"
    <3>1. Shown' = Tables' => Alone!Next
      BY <1>4, <1>6, <2>1, <2>2, <2>3, <2>4, <2>5, RemovalIsOne
    <3> QED BY <2>1, <2>5, <3>1
  <2>6. CASE state[q.r] = "WAIVED"
    <3>1. p.op = "remove" /\ p.step = "reopen" /\ p.r = q.r /\ p.g = q.g /\ p.kind = q.kind
      BY <1>1, <2>1, <2>6 DEF Removals
    <3>2. Removing(p, b, Tables', w)
      BY <1>6, <2>4, <3>1, TablesAre DEF Removing
    <3>3. AloneRemoval(p, b, Tables')
      BY <1>4, <2>1, <2>2, <2>3, <2>6, <3>1, <3>2, TablesAre DEF AloneRemoval
    <3> QED BY <3>1, <3>3
  <2> QED BY <2>5, <2>6
<1>10. CASE Reopen(u)
  <2>1. /\ q.step = "reopen"
        /\ IF LiveOf(q.r, q.g) = {}
           THEN /\ group' = [group EXCEPT ![q.r][q.g] = "NEEDS_INSPECTION"]
                /\ p = [q EXCEPT !.step = "dispute"]
           ELSE group' = group /\ p = Idle
        /\ UNCHANGED <<results, attached, found, waivers, waiver, state>>
    BY <1>1, <1>10 DEF Reopen, Goto, End, Continue, At, resultVars, waiverVars, q
  <2>2. group = b.group /\ q.kind # "COMMENT" /\ b.state[q.r] = "WAIVED"
    BY <2>1, TablesAre DEF AloneRemoval, q
  <2>3. SameResults(b, Tables')
    BY <1>4, <2>1, TablesAre DEF SameResults
  <2>4. waiver' = [b.waiver EXCEPT ![w].is_deleted = TRUE]
    BY <1>6, <2>1
  <2>5. CASE LiveOf(q.r, q.g) # {}
    <3>1. Shown' = Tables' => Alone!Next
      BY <1>4, <1>6, <1>7, <2>1, <2>2, <2>3, <2>4, <2>5, RemovalIsOne
    <3> QED BY <2>1, <2>5, <3>1
  <2>6. CASE LiveOf(q.r, q.g) = {}
    <3>1. p.op = "remove" /\ p.step = "dispute" /\ p.r = q.r /\ p.g = q.g /\ p.kind = q.kind
      BY <1>1, <2>1, <2>6 DEF Removals
    <3>2. LiveIn(Tables', q.r, q.g) = LiveOf(q.r, q.g)
      BY <2>1, TablesAre DEF LiveIn, RowsIn, LiveOf, RowsOf, Live
    <3>3. LiveIn(Tables', p.r, p.g) = {}
      BY <2>6, <3>1, <3>2
    <3>4. Removing(p, b, Tables', w)
      BY <1>6, <2>4, <3>1, TablesAre DEF Removing
    <3>5. AloneRemoval(p, b, Tables')
      BY <1>4, <2>1, <2>2, <2>3, <2>6, <3>1, <3>3, <3>4, TablesAre DEF AloneRemoval
    <3> QED BY <3>1, <3>5
  <2> QED BY <2>5, <2>6
<1>11. CASE Dispute(u)
  <2>1. /\ q.step = "dispute" /\ p = Idle
        /\ SaveScan(q.r, [q.scan EXCEPT !.state = "DISPUTED"])
        /\ UNCHANGED <<results, attached, found, waivers, waiver, group>>
    BY <1>1, <1>11 DEF Dispute, End, Continue, At, resultVars, waiverVars, q
  <2>2. /\ group = [b.group EXCEPT ![q.r][q.g] = "NEEDS_INSPECTION"]
        /\ q.kind # "COMMENT" /\ b.state[q.r] = "WAIVED"
        /\ LiveIn(Tables, q.r, q.g) = {}
    BY <2>1, TablesAre DEF AloneRemoval, q
  <2>3. LiveIn(b, q.r, q.g) \subseteq {w}
    <3>1. LiveIn(Tables, q.r, q.g) = {} <=> LiveIn(b, q.r, q.g) \subseteq {w}
      BY <1>4, <1>6, <2>1, DeletedIsNotLive, TablesAre
    <3> QED BY <2>2, <3>1
  <2>4. state' = [b.state EXCEPT ![q.r] = "DISPUTED"]
    BY <1>2, <1>4, <2>1 DEF SaveScan, ScanRows
  <2>5. SameResults(b, Tables')
    BY <1>4, <2>1, TablesAre DEF SameResults
  <2>6. Shown' = Tables' => Alone!Next
    BY <1>4, <1>6, <2>1, <2>2, <2>3, <2>4, <2>5, RemovalIsOne
  <2> QED BY <2>1, <2>6
<1>12. Delete(u) \/ IsWaived(u) \/ Reopen(u) \/ Dispute(u)
  BY OneHandler DEF TableInv
<1> QED BY <1>8, <1>9, <1>10, <1>11, <1>12

(* A report leaves the tables: it saves the rows that it read.             *)
LEMMA ReportGoesOnAlone ==
  ASSUME TableInv, NEW u \in Slots, Proceed(u), req[u].op = "report",
         NEW b, AloneReport(req[u], b, Tables), NEW p, req' = [req EXCEPT ![u] = p]
  PROVE  /\ Tables = b /\ Tables' = Tables
         /\ p = Idle \/ (p.op = "report" /\ AloneReport(p, b, Tables'))
<1> DEFINE q == req[u]
<1>1. q \in Reports /\ q.step \in ReportSteps /\ \A x : req' = [req EXCEPT ![u] = x] => x = p
  BY StepTells DEF TableInv, ReqTypeOK
<1>2. q.copies \in CopySet
  BY <1>1 DEF Reports
<1>3. waiver \in [Waivers -> WaiverRow]
  BY DEF TableInv, ReqTypeOK, TypeOK, WaiverRow
<1> HIDE DEF q
<1>4. Tables = b /\ (q.step # "format" => \A w \in DOMAIN q.copies : q.copies[w].waiver = waiver[w])
  BY TablesAre DEF AloneReport, q
<1>5. ASSUME UNCHANGED <<results, attached, found, waivers, waiver, state, group>>,
             p = Idle \/ /\ p.op = "report"
                         /\ \A w \in DOMAIN p.copies : p.copies[w].waiver = waiver[w]
      PROVE  /\ Tables' = Tables
             /\ p = Idle \/ (p.op = "report" /\ AloneReport(p, b, Tables'))
  <2>1. Tables' = Tables
    BY <1>5 DEF Tables
  <2>2. ASSUME p # Idle PROVE p.op = "report" /\ AloneReport(p, b, Tables')
    <3>1. Tables' = b /\ Tables'.waiver = waiver
      BY <1>4, <1>5, <2>1, TablesAre
    <3> QED BY <1>5, <2>2, <3>1 DEF AloneReport
  <2> QED BY <2>1, <2>2
<1>6. CASE Format(u)
  <2> DEFINE W == Unreported(q.t, q.ids)
  <2>1. p = Idle \/ p = [q EXCEPT !.step = "send", !.copies = Copies(W)]
    BY <1>1, <1>6 DEF Format, End, Continue, q
  <2>2. \A w \in DOMAIN Copies(W) : Copies(W)[w].waiver = waiver[w]
    BY DEF Copies
  <2> HIDE DEF W
  <2>3. \A x : LET y == [q EXCEPT !.step = "send", !.copies = x]
              IN  y.op = "report" /\ y.copies = x
    BY <1>1 DEF Reports
  <2>4. p = Idle \/ (p.op = "report" /\ p.copies = Copies(W))
    BY <2>1, <2>3
  <2>5. p = Idle \/ /\ p.op = "report"
                    /\ \A w \in DOMAIN p.copies : p.copies[w].waiver = waiver[w]
    BY <2>2, <2>4
  <2>6. UNCHANGED <<results, attached, found, waivers, waiver, state, group>>
    BY <1>6 DEF Format, waivingVars
  <2> QED BY <1>4, <1>5, <2>5, <2>6
<1>7. CASE Send(u)
  <2> DEFINE k == IF q.n = 0 THEN filed[q.t] + 1 ELSE q.n
             s == IF q.n = 0 THEN "save_bug" ELSE "mark"
  <2>1. /\ p = [q EXCEPT !.n = k, !.step = s] /\ q.step = "send"
        /\ UNCHANGED <<results, attached, found, waivers, waiver, state, group>>
    BY <1>1, <1>7 DEF Send, At, Continue, waivingVars, q
  <2> HIDE DEF k, s
  <2>2. p.op = "report" /\ p.copies = q.copies
    BY <1>1, <2>1 DEF Reports
  <2> QED BY <1>4, <1>5, <2>1, <2>2
<1>8. CASE SaveBug(u)
  <2>1. /\ p = [q EXCEPT !.step = "mark"] /\ q.step = "save_bug"
        /\ UNCHANGED <<results, attached, found, waivers, waiver, state, group>>
    BY <1>1, <1>8 DEF SaveBug, At, Goto, Continue, waivingVars, q
  <2>2. p.op = "report" /\ p.copies = q.copies
    BY <1>1, <2>1 DEF Reports
  <2> QED BY <1>4, <1>5, <2>1, <2>2
<1>9. CASE Mark(u)
  <2> DEFINE R == Rest(DOMAIN q.copies)
             c == [w \in DOMAIN q.copies \ R |-> [q.copies[w] EXCEPT !.bug[q.t] = q.n]]
             d == [w \in R |-> q.copies[w]]
  <2>1. /\ SaveWaivers(c) /\ q.step = "mark"
        /\ p = Idle \/ p = [q EXCEPT !.copies = d]
        /\ UNCHANGED <<results, attached, found, waivers, state, group>>
    BY <1>1, <1>9 DEF Mark, At, End, Continue, resultVars, q
  <2>2. \A w \in DOMAIN q.copies : q.copies[w] \in CopyRow
    BY <1>2 DEF CopySet
  <2>3. \A x \in CopyRow : \A t, n : [x EXCEPT !.bug[t] = n].waiver = x.waiver
    BY DEF CopyRow
  <2>4. R \subseteq DOMAIN q.copies
    BY DEF Rest
  <2> HIDE DEF R
  <2>5. \A w \in DOMAIN c : w \in DOMAIN q.copies /\ c[w].waiver = q.copies[w].waiver
    BY <2>2, <2>3
  <2>6. \A w \in DOMAIN d : w \in DOMAIN q.copies /\ d[w] = q.copies[w]
    BY <2>4
  <2> HIDE DEF c, d
  <2>7. waiver' = waiver
    BY <1>3, <1>4, <2>1, <2>5 DEF SaveWaivers
  <2>8. \A x : [q EXCEPT !.copies = x].op = "report" /\ [q EXCEPT !.copies = x].copies = x
    BY <1>1 DEF Reports
  <2>9. p = Idle \/ (p.op = "report" /\ p.copies = d)
    BY <2>1, <2>8
  <2> QED BY <1>4, <1>5, <2>1, <2>6, <2>7, <2>9
<1>10. Format(u) \/ Send(u) \/ SaveBug(u) \/ Mark(u)
  BY OneHandler DEF TableInv
<1> QED BY <1>4, <1>6, <1>7, <1>8, <1>9, <1>10

(* So does a submission, but for the columns that Waiving does not have.   *)
LEMMA SubmissionEndsAlone ==
  ASSUME TableInv, NEW u \in Slots, Proceed(u), req[u].op = "submit",
         \A r \in req[u].child : req[u].scan[r].state = state[r]
  PROVE  Tables' = Tables /\ req' = [req EXCEPT ![u] = Idle]
<1> DEFINE q == req[u]
<1>1. q \in Submissions
  BY StepTells DEF TableInv, ReqTypeOK
<1>2. \A r \in q.child : r \in Results /\ q.scan[r] \in ScanRows
  BY <1>1 DEF Submissions
<1>3. state \in [Results -> ScanStates]
  BY DEF TableInv, ReqTypeOK, TypeOK
<1>4. \A r \in q.child : q.scan[r].state = state[r]
  OBVIOUS
<1>5. LinkChild(u)
  BY OneHandler DEF TableInv
<1> HIDE DEF q
<1>6. /\ req' = [req EXCEPT ![u] = Idle]
      /\ UNCHANGED <<results, attached, found, waivers, waiver, group>>
      /\ UNCHANGED state \/ \E r \in q.child : SaveScan(r, [q.scan[r] EXCEPT !.enabled = FALSE])
  BY <1>1, <1>5 DEF LinkChild, End, Continue, resultVars, waiverVars, q
<1>7. ASSUME NEW r \in q.child, SaveScan(r, [q.scan[r] EXCEPT !.enabled = FALSE])
      PROVE  state' = state
  <2>1. [q.scan[r] EXCEPT !.enabled = FALSE].state = state[r]
    BY <1>2, <1>4 DEF ScanRows
  <2> QED BY <1>2, <1>3, <1>7, <2>1 DEF SaveScan
<1>8. Tables' = Tables
  BY <1>6, <1>7 DEF Tables
<1> QED BY <1>6, <1>8

LEMMA ShownStays == Shown' = Shown => UNCHANGED Alone!vars
  BY DEF Alone!vars, Alone!resultVars, Alone!waiverVars

(* What a request does while it is alone.                                  *)
LEMMA AloneGoesOn ==
  ASSUME TableInv, OneBusy, AloneInv, ~disturbed, NEW u \in Slots, Proceed(u)
  PROVE  AloneInv' /\ [Alone!Next]_(Alone!vars)
<1>1. /\ Shown = before /\ disturbed' = disturbed /\ before' = before
      /\ \A v \in Slots \ {u} : req[v] = Idle
      /\ req' = [req EXCEPT ![u] = Idle] => Shown' = Tables'
      /\ req'[u].op # "none" => Shown' = Shown
  BY ShownInFlight
<1>2. PICK p : req' = [req EXCEPT ![u] = p]
  BY ProceedKeeps DEF Continue
<1>3. req \in [Slots -> Requests]
  BY DEF TableInv, ReqTypeOK
<1>4. req'[u] = p /\ \A v \in Slots \ {u} : req'[v] = Idle
  BY <1>1, <1>2, <1>3
<1>5. AloneIs(req[u], before, Tables)
  BY DEF AloneInv
<1>6. \A x, y : AloneIs(Idle, x, y)
  BY DEF AloneIs, Idle
<1>7. AloneIs(p, before, Tables') => AloneInv'
  <2>1. ASSUME AloneIs(p, before, Tables') PROVE \A v \in Slots : AloneIs(req'[v], before', Tables')
    BY <1>1, <1>4, <1>6, <2>1
  <2> QED BY <2>1 DEF AloneInv
<1>8. Idle.op = "none"
  BY DEF Idle
<1>9. CASE req[u].op = "post"
  <2>1. AlonePost(req[u], before, Tables) /\ req[u] \in Posts
    BY <1>5, <1>9, StepTells DEF AloneIs, TableInv
  <2>2. \/ p = Idle /\ req[u].step = "save_scan" /\ AlonePost(req[u], before, Tables')
        \/ p.op = "post" /\ AlonePost(p, before, Tables')
    BY <1>2, <1>9, <2>1, PostGoesOnAlone
  <2>3. CASE p = Idle /\ req[u].step = "save_scan" /\ AlonePost(req[u], before, Tables')
    <3>1. Alone!Next
      BY <1>1, <1>2, <2>1, <2>3, PostIsOne
    <3> QED BY <1>6, <1>7, <2>3, <3>1
  <2>4. CASE p.op = "post" /\ AlonePost(p, before, Tables')
    <3>1. AloneIs(p, before, Tables')
      BY <2>4 DEF AloneIs
    <3> QED BY <1>1, <1>4, <1>7, <2>4, <3>1, ShownStays
  <2> QED BY <2>2, <2>3, <2>4
<1>10. CASE req[u].op = "remove"
  <2>1. AloneRemoval(req[u], before, Tables)
    BY <1>5, <1>10 DEF AloneIs
  <2>2. \/ p = Idle /\ (Shown' = Tables' => Alone!Next)
        \/ p.op = "remove" /\ AloneRemoval(p, before, Tables')
    BY <1>1, <1>2, <1>10, <2>1, RemovalGoesOnAlone
  <2>3. CASE p = Idle /\ (Shown' = Tables' => Alone!Next)
    BY <1>1, <1>2, <1>6, <1>7, <2>3
  <2>4. CASE p.op = "remove" /\ AloneRemoval(p, before, Tables')
    <3>1. AloneIs(p, before, Tables')
      BY <2>4 DEF AloneIs
    <3> QED BY <1>1, <1>4, <1>7, <2>4, <3>1, ShownStays
  <2> QED BY <2>2, <2>3, <2>4
<1>11. CASE req[u].op = "report"
  <2>1. AloneReport(req[u], before, Tables)
    BY <1>5, <1>11 DEF AloneIs
  <2>2. /\ Tables = before /\ Tables' = Tables
        /\ p = Idle \/ (p.op = "report" /\ AloneReport(p, before, Tables'))
    BY <1>2, <1>11, <2>1, ReportGoesOnAlone
  <2>3. Shown' = Shown
    BY <1>1, <1>2, <1>4, <2>2
  <2>4. AloneIs(p, before, Tables')
    BY <1>6, <2>2 DEF AloneIs
  <2> QED BY <1>7, <2>3, <2>4, ShownStays
<1>12. CASE req[u].op = "submit"
  <2>1. Tables = before /\ \A r \in req[u].child : req[u].scan[r].state = state[r]
    BY <1>5, <1>12, TablesAre DEF AloneIs, AloneSubmission
  <2>2. Tables' = Tables /\ req' = [req EXCEPT ![u] = Idle]
    BY <1>12, <2>1, SubmissionEndsAlone
  <2>3. Shown' = Shown /\ p = Idle
    BY <1>1, <1>3, <1>4, <2>1, <2>2
  <2> QED BY <1>6, <1>7, <2>2, <2>3, ShownStays
<1> QED BY <1>9, <1>10, <1>11, <1>12, OneHandler DEF TableInv

(* A scan that ends beside no request is Load.                             *)
LEMMA ResultIsOne ==
  ASSUME TableInv, NEW defects \in Contents, FinishScan(0, defects),
         Shown = Tables, Shown' = Tables'
  PROVE  Alone!Next
<1>1. /\ Shown.results = results /\ Shown.attached = attached /\ Shown.state = state
      /\ Shown.found = found /\ Shown.group = group /\ Shown.waivers = waivers
      /\ Shown.waiver = waiver
      /\ Shown'.results = results' /\ Shown'.attached = attached' /\ Shown'.state = state'
      /\ Shown'.found = found' /\ Shown'.group = group' /\ Shown'.waivers = waivers'
      /\ Shown'.waiver = waiver'
  BY TablesAre
<1>2. ASSUME NEW d, NEW g, NEW att PROVE Alone!Processed(d, g, att) = Processed(d, g, att)
  <2> DEFINE all == {w \in Waivers : /\ Live(w) /\ waiver[w].group = g
                                     /\ waiver[w].result \in att}
             A == {w \in Alone!Waivers : /\ Alone!Live(w) /\ Shown.waiver[w].group = g
                                         /\ Shown.waiver[w].result \in att}
  <2>1. A = all
    BY <1>1 DEF Alone!Live, Live, Alone!Waivers, Waivers
  <2>2. Alone!Latest(A) = Latest(all)
    BY <2>1 DEF Alone!Latest, Latest
  <2>3. Alone!LastWaiver(g, att) = LastWaiver(g, att)
    BY <1>1, <2>2 DEF Alone!LastWaiver, LastWaiver
  <2>4. \A r : Alone!Matches(d, r, g) = Matches(d, r, g)
    BY <1>1 DEF Alone!Matches, Matches
  <2> QED BY <1>1, <2>3, <2>4 DEF Alone!Processed, Processed
<1>3. \A gs : Alone!Verdict(gs) = Verdict(gs)
  BY DEF Alone!Verdict, Verdict, Alone!Unwaived, Unwaived, Alone!HasBugs, HasBugs
<1>4. Alone!CreateResult(0, defects, Groups)
  <2> DEFINE att == attached \ {0}
             gs == [g \in Groups |->
                      IF defects[g] = None THEN "ABSENT"
                      ELSE IF g \in Groups THEN Processed(defects[g], g, att)
                      ELSE "NEEDS_INSPECTION"]
             hs == [g \in Groups |->
                      IF defects[g] = None THEN "ABSENT"
                      ELSE IF g \in Groups
                           THEN Alone!Processed(defects[g], g, Shown.attached \ {0})
                      ELSE "NEEDS_INSPECTION"]
  <2>1. gs = hs
    BY <1>1, <1>2
  <2>2. /\ results < MaxResults /\ results' = results + 1
        /\ attached' = att \cup {results + 1}
        /\ found' = [found EXCEPT ![results + 1] = defects]
        /\ group' = [group EXCEPT ![results + 1] = gs]
        /\ UNCHANGED <<waivers, waiver>>
    BY DEF FinishScan, CreateResult, waiverVars
  <2>3. Shown'.group = [Shown.group EXCEPT ![Shown.results + 1] = hs]
    BY <1>1, <2>1, <2>2
  <2> HIDE DEF gs
  <2> QED BY <1>1, <2>2, <2>3 DEF Alone!CreateResult, Alone!waiverVars
<1>5. Alone!FinishScan(0, defects)
  BY <1>1, <1>3, <1>4 DEF FinishScan, Alone!FinishScan
<1>6. Alone!Load
  BY <1>5 DEF Alone!Load
<1> QED BY <1>6 DEF Alone!Next

LEMMA AloneBeside ==
  ASSUME TableInv, AloneInv, Beside, ~disturbed',
         UNCHANGED waivingVars \/ \E defects \in Contents : FinishScan(0, defects)
  PROVE  AloneInv' /\ [Alone!Next]_(Alone!vars)
<1>1. Busy = {} /\ req' = req
  BY DEF Beside
<1>2. \A v \in Slots : req[v] = Idle
  BY <1>1, StepTells DEF TableInv, Busy
<1>3. Busy' = {}
  BY <1>1 DEF Busy
<1>4. Shown = Tables /\ Shown' = Tables'
  BY <1>1, <1>3 DEF Shown
<1>5. \A x, y : AloneIs(Idle, x, y)
  BY DEF AloneIs, Idle
<1>6. AloneInv'
  BY <1>1, <1>2, <1>5 DEF AloneInv
<1>7. CASE UNCHANGED waivingVars
  <2>1. Tables' = Tables
    BY <1>7 DEF waivingVars, Tables
  <2> QED BY <1>4, <1>6, <2>1, ShownStays
<1>8. CASE \E defects \in Contents : FinishScan(0, defects)
  BY <1>4, <1>6, <1>8, ResultIsOne
<1> QED BY <1>7, <1>8

LEMMA AloneStep ==
  ASSUME TableInv, OneBusy, AloneInv, [ReqNext]_reqVars
  PROVE  AloneInv' /\ (disturbed' \/ [Alone!Next]_(Alone!vars))
<1>1. CASE disturbed'
  BY <1>1 DEF AloneInv
<1>2. CASE ~disturbed'
  <2>1. ASSUME NEW u \in Slots, Arrive(u) PROVE AloneInv' /\ [Alone!Next]_(Alone!vars)
    BY <1>2, <2>1, AloneAtArrival, ShownStays
  <2>2. ASSUME NEW u \in Slots, Proceed(u) PROVE AloneInv' /\ [Alone!Next]_(Alone!vars)
    <3>1. disturbed' = disturbed
      BY <2>2, ProceedKeeps DEF Continue, history
    <3> QED BY <1>2, <2>2, <3>1, AloneGoesOn
  <2>3. ASSUME NEW u \in Slots, Die(u) PROVE FALSE
    BY <1>2, <2>3 DEF Die
  <2>4. ASSUME NEW defects \in Contents, NewResult(defects)
        PROVE  AloneInv' /\ [Alone!Next]_(Alone!vars)
    BY <1>2, <2>4, AloneBeside DEF NewResult
  <2>5. ASSUME Abandon PROVE AloneInv' /\ [Alone!Next]_(Alone!vars)
    BY <1>2, <2>5, AloneBeside DEF Abandon
  <2>6. ASSUME UNCHANGED reqVars PROVE AloneInv' /\ [Alone!Next]_(Alone!vars)
    <3>1. Tables' = Tables /\ req' = req /\ before' = before /\ disturbed' = disturbed
      BY <2>6 DEF reqVars, waivingVars, history, Tables
    <3>2. Shown' = Shown
      BY <3>1 DEF Shown, Busy
    <3>3. AloneInv'
      BY <3>1 DEF AloneInv
    <3> QED BY <3>2, <3>3, ShownStays
  <2> QED BY <2>1, <2>2, <2>3, <2>4, <2>5, <2>6 DEF ReqNext
<1> QED BY <1>1, <1>2

(* Taken one at a time the handlers do what Waiving says: up to the first  *)
(* overlap or death, the tables as they are seen between requests change   *)
(* by steps of Waiving only, one for each form or result, and none for a   *)
(* report or a submission.                                                 *)
THEOREM RequestsAreOneByOne == ReqSpec => RequestsAreWaiving
<1>1. ReqInit => Alone!Init /\ OneBusy /\ AloneInv
  <2> SUFFICES ASSUME ReqInit PROVE Alone!Init /\ OneBusy /\ AloneInv
    OBVIOUS
  <2>1. Busy = {} /\ \A u \in Slots : req[u] = Idle
    BY DEF ReqInit, Busy, Idle
  <2>2. /\ Shown.results = results /\ Shown.attached = attached /\ Shown.state = state
        /\ Shown.found = found /\ Shown.group = group /\ Shown.waivers = waivers
        /\ Shown.waiver = waiver
    BY <2>1, TablesAre DEF Shown
  <2>3. Alone!Init
    BY <2>2 DEF ReqInit, Init, Alone!Init, Results, Alone!Results, Waivers, Alone!Waivers,
                NoWaiver, Alone!NoWaiver
  <2>4. \A x, y : AloneIs(Idle, x, y)
    BY DEF AloneIs, Idle
  <2> QED BY <2>1, <2>3, <2>4 DEF OneBusy, AloneInv
<1>2. (TableInv /\ PostInv) /\ OneBusy /\ AloneInv /\ [ReqNext]_reqVars
        => /\ (OneBusy /\ AloneInv)'
           /\ [disturbed' \/ [Alone!Next]_(Alone!vars)]_reqVars
  BY OneBusyStays, AloneStep
<1> QED BY <1>1, <1>2, TablesAreSound, PTL DEF ReqSpec, RequestsAreWaiving

=============================================================================
