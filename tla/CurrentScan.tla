----------------------------- MODULE CurrentScan -----------------------------
(***************************************************************************)
(* What the hub promises for one package in one release: at any time the   *)
(* scan that counts ("enabled") is the one in progress, or, when there is  *)
(* none, the last one that finished with a verdict.  Each of the three     *)
(* variables is a set with at most one scan.                               *)
(***************************************************************************)
EXTENDS Naturals

CONSTANT Ids

VARIABLES
  pending,   \* the scan in progress
  last,      \* the last scan with a verdict
  current    \* the enabled scan

vars == <<pending, last, current>>

Init ==
  /\ pending = {}
  /\ last = {}
  /\ current = {}

(* A submission takes over, whatever was in progress.                      *)
Submit(n) ==
  /\ \A s \in pending \cup last : s < n
  /\ pending' = {n}
  /\ current' = {n}
  /\ UNCHANGED last

(* The scan in progress gets its verdict.                                  *)
Finish ==
  /\ pending # {}
  /\ last' = pending
  /\ pending' = {}
  /\ UNCHANGED current

(* It fails or is canceled: the last verdict counts again.                 *)
Abandon ==
  /\ pending # {}
  /\ pending' = {}
  /\ current' = last
  /\ UNCHANGED last

Next == (\E n \in Ids : Submit(n)) \/ Finish \/ Abandon

Spec == Init /\ [][Next]_vars
=============================================================================
