------------------------------ MODULE MCStatistics -----------------------------
(* Statistics with two releases, the second one the successor of the first. *)
EXTENDS Statistics

CONSTANTS r1, r2

MCChild == [r \in Releases |-> IF r = r2 THEN r1 ELSE Everywhere]

MCKeys ==
  { [what |-> "scans", kind |-> "ERRATA", by_release |-> TRUE],
    [what |-> "fixed between", kind |-> "total", by_release |-> TRUE],
    [what |-> "eliminated", kind |-> "REBASE", by_release |-> TRUE],
    [what |-> "submitted", kind |-> "total", by_release |-> FALSE] }
=============================================================================
