--------------------------- MODULE MCScanLifecycle ---------------------------
(***************************************************************************)
(* Small instances of ScanLifecycle.                                       *)
(***************************************************************************)
EXTENDS ScanLifecycle, TLC

CONSTANTS n1, n2   \* builds of one package

(* An update, and a package that is new in the release.                    *)
TwoBuilds ==
  { [type |-> "ERRATA", nvr |-> n2, base_nvr |-> n1],
    [type |-> "NEWPKG", nvr |-> n1, base_nvr |-> None] }

(* Updates from a build that may itself have been a target.                *)
OneUpdate == { [type |-> "ERRATA", nvr |-> n2, base_nvr |-> n1] }
=============================================================================
