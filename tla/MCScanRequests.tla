--------------------------- MODULE MCScanRequests ---------------------------
(* ScanRequests with submissions that are served alike.                    *)
EXTENDS ScanRequests, TLC

Alike == Permutations(Slots)
=============================================================================
