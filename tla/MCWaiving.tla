------------------------------ MODULE MCWaiving ------------------------------
(* Waiving on small tables: two checker groups, and scans that find        *)
(* defects in both of them, or other ones and only in the first.           *)
EXTENDS Waiving, TLC

CONSTANTS g1, g2, d1, d2

TwoContents == {(g1 :> d1 @@ g2 :> d1), (g1 :> d2 @@ g2 :> None)}
=============================================================================
