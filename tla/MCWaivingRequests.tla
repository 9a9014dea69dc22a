-------------------------- MODULE MCWaivingRequests --------------------------
(* WaivingRequests on small tables: one or two checker groups.             *)
EXTENDS WaivingRequests, TLC

CONSTANTS g1, g2, d1, d2

OneGroup  == {(g1 :> d1)}
Alike == Permutations(Slots)

TwoGroups == {(g1 :> d1 @@ g2 :> d1)}
=============================================================================
