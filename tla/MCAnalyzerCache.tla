--------------------------- MODULE MCAnalyzerCache ---------------------------
(* AnalyzerCache with jobs that are alike.                                 *)
EXTENDS AnalyzerCache, TLC

Alike == Permutations(Jobs) \cup Permutations(Mocks)
=============================================================================
