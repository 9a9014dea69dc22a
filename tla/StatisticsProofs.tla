---------------------------- MODULE StatisticsProofs ----------------------------
(***************************************************************************)
(* Proofs about Statistics for any number of scans, packages and releases, *)
(* any release before a release, any statistics and any number of runs.    *)
(***************************************************************************)
EXTENDS Statistics, FiniteSetTheorems, SequenceTheorems, WellFoundedInduction, TLAPS

-----------------------------------------------------------------------------
(* Sums.  The induction theorems of the library take an operator, so each  *)
(* induction here looks at a least subset for which the claim fails.       *)

(* A family of finite sets has a member with no other member inside it.    *)
LEMMA LeastSubset ==
  ASSUME NEW S, IsFiniteSet(S), NEW Bad, Bad \subseteq SUBSET S, Bad # {}
  PROVE  \E U \in Bad : \A W \in SUBSET U : W # U => W \notin Bad
<1>1. IsWellFoundedOn(StrictSubsetOrdering(S), SUBSET S)
  BY FS_FiniteSubsetsOfFinite, FS_StrictSubsetOrderingWellFounded, Zenon
<1>2. PICK U \in Bad : \A W \in Bad : <<W, U>> \notin StrictSubsetOrdering(S)
  BY <1>1, WFMin, Zenon
<1>3. ASSUME NEW W \in SUBSET U, W # U, W \in Bad
      PROVE  FALSE
  <2>1. W \in SUBSET S /\ U \in SUBSET S
    BY <1>3
  <2>2. <<W, U>> \in StrictSubsetOrdering(S)
    BY <1>3, <2>1 DEF StrictSubsetOrdering
  <2> QED BY <1>2, <1>3, <2>2
<1> QED BY <1>3

Pick(S) == CHOOSE x \in S : TRUE

(* The element that the fold takes first.                                  *)
LEMMA PickIn ==
  ASSUME NEW S, S # {}
  PROVE  Pick(S) \in S /\ S \ {Pick(S)} \in SUBSET S /\ S \ {Pick(S)} # S
  BY DEF Pick

(* What the fold that Sum is says of a set s, when h has the smaller sums. *)
Body(f, h, s) == IF s = {} THEN 0 ELSE f[Pick(s)] + h[s \ {Pick(s)}]
Folds(f, h, S) == h = [s \in SUBSET S |-> Body(f, h, s)]
Fold(f, S) == CHOOSE h : Folds(f, h, S)

LEMMA SumIsFold ==
  ASSUME NEW f, NEW S
  PROVE  Sum(f, S) = Fold(f, S)[S]
  BY Zenon DEF Sum, MapThenSumSet, MapThenFoldSet, Fold, Folds, Body, Pick

(* There is such an h for U, and only one.                                 *)
Determined(f, U) ==
  /\ Folds(f, Fold(f, U), U)
  /\ \A h : Folds(f, h, U) => \A W \in SUBSET U : h[W] = Sum(f, W)

(* What such an h says of a subset, and that it is one for that subset too. *)
LEMMA FoldStep ==
  ASSUME NEW f, NEW h, NEW U, Folds(f, h, U), NEW W \in SUBSET U
  PROVE  /\ h[W] = Body(f, h, W)
         /\ Folds(f, [s \in SUBSET W |-> h[s]], W)
<1>1. h = [s \in SUBSET U |-> Body(f, h, s)]
  BY DEF Folds
<1>2. \A s \in SUBSET U : h[s] = Body(f, h, s)
  BY <1>1
<1> DEFINE g == [s \in SUBSET W |-> h[s]]
<1>3. ASSUME NEW s \in SUBSET W
      PROVE  g[s] = Body(f, g, s)
  <2>1. s \in SUBSET U /\ g[s] = h[s]
    OBVIOUS
  <2>2. CASE s = {}
    BY <1>2, <2>1, <2>2 DEF Body
  <2>3. CASE s # {}
    <3>1. s \ {Pick(s)} \in SUBSET W
      OBVIOUS
    <3>2. g[s \ {Pick(s)}] = h[s \ {Pick(s)}]
      BY <3>1
    <3> QED BY <1>2, <2>1, <2>3, <3>2 DEF Body
  <2> QED BY <2>2, <2>3
<1>4. g = [s \in SUBSET W |-> Body(f, g, s)]
  <2> DEFINE e == [s \in SUBSET W |-> Body(f, g, s)]
  <2>1. \A s \in SUBSET W : g[s] = e[s]
    BY <1>3
  <2>2. g = e
    <3>1. g = [s \in SUBSET W |-> g[s]] /\ e = [s \in SUBSET W |-> e[s]]
      OBVIOUS
    <3> HIDE DEF g, e
    <3> QED BY <2>1, <3>1
  <2> QED BY <2>2
<1> QED BY <1>2, <1>4 DEF Folds

(* From the smaller sets to a set.                                         *)
LEMMA FoldDetermined ==
  ASSUME NEW f, NEW U, \A W \in SUBSET U : W # U => Determined(f, W)
  PROVE  Determined(f, U)
<1> DEFINE h == [s \in SUBSET U |->
                   IF s = {} THEN 0 ELSE f[Pick(s)] + Sum(f, s \ {Pick(s)})]
<1>1. ASSUME NEW W \in SUBSET U, W # U
      PROVE  Sum(f, W) = h[W]
  <2>1. Folds(f, Fold(f, W), W) /\ Sum(f, W) = Fold(f, W)[W]
    BY <1>1, SumIsFold DEF Determined
  <2>2. Fold(f, W)[W] = Body(f, Fold(f, W), W)
    BY <2>1, FoldStep
  <2>3. CASE W = {}
    BY <2>1, <2>2, <2>3 DEF Body
  <2>4. CASE W # {}
    <3>1. W \ {Pick(W)} \in SUBSET W
      OBVIOUS
    <3>2. Fold(f, W)[W \ {Pick(W)}] = Sum(f, W \ {Pick(W)})
      BY <1>1, <2>1, <3>1, Zenon DEF Determined
    <3> QED BY <2>1, <2>2, <2>4, <3>2 DEF Body
  <2> QED BY <2>3, <2>4
<1>2. ASSUME NEW s \in SUBSET U
      PROVE  h[s] = Body(f, h, s)
  <2>1. CASE s = {}
    BY <2>1 DEF Body
  <2>2. CASE s # {}
    <3>1. s \ {Pick(s)} \in SUBSET U /\ s \ {Pick(s)} # U
      BY <2>2, PickIn
    <3>2. Sum(f, s \ {Pick(s)}) = h[s \ {Pick(s)}]
      BY <1>1, <3>1
    <3> HIDE DEF h
    <3>3. h[s] = f[Pick(s)] + Sum(f, s \ {Pick(s)})
      BY <2>2 DEF h
    <3> QED BY <2>2, <3>2, <3>3 DEF Body
  <2> QED BY <2>1, <2>2
<1>3. Folds(f, h, U)
  <2> DEFINE e == [s \in SUBSET U |-> Body(f, h, s)]
  <2>1. \A s \in SUBSET U : h[s] = e[s]
    BY <1>2
  <2>2. h = [s \in SUBSET U |-> h[s]] /\ e = [s \in SUBSET U |-> e[s]]
    OBVIOUS
  <2>3. h = e
    <3> HIDE DEF h, e
    <3> QED BY <2>1, <2>2
  <2> HIDE DEF h
  <2> QED BY <2>3 DEF Folds
<1>4. Folds(f, Fold(f, U), U)
  <2> HIDE DEF h
  <2> QED BY <1>3, Zenon DEF Fold
<1>5. ASSUME NEW g, Folds(f, g, U), NEW W \in SUBSET U, W # U
      PROVE  g[W] = Sum(f, W)
  <2>1. Folds(f, [s \in SUBSET W |-> g[s]], W)
    BY <1>5, FoldStep, Zenon
  <2>2. [s \in SUBSET W |-> g[s]][W] = Sum(f, W)
    BY <1>5, <2>1, W \in SUBSET W, Zenon DEF Determined
  <2> QED BY <2>2
<1>6. ASSUME NEW g, Folds(f, g, U)
      PROVE  g[U] = IF U = {} THEN 0 ELSE f[Pick(U)] + Sum(f, U \ {Pick(U)})
  <2>1. g[U] = Body(f, g, U)
    BY <1>6, FoldStep, U \in SUBSET U, Zenon
  <2>2. U # {} => g[U \ {Pick(U)}] = Sum(f, U \ {Pick(U)})
    BY <1>5, <1>6, PickIn
  <2> QED BY <2>1, <2>2 DEF Body
<1>7. Sum(f, U) = IF U = {} THEN 0 ELSE f[Pick(U)] + Sum(f, U \ {Pick(U)})
  BY <1>4, <1>6, SumIsFold
<1> HIDE DEF h
<1> QED BY <1>4, <1>5, <1>6, <1>7 DEF Determined

(* The sum is defined for every finite set.                                *)
LEMMA AllDetermined ==
  ASSUME NEW f, NEW S, IsFiniteSet(S)
  PROVE  \A U \in SUBSET S : Determined(f, U)
<1> SUFFICES ASSUME NEW V \in SUBSET S, ~Determined(f, V) PROVE FALSE
  OBVIOUS
<1> DEFINE Bad == {U \in SUBSET S : ~Determined(f, U)}
<1>1. PICK U \in Bad : \A W \in SUBSET U : W # U => W \notin Bad
  <2>1. Bad \subseteq SUBSET S /\ Bad # {}
    OBVIOUS
  <2> HIDE DEF Bad
  <2> QED BY <2>1, LeastSubset
<1>2. \A W \in SUBSET U : W # U => Determined(f, W)
  BY <1>1
<1> QED BY <1>1, <1>2, FoldDetermined

(* The sum over the empty set, and one element taken out.                  *)
LEMMA SumStep ==
  ASSUME NEW f, NEW S, IsFiniteSet(S)
  PROVE  Sum(f, S) = IF S = {} THEN 0 ELSE f[Pick(S)] + Sum(f, S \ {Pick(S)})
<1>1. Determined(f, S)
  BY AllDetermined, S \in SUBSET S
<1>2. Folds(f, Fold(f, S), S) /\ Sum(f, S) = Fold(f, S)[S]
  BY <1>1, SumIsFold DEF Determined
<1>3. Sum(f, S) = Body(f, Fold(f, S), S)
  BY <1>2, FoldStep, S \in SUBSET S, Zenon
<1>4. S # {} => Fold(f, S)[S \ {Pick(S)}] = Sum(f, S \ {Pick(S)})
  BY <1>1, PickIn, Zenon DEF Determined
<1> QED BY <1>3, <1>4 DEF Body

(* A sum of numbers is a number.                                           *)
LEMMA SumIsInt ==
  ASSUME NEW f, NEW S, IsFiniteSet(S), \A s \in S : f[s] \in Int
  PROVE  Sum(f, S) \in Int
<1> SUFFICES ASSUME Sum(f, S) \notin Int PROVE FALSE
  OBVIOUS
<1> DEFINE Bad == {U \in SUBSET S : Sum(f, U) \notin Int}
<1>1. PICK U \in Bad : \A W \in SUBSET U : W # U => W \notin Bad
  <2>1. Bad \subseteq SUBSET S /\ Bad # {}
    OBVIOUS
  <2> HIDE DEF Bad
  <2> QED BY <2>1, LeastSubset
<1>2. Sum(f, U) = IF U = {} THEN 0 ELSE f[Pick(U)] + Sum(f, U \ {Pick(U)})
  BY SumStep, FS_Subset
<1>3. U # {}
  BY <1>2
<1>4. Pick(U) \in S /\ Sum(f, U \ {Pick(U)}) \in Int
  BY <1>1, <1>3, PickIn
<1> QED BY <1>2, <1>3, <1>4

(* Any element may be taken out first.                                     *)
LEMMA SumTake ==
  ASSUME NEW f, NEW S, IsFiniteSet(S), \A s \in S : f[s] \in Int, NEW y \in S
  PROVE  Sum(f, S) = f[y] + Sum(f, S \ {y})
<1> DEFINE Takes(U) == \A x \in U : Sum(f, U) = f[x] + Sum(f, U \ {x})
<1> SUFFICES ASSUME ~Takes(S) PROVE FALSE
  OBVIOUS
<1> DEFINE Bad == {U \in SUBSET S : ~Takes(U)}
<1>1. PICK U \in Bad : \A W \in SUBSET U : W # U => W \notin Bad
  <2>1. Bad \subseteq SUBSET S /\ Bad # {}
    OBVIOUS
  <2> HIDE DEF Bad
  <2> QED BY <2>1, LeastSubset
<1>2. PICK x \in U : Sum(f, U) # f[x] + Sum(f, U \ {x})
  OBVIOUS
<1> DEFINE p == Pick(U)
           V == U \ {x, p}
<1>3. p \in U /\ x \in S /\ p \in S
  BY <1>2, PickIn
<1>4. Sum(f, U) = f[p] + Sum(f, U \ {p})
  BY <1>2, SumStep, FS_Subset
<1>5. p # x
  BY <1>2, <1>4
<1>6. /\ U \ {p} \in SUBSET U /\ U \ {p} # U /\ U \ {p} \in SUBSET S
      /\ U \ {x} \in SUBSET U /\ U \ {x} # U /\ U \ {x} \in SUBSET S
      /\ x \in U \ {p} /\ p \in U \ {x} /\ V \in SUBSET S
      /\ (U \ {p}) \ {x} = V /\ (U \ {x}) \ {p} = V
  BY <1>3, <1>5
<1>7. Takes(U \ {p}) /\ Takes(U \ {x})
  BY <1>1, <1>6
<1>8. Sum(f, U \ {p}) = f[x] + Sum(f, V) /\ Sum(f, U \ {x}) = f[p] + Sum(f, V)
  BY <1>6, <1>7
<1>9. Sum(f, V) \in Int
  BY <1>6, SumIsInt, FS_Subset
<1> QED BY <1>2, <1>3, <1>4, <1>8, <1>9

(* Equal terms have equal sums.                                            *)
LEMMA SumEqual ==
  ASSUME NEW f, NEW g, NEW S, IsFiniteSet(S), \A s \in S : f[s] = g[s]
  PROVE  Sum(f, S) = Sum(g, S)
<1> SUFFICES ASSUME Sum(f, S) # Sum(g, S) PROVE FALSE
  OBVIOUS
<1> DEFINE Bad == {U \in SUBSET S : Sum(f, U) # Sum(g, U)}
<1>1. PICK U \in Bad : \A W \in SUBSET U : W # U => W \notin Bad
  <2>1. Bad \subseteq SUBSET S /\ Bad # {}
    OBVIOUS
  <2> HIDE DEF Bad
  <2> QED BY <2>1, LeastSubset
<1>2. /\ Sum(f, U) = IF U = {} THEN 0 ELSE f[Pick(U)] + Sum(f, U \ {Pick(U)})
      /\ Sum(g, U) = IF U = {} THEN 0 ELSE g[Pick(U)] + Sum(g, U \ {Pick(U)})
  BY SumStep, FS_Subset
<1>3. U # {}
  BY <1>2
<1>4. Pick(U) \in S /\ Sum(f, U \ {Pick(U)}) = Sum(g, U \ {Pick(U)})
  BY <1>1, <1>3, PickIn
<1> QED BY <1>2, <1>3, <1>4

(* The sum over two sets that do not meet.                                 *)
LEMMA SumUnion ==
  ASSUME NEW f, NEW B, NEW C, IsFiniteSet(B), IsFiniteSet(C), B \cap C = {},
         \A s \in B \cup C : f[s] \in Int
  PROVE  Sum(f, B \cup C) = Sum(f, B) + Sum(f, C)
<1> DEFINE Adds(U) == Sum(f, B \cup U) = Sum(f, B) + Sum(f, U)
<1> SUFFICES ASSUME ~Adds(C) PROVE FALSE
  OBVIOUS
<1> DEFINE Bad == {U \in SUBSET C : ~Adds(U)}
<1>1. PICK U \in Bad : \A W \in SUBSET U : W # U => W \notin Bad
  <2>1. Bad \subseteq SUBSET C /\ Bad # {}
    OBVIOUS
  <2> HIDE DEF Bad
  <2> QED BY <2>1, LeastSubset
<1>2. Sum(f, U) = IF U = {} THEN 0 ELSE f[Pick(U)] + Sum(f, U \ {Pick(U)})
  BY SumStep, FS_Subset
<1>3. Sum(f, B) \in Int
  BY SumIsInt
<1>4. U # {}
  <2>1. B \cup {} = B
    OBVIOUS
  <2>2. U = {} => Adds(U)
    BY <1>2, <1>3, <2>1
  <2> QED BY <2>2
<1> DEFINE p == Pick(U)
           V == U \ {p}
<1>5. p \in U /\ V \in SUBSET U /\ V # U /\ p \notin B
  BY <1>4, PickIn
<1>6. Adds(V)
  BY <1>1, <1>5
<1>7. IsFiniteSet(B \cup U) /\ IsFiniteSet(V)
  BY <1>5, FS_Subset, FS_Union
<1>8. Sum(f, B \cup U) = f[p] + Sum(f, (B \cup U) \ {p})
  <2>1. p \in B \cup U /\ \A s \in B \cup U : f[s] \in Int
    BY <1>5
  <2> HIDE DEF p
  <2> QED BY <1>7, <2>1, SumTake
<1>9. (B \cup U) \ {p} = B \cup V
  BY <1>5
<1>10. f[p] \in Int /\ Sum(f, V) \in Int
  BY <1>5, <1>7, SumIsInt
<1>11. /\ Sum(f, B \cup U) = f[p] + Sum(f, B \cup V) /\ Sum(f, U) = f[p] + Sum(f, V)
       /\ Sum(f, B \cup V) = Sum(f, B) + Sum(f, V)
  BY <1>2, <1>4, <1>6, <1>8, <1>9
<1>12. ~Adds(U)
  BY <1>1
<1> HIDE DEF p, V
<1> QED BY <1>3, <1>10, <1>11, <1>12

(* What is additive is, on a set, the sum of what it is on the parts.      *)
Additive(c, A) ==
  /\ c \in [SUBSET A -> Int] /\ c[{}] = 0
  /\ \A B, C \in SUBSET A : B \cap C = {} => c[B \cup C] = c[B] + c[C]

(* The elements that belong to a value, and what c is of them.             *)
Share(A, part, r) == {a \in A : part[a] = r}
Shares(c, A, part, R) == [r \in R |-> c[Share(A, part, r)]]

(* What is additive on A is the sum over the shares of A.                  *)
LEMMA SumOfParts ==
  ASSUME NEW A, NEW c, Additive(c, A),
         NEW part, NEW R, IsFiniteSet(R), \A a \in A : part[a] \in R
  PROVE  c[A] = Sum(Shares(c, A, part, R), R)
<1> DEFINE Of(Q) == {a \in A : part[a] \in Q}
           g == Shares(c, A, part, R)
           Adds(Q) == c[Of(Q)] = Sum(g, Q)
<1> SUFFICES ASSUME ~Adds(R) PROVE FALSE
  <2>1. Of(R) = A
    OBVIOUS
  <2> HIDE DEF Of
  <2> QED BY <2>1
<1> DEFINE Bad == {Q \in SUBSET R : ~Adds(Q)}
<1>1. PICK U \in Bad : \A W \in SUBSET U : W # U => W \notin Bad
  <2>1. Bad \subseteq SUBSET R /\ Bad # {}
    OBVIOUS
  <2> HIDE DEF Bad
  <2> QED BY <2>1, LeastSubset
<1>2. Sum(g, U) = IF U = {} THEN 0 ELSE g[Pick(U)] + Sum(g, U \ {Pick(U)})
  <2> HIDE DEF g
  <2> QED BY SumStep, FS_Subset
<1>3. U # {}
  <2>1. Of({}) = {}
    OBVIOUS
  <2>2. Sum(g, {}) = 0
    BY SumStep, FS_EmptySet
  <2>3. Adds({})
    BY <2>1, <2>2 DEF Additive
  <2> QED BY <2>3
<1> DEFINE p == Pick(U)
           V == U \ {p}
           P == Share(A, part, p)
<1>4. p \in U /\ p \in R /\ V \in SUBSET U /\ V # U
  BY <1>3, PickIn
<1>5. Adds(V)
  BY <1>1, <1>4
<1>6. g[p] = c[P]
  BY <1>4 DEF Shares
<1>7. P \cap Of(V) = {} /\ P \cup Of(V) = Of(U) /\ P \in SUBSET A /\ Of(V) \in SUBSET A
  BY <1>4 DEF Share
<1>8. c[Of(U)] = c[P] + c[Of(V)]
  <2> HIDE DEF P, Of
  <2> QED BY <1>7 DEF Additive
<1>9. Sum(g, U) = g[p] + Sum(g, V)
  BY <1>2, <1>3
<1> HIDE DEF Of, P, V, p, g
<1> QED BY <1>5, <1>6, <1>8, <1>9

-----------------------------------------------------------------------------
(* The tables.                                                             *)

Places == Releases \cup {Everywhere}

Rows ==
  [type : Types \cup {"NONE"}, package : Packages \cup {Everywhere}, release : Places,
   enabled : BOOLEAN, closed : BOOLEAN, result : Nat, new : {0, 1}, fixed : {0, 1},
   open : BOOLEAN, waiver : Decisions \cup {"NONE", "COMMENT"}, is_active : BOOLEAN]

TypeOK ==
  /\ scan \in [Scans -> Rows]
  /\ active \subseteq Releases
  /\ key \in Keys
  /\ DOMAIN pending \subseteq Places /\ \A r \in DOMAIN pending : pending[r] \in Int
  /\ results \in Seq([release : Places, value : Int])
  /\ version \in Nat /\ taken \in 0 .. version
  /\ shown \in [Places -> 0 .. version]

(* A scan is of a release.  Only targets are compared with a base, so only *)
(* they have new defects, groups that wait, and waivers.                   *)
RowInv ==
  \A s \in Scans :
    /\ scan[s].type # "NONE" => scan[s].release \in Releases
    /\ scan[s].new # 0 \/ scan[s].open \/ scan[s].is_active => scan[s].type \in Kinds
    /\ scan[s].is_active => scan[s].waiver \in Decisions

(* A value that was computed from the tables as they are is what it should *)
(* be, stored or not.                                                      *)
ValueInv ==
  /\ taken = version => \A r \in DOMAIN pending : pending[r] = Value(key, r)
  /\ ShownIsCurrent

IInv == TypeOK /\ RowInv /\ ValueInv

USE BoundsAssumption, ChildAssumption, MeasuresAssumption, KeysAssumption

LEMMA ScansFinite == IsFiniteSet(Scans)
  BY FS_Interval DEF Scans

LEMMA SubsetsFinite == \A S \in SUBSET Scans : IsFiniteSet(S) /\ Cardinality(S) \in Nat
  BY ScansFinite, FS_Subset, FS_CardinalityType

(* The querysets are of scans.                                             *)
LEMMA ChosenFinite ==
  ASSUME NEW kind, NEW r
  PROVE  Chosen(kind, r) \in SUBSET Scans /\ Enabled(kind, r) \in SUBSET Scans
         /\ Waived(kind, r) \in SUBSET Scans /\ Target(Enabled(kind, r)) \in SUBSET Scans
  BY DEF Chosen, Enabled, Present, Waived, Target

(* What the keys of the catalogue are, by whether they are by release.     *)
LEMMA KeysOf ==
  ASSUME NEW k \in Catalogue
  PROVE  /\ \E w : k \in [what : {w}, kind : AnyKind, by_release : BOOLEAN]
         /\ \/ k.what \in {"scans", "submitted", "missing", "fixed", "new", "lines"} \cup Decisions
            \/ k.what \in {"eliminated", "fixed in", "fixed between", "new between"}
               /\ k.by_release = TRUE
            \/ k.what \in {"busy", "scanning"} /\ k.by_release = FALSE
<1>1. PICK Part \in { UNION {Both(w, AnyKind) : w \in {"scans", "submitted", "missing"}},
                     UNION {Both(w, {"total", "REBASE", "ERRATA"}) : w \in {"fixed", "new"}},
                     UNION {Both(w, {"total"}) : w \in Decisions \cup {"lines"}},
                     UNION {ByRelease(w, Kinds) : w \in Decisions \cup {"eliminated"}},
                     UNION {ByRelease(w, {"total"}) :
                              w \in {"fixed in", "fixed between", "new between"}},
                     UNION {Global(w) : w \in {"busy", "scanning"}} } : k \in Part
  BY Zenon DEF Catalogue
<1>2. CASE Part = UNION {Both(w, AnyKind) : w \in {"scans", "submitted", "missing"}}
  <2>1. PICK w \in {"scans", "submitted", "missing"} : k \in Both(w, AnyKind)
    BY <1>1, <1>2, Zenon
  <2> QED BY <2>1 DEF Both, AnyKind, Kinds
<1>3. CASE Part = UNION {Both(w, {"total", "REBASE", "ERRATA"}) : w \in {"fixed", "new"}}
  <2>1. PICK w \in {"fixed", "new"} : k \in Both(w, {"total", "REBASE", "ERRATA"})
    BY <1>1, <1>3, Zenon
  <2> QED BY <2>1 DEF Both, AnyKind, Kinds
<1>4. CASE Part = UNION {Both(w, {"total"}) : w \in Decisions \cup {"lines"}}
  <2>1. PICK w \in Decisions \cup {"lines"} : k \in Both(w, {"total"})
    BY <1>1, <1>4, Zenon
  <2> QED BY <2>1 DEF Both, AnyKind, Kinds
<1>5. CASE Part = UNION {ByRelease(w, Kinds) : w \in Decisions \cup {"eliminated"}}
  <2>1. PICK w \in Decisions \cup {"eliminated"} : k \in ByRelease(w, Kinds)
    BY <1>1, <1>5, Zenon
  <2> QED BY <2>1 DEF ByRelease, AnyKind, Kinds
<1>6. CASE Part = UNION {ByRelease(w, {"total"}) :
                           w \in {"fixed in", "fixed between", "new between"}}
  <2>1. PICK w \in {"fixed in", "fixed between", "new between"} : k \in ByRelease(w, {"total"})
    BY <1>1, <1>6, Zenon
  <2> QED BY <2>1 DEF ByRelease, AnyKind, Kinds
<1>7. CASE Part = UNION {Global(w) : w \in {"busy", "scanning"}}
  <2>1. PICK w \in {"busy", "scanning"} : k \in Global(w)
    BY <1>1, <1>7, Zenon
  <2> QED BY <2>1 DEF Global, AnyKind, Kinds
<1> QED BY <1>1, <1>2, <1>3, <1>4, <1>5, <1>6, <1>7

(* Every statistic is a number.                                            *)
LEMMA ValueIsInt ==
  ASSUME TypeOK, NEW k \in Catalogue, NEW r
  PROVE  Value(k, r) \in Int
<1>1. \A S \in SUBSET Scans : Cardinality(S) \in Nat /\ IsFiniteSet(S)
  BY SubsetsFinite
<1>2. \A s \in Scans : New[s] \in Int /\ Fixed[s] \in Int
  BY DEF New, Fixed, TypeOK, Rows
<1>3. \A f, S : S \in SUBSET Scans /\ (\A s \in Scans : f[s] \in Int) => Sum(f, S) \in Int
  BY <1>1, SumIsInt
<1>4. Enabled(k.kind, r) \in SUBSET Scans /\ Enabled("total", r) \in SUBSET Scans
  BY ChosenFinite
<1>5. ASSUME NEW f, \A s \in Scans : f[s] \in Int, NEW s \in Scans, NEW T \in SUBSET Scans
      PROVE  Difference(f, s, T) \in Int
  <2>1. \A t \in Scans : [u \in Scans |-> f[u] - f[s]][t] \in Int
    BY <1>5
  <2>2. Sum([u \in Scans |-> f[u] - f[s]], T) \in Int
    BY <1>3, <1>5, <2>1
  <2> QED BY <2>2 DEF Difference
<1>6. \A s \in Scans : First(s) \in SUBSET Scans /\ Previous(s) \in SUBSET Scans
  BY DEF First, Previous, Target, Enabled, Chosen, Present
<1>7. ASSUME NEW f, \A s \in Scans : f[s] \in Int
      PROVE  InPackage(f, k.kind, r) \in Int /\ Between(f, r) \in Int
  <2>1. \A s \in Scans : [u \in Scans |-> Difference(f, u, First(u))][s] \in Int
    BY <1>5, <1>6, <1>7
  <2>2. \A s \in Scans : [u \in Scans |-> 0 - Difference(f, u, Previous(u))][s] \in Int
    BY <1>5, <1>6, <1>7
  <2>3. InPackage(f, k.kind, r) \in Int
    BY <1>3, <1>4, <2>1 DEF InPackage
  <2>4. Between(f, r) \in Int
    BY <1>3, <1>4, <2>2 DEF Between
  <2> QED BY <2>3, <2>4
<1>8. /\ Defects(New, k.kind, r) \in Int /\ Defects(Fixed, k.kind, r) \in Int
      /\ InPackage(New, k.kind, r) \in Int /\ InPackage(Fixed, k.kind, r) \in Int
      /\ Between(New, r) \in Int /\ Between(Fixed, r) \in Int
  BY <1>2, <1>3, <1>4, <1>7 DEF Defects
<1>9. /\ ScanCount(k.kind, r) \in Int /\ Submitted(k.kind, r) \in Int
      /\ Missing(k.kind, r) \in Int /\ Decided(k.what, k.kind, r) \in Int
  BY <1>1, <1>4, ChosenFinite DEF ScanCount, Submitted, Missing, Decided
<1>10. LineCount(r) \in Int /\ BusyMinutes \in Int /\ MinutesScanning \in Int
  <2>1. {s \in Enabled("total", r) : scan[s].result # 0} \in SUBSET Scans
    BY <1>4
  <2>2. /\ {s \in Present : scan[s].closed} \in SUBSET Scans
        /\ {s \in Present : scan[s].result # 0} \in SUBSET Scans
    BY DEF Present
  <2>3. LineCount(r) \in Int
    BY <1>1, <2>1 DEF LineCount
  <2>4. BusyMinutes \in Int /\ MinutesScanning \in Int
    BY <1>1, <2>2 DEF BusyMinutes, MinutesScanning
  <2> QED BY <2>3, <2>4
<1>11. k.what \in {"scans", "lines", "fixed", "new", "eliminated", "fixed in", "fixed between",
                   "new between", "submitted", "missing", "busy", "scanning"} \cup Decisions
  BY KeysOf
<1> QED BY <1>8, <1>9, <1>10, <1>11 DEF Value, Decisions

(* It depends on the scans alone.                                          *)
LEMMA ValueStays ==
  ASSUME UNCHANGED scan, NEW k, NEW r
  PROVE  Value(k, r)' = Value(k, r)
  BY DEF Value, ScanCount, LineCount, Defects, InPackage, Between, Submitted, Missing, Decided,
         BusyMinutes, MinutesScanning, New, Fixed, Enabled, Chosen, Target, Present, OfKind,
         By, Difference, First, Previous, Waived

-----------------------------------------------------------------------------
(* Parts and totals.                                                       *)

(* A multiple of the number of elements is additive.                       *)
LEMMA CountAdds ==
  ASSUME NEW A \in SUBSET Scans, NEW n \in Nat
  PROVE  Additive([S \in SUBSET A |-> n * Cardinality(S)], A)
<1>1. \A S \in SUBSET A : IsFiniteSet(S) /\ Cardinality(S) \in Nat
  BY SubsetsFinite
<1>2. Cardinality({}) = 0
  BY FS_EmptySet
<1>3. ASSUME NEW B \in SUBSET A, NEW C \in SUBSET A, B \cap C = {}
      PROVE  n * Cardinality(B \cup C) = n * Cardinality(B) + n * Cardinality(C)
  <2>1. Cardinality(B \cup C) = Cardinality(B) + Cardinality(C)
    <3>1. Cardinality(B \cup C) = Cardinality(B) + Cardinality(C) - Cardinality(B \cap C)
      BY <1>1, FS_Union
    <3>2. Cardinality(B \cap C) = 0
      BY <1>2, <1>3
    <3>3. Cardinality(B) \in Nat /\ Cardinality(C) \in Nat
      BY <1>1
    <3> QED BY <3>1, <3>2, <3>3
  <2>2. \A i, j \in Nat : n * (i + j) = n * i + n * j
    OBVIOUS
  <2> QED BY <1>1, <2>1, <2>2
<1>4. \A i \in Nat : n * i \in Int
  OBVIOUS
<1>5. n * 0 = 0
  OBVIOUS
<1> QED BY <1>1, <1>2, <1>3, <1>4, <1>5 DEF Additive

(* So is a sum over the elements.                                          *)
LEMMA SumAdds ==
  ASSUME NEW A \in SUBSET Scans, NEW f, \A s \in A : f[s] \in Int
  PROVE  Additive([S \in SUBSET A |-> Sum(f, S)], A)
<1>1. \A S \in SUBSET A : IsFiniteSet(S)
  BY SubsetsFinite
<1>2. \A S \in SUBSET A : Sum(f, S) \in Int
  BY <1>1, SumIsInt
<1>3. Sum(f, {}) = 0
  BY SumStep, FS_EmptySet
<1>4. \A B, C \in SUBSET A : B \cap C = {} => Sum(f, B \cup C) = Sum(f, B) + Sum(f, C)
  BY <1>1, SumUnion
<1> QED BY <1>2, <1>3, <1>4 DEF Additive

(* A is split by part, in R.                                               *)
LEMMA CountParts ==
  ASSUME NEW A \in SUBSET Scans, NEW n \in Nat,
         NEW part, NEW R, IsFiniteSet(R), \A a \in A : part[a] \in R
  PROVE  n * Cardinality(A) = Sum([r \in R |-> n * Cardinality(Share(A, part, r))], R)
<1> DEFINE c == [S \in SUBSET A |-> n * Cardinality(S)]
           f == Shares(c, A, part, R)
           g == [r \in R |-> n * Cardinality(Share(A, part, r))]
<1>2. c[A] = Sum(f, R)
  <2>1. Additive(c, A)
    BY CountAdds
  <2> HIDE DEF c
  <2> QED BY <2>1, SumOfParts
<1>3. \A r \in R : f[r] = g[r]
  BY DEF Shares, Share
<1>4. Sum(f, R) = Sum(g, R)
  <2> HIDE DEF f, g
  <2> QED BY <1>3, SumEqual
<1>5. c[A] = n * Cardinality(A)
  OBVIOUS
<1> HIDE DEF c, f
<1> QED BY <1>2, <1>4, <1>5

(* The same for the number of elements itself.                             *)
LEMMA OneByOne ==
  ASSUME NEW A \in SUBSET Scans,
         NEW part, NEW R, IsFiniteSet(R), \A a \in A : part[a] \in R
  PROVE  Cardinality(A) = Sum([r \in R |-> Cardinality(Share(A, part, r))], R)
<1> DEFINE f == [r \in R |-> 1 * Cardinality(Share(A, part, r))]
           g == [r \in R |-> Cardinality(Share(A, part, r))]
<1>1. 1 * Cardinality(A) = Sum(f, R)
  <2> HIDE DEF f
  <2> QED BY CountParts, 1 \in Nat DEF f
<1>2. 1 * Cardinality(A) = Cardinality(A)
  BY SubsetsFinite
<1>3. \A r \in R : f[r] = g[r]
  <2>1. \A r \in R : Cardinality(Share(A, part, r)) \in Nat
    BY SubsetsFinite DEF Share
  <2> QED BY <2>1
<1>4. Sum(f, R) = Sum(g, R)
  <2> HIDE DEF f, g
  <2> QED BY <1>3, SumEqual
<1> HIDE DEF f
<1> QED BY <1>1, <1>2, <1>4

(* And for a sum over them.                                                *)
LEMMA SumParts ==
  ASSUME NEW A \in SUBSET Scans, NEW f, \A s \in A : f[s] \in Int,
         NEW part, NEW R, IsFiniteSet(R), \A a \in A : part[a] \in R
  PROVE  Sum(f, A) = Sum([r \in R |-> Sum(f, Share(A, part, r))], R)
<1> DEFINE c == [S \in SUBSET A |-> Sum(f, S)]
           e == Shares(c, A, part, R)
           g == [r \in R |-> Sum(f, Share(A, part, r))]
<1>2. c[A] = Sum(e, R)
  <2>1. Additive(c, A)
    BY SumAdds
  <2> HIDE DEF c
  <2> QED BY <2>1, SumOfParts
<1>3. \A r \in R : e[r] = g[r]
  BY DEF Shares, Share
<1>4. Sum(e, R) = Sum(g, R)
  <2> HIDE DEF e, g
  <2> QED BY <1>3, SumEqual
<1>5. c[A] = Sum(f, A)
  OBVIOUS
<1> HIDE DEF c, e
<1> QED BY <1>2, <1>4, <1>5

(* The scans by kind, the waivers by decision.                             *)
LEMMA KindsMakeTotal ==
  ASSUME TypeOK, RowInv, NEW r \in Places
  PROVE  /\ ScanCount("total", r) = Sum([k \in Kinds |-> ScanCount(k, r)], Kinds)
         /\ Missing("total", r) = Sum([k \in Kinds |-> Missing(k, r)], Kinds)
         /\ \A kind \in AnyKind :
              Submitted(kind, r) = Sum([d \in Decisions |-> Decided(d, kind, r)], Decisions)
<1>1. IsFiniteSet(Kinds) /\ IsFiniteSet(Decisions)
  <2>1. \A a, b, c : IsFiniteSet(({a} \cup {b}) \cup {c})
    BY FS_Singleton, FS_Union
  <2>2. /\ Kinds = ({"ERRATA"} \cup {"REBASE"}) \cup {"NEWPKG"}
        /\ Decisions = ({"IS_A_BUG"} \cup {"NOT_A_BUG"}) \cup {"FIX_LATER"}
    BY DEF Kinds, Decisions
  <2> QED BY <2>1, <2>2
<1> DEFINE type == [s \in Scans |-> scan[s].type]
           waiver == [s \in Scans |-> scan[s].waiver]
           T == Target(Enabled("total", r))
           M == {s \in Enabled("total", r) : scan[s].open}
<1>2. T \in SUBSET Scans /\ M \in SUBSET Scans /\ \A s \in T \cup M : type[s] \in Kinds
  BY ChosenFinite DEF Target, RowInv
<1>3. \A k \in Kinds : /\ Share(T, type, k) = Target(Enabled(k, r))
                       /\ Share(M, type, k) = {s \in Enabled(k, r) : scan[s].open}
  BY ChosenFinite DEF Target, Enabled, Chosen, OfKind, Present, Kinds, Share
<1>4. Cardinality(T) = Sum([k \in Kinds |-> ScanCount(k, r)], Kinds)
  <2>1. Cardinality(T) = Sum([k \in Kinds |-> Cardinality(Share(T, type, k))], Kinds)
    <3> HIDE DEF T, type
    <3> QED BY <1>1, <1>2, OneByOne
  <2>2. [k \in Kinds |-> Cardinality(Share(T, type, k))] = [k \in Kinds |-> ScanCount(k, r)]
    BY <1>3 DEF ScanCount
  <2> QED BY <2>1, <2>2
<1>5. Cardinality(M) = Sum([k \in Kinds |-> Missing(k, r)], Kinds)
  <2>1. Cardinality(M) = Sum([k \in Kinds |-> Cardinality(Share(M, type, k))], Kinds)
    <3> HIDE DEF M, type
    <3> QED BY <1>1, <1>2, OneByOne
  <2>2. [k \in Kinds |-> Cardinality(Share(M, type, k))] = [k \in Kinds |-> Missing(k, r)]
    BY <1>3 DEF Missing
  <2> QED BY <2>1, <2>2
<1>6. ASSUME NEW kind \in AnyKind
      PROVE  Submitted(kind, r) = Sum([d \in Decisions |-> Decided(d, kind, r)], Decisions)
  <2> DEFINE W == Waived(kind, r)
  <2>1. W \in SUBSET Scans /\ \A s \in W : waiver[s] \in Decisions
    BY ChosenFinite DEF Waived, RowInv
  <2>2. Cardinality(W) = Sum([d \in Decisions |-> Cardinality(Share(W, waiver, d))], Decisions)
    <3> HIDE DEF W, waiver
    <3> QED BY <1>1, <2>1, OneByOne
  <2>3. \A d \in Decisions : Share(W, waiver, d) = {s \in W : scan[s].waiver = d}
    BY <2>1 DEF Share
  <2>4. [d \in Decisions |-> Cardinality(Share(W, waiver, d))]
          = [d \in Decisions |-> Decided(d, kind, r)]
    BY <2>3 DEF Decided
  <2> QED BY <2>2, <2>4 DEF Submitted
<1> QED BY <1>4, <1>5, <1>6 DEF ScanCount, Missing

(* Sets of scans that do not tell releases apart add up by release.        *)
Splits(A) ==
  /\ A \in [Places -> SUBSET Scans]
  /\ \A s \in A[Everywhere] : scan[s].release \in Releases
  /\ \A r \in Releases : A[r] = {s \in A[Everywhere] : scan[s].release = r}

LEMMA CountByRelease ==
  ASSUME NEW A, Splits(A), NEW n \in Nat
  PROVE  n * Cardinality(A[Everywhere])
           = Sum([r \in Releases |-> n * Cardinality(A[r])], Releases)
<1> DEFINE part == [s \in Scans |-> scan[s].release]
           B == A[Everywhere]
<1>1. B \in SUBSET Scans /\ \A s \in B : part[s] \in Releases
  BY DEF Splits, Places
<1>2. n * Cardinality(B)
        = Sum([r \in Releases |-> n * Cardinality(Share(B, part, r))], Releases)
  <2> HIDE DEF part, B
  <2> QED BY <1>1, CountParts, ReleasesAssumption
<1>3. \A r \in Releases : Share(B, part, r) = A[r]
  BY <1>1 DEF Splits, Share
<1>4. [r \in Releases |-> n * Cardinality(Share(B, part, r))]
        = [r \in Releases |-> n * Cardinality(A[r])]
  BY <1>3
<1> QED BY <1>2, <1>4

LEMMA OneByRelease ==
  ASSUME NEW A, Splits(A)
  PROVE  Cardinality(A[Everywhere]) = Sum([r \in Releases |-> Cardinality(A[r])], Releases)
<1>1. \A r \in Places : 1 * Cardinality(A[r]) = Cardinality(A[r])
  <2>1. \A r \in Places : Cardinality(A[r]) \in Nat
    BY SubsetsFinite DEF Splits
  <2> QED BY <2>1
<1>2. [r \in Releases |-> 1 * Cardinality(A[r])] = [r \in Releases |-> Cardinality(A[r])]
  BY <1>1 DEF Places
<1>3. 1 * Cardinality(A[Everywhere])
        = Sum([r \in Releases |-> 1 * Cardinality(A[r])], Releases)
  BY CountByRelease, 1 \in Nat
<1> QED BY <1>1, <1>2, <1>3 DEF Places

LEMMA SumByRelease ==
  ASSUME NEW A, Splits(A), NEW f, \A s \in Scans : f[s] \in Int
  PROVE  Sum(f, A[Everywhere]) = Sum([r \in Releases |-> Sum(f, A[r])], Releases)
<1> DEFINE part == [s \in Scans |-> scan[s].release]
           B == A[Everywhere]
<1>1. /\ B \in SUBSET Scans
      /\ \A s \in B : part[s] \in Releases
      /\ \A s \in B : f[s] \in Int
  BY DEF Splits, Places
<1>2. Sum(f, B) = Sum([r \in Releases |-> Sum(f, Share(B, part, r))], Releases)
  <2> HIDE DEF part, B
  <2> QED BY <1>1, SumParts, ReleasesAssumption
<1>3. \A r \in Releases : Share(B, part, r) = A[r]
  BY <1>1 DEF Splits, Share
<1>4. [r \in Releases |-> Sum(f, Share(B, part, r))] = [r \in Releases |-> Sum(f, A[r])]
  BY <1>3
<1> QED BY <1>2, <1>4

(* The waivers of a decision, by release.                                  *)
DecidedAs(d, kind) == [r \in Places |-> {s \in Waived(kind, r) : scan[s].waiver = d}]

(* The querysets that the statistics count do that.                        *)
LEMMA QuerysetsSplit ==
  ASSUME TypeOK, RowInv, NEW kind
  PROVE  /\ Splits([r \in Places |-> Enabled(kind, r)])
         /\ Splits([r \in Places |-> Target(Enabled(kind, r))])
         /\ Splits([r \in Places |-> Waived(kind, r)])
         /\ Splits([r \in Places |-> {s \in Enabled(kind, r) : scan[s].open}])
         /\ Splits([r \in Places |-> {s \in Enabled(kind, r) : scan[s].result # 0}])
         /\ \A d : Splits(DecidedAs(d, kind))
<1>1. \A r : /\ Chosen(kind, r) \in SUBSET Scans /\ Enabled(kind, r) \in SUBSET Scans
             /\ Waived(kind, r) \in SUBSET Scans /\ Target(Enabled(kind, r)) \in SUBSET Scans
  BY ChosenFinite
<1>2. /\ \A s \in Chosen(kind, Everywhere) : scan[s].release \in Releases
      /\ \A r \in Releases :
           Chosen(kind, r) = {s \in Chosen(kind, Everywhere) : scan[s].release = r}
  BY DEF Chosen, Present, By, RowInv
<1>3. \A r \in Releases :
        /\ Enabled(kind, r) = {s \in Enabled(kind, Everywhere) : scan[s].release = r}
        /\ Waived(kind, r) = {s \in Waived(kind, Everywhere) : scan[s].release = r}
  BY <1>2 DEF Enabled, Waived
<1>4. /\ Enabled(kind, Everywhere) \subseteq Chosen(kind, Everywhere)
      /\ Waived(kind, Everywhere) \subseteq Chosen(kind, Everywhere)
  BY DEF Enabled, Waived
<1>5. Splits([r \in Places |-> Enabled(kind, r)])
  BY <1>1, <1>2, <1>3, <1>4 DEF Splits, Places
<1>6. Splits([r \in Places |-> Waived(kind, r)])
  BY <1>1, <1>2, <1>3, <1>4 DEF Splits, Places
<1>7. Splits([r \in Places |-> Target(Enabled(kind, r))])
  BY <1>1, <1>2, <1>3, <1>4 DEF Splits, Places, Target
<1>8. Splits([r \in Places |-> {s \in Enabled(kind, r) : scan[s].open}])
  BY <1>1, <1>2, <1>3, <1>4 DEF Splits, Places
<1>9. Splits([r \in Places |-> {s \in Enabled(kind, r) : scan[s].result # 0}])
  BY <1>1, <1>2, <1>3, <1>4 DEF Splits, Places
<1>10. ASSUME NEW d
       PROVE  Splits(DecidedAs(d, kind))
  BY <1>1, <1>2, <1>3, <1>4 DEF Splits, Places, DecidedAs
<1> QED BY <1>5, <1>6, <1>7, <1>8, <1>9, <1>10

(* A statistic that is there with and without releases adds up.            *)
LEMMA ReleasesMakeTotal ==
  ASSUME TypeOK, RowInv, NEW k \in Summed
  PROVE  Value(k, Everywhere) = Sum([r \in Releases |-> Value(k, r)], Releases)
<1>1. k \in Catalogue /\ [k EXCEPT !.by_release = ~@] \in Catalogue /\ ~k.by_release
  BY DEF Summed
<1>2. k.what \in {"scans", "submitted", "missing", "fixed", "new", "lines"} \cup Decisions
  <2>1. \E w : k \in [what : {w}, kind : AnyKind, by_release : BOOLEAN]
    BY <1>1, KeysOf
  <2>2. [k EXCEPT !.by_release = ~@].what = k.what
        /\ [k EXCEPT !.by_release = ~@].by_release = TRUE
    BY <1>1, <2>1
  <2>3. \/ k.what \in {"scans", "submitted", "missing", "fixed", "new", "lines"} \cup Decisions
        \/ k.what \in {"eliminated", "fixed in", "fixed between", "new between"}
           /\ k.by_release = TRUE
        \/ k.what \in {"busy", "scanning"}
    BY <1>1, KeysOf
  <2>4. k.what \notin {"busy", "scanning"}
    BY <1>1, <2>2, KeysOf DEF Decisions
  <2> QED BY <1>1, <2>3, <2>4
<1>3. \A s \in Scans : New[s] \in Int /\ Fixed[s] \in Int
  BY DEF New, Fixed, TypeOK, Rows
<1>4. ASSUME NEW A, Splits(A), \A r \in Places : Value(k, r) = Cardinality(A[r])
      PROVE  Value(k, Everywhere) = Sum([r \in Releases |-> Value(k, r)], Releases)
  <2>1. Cardinality(A[Everywhere]) = Sum([r \in Releases |-> Cardinality(A[r])], Releases)
    BY <1>4, OneByRelease
  <2>2. [r \in Releases |-> Value(k, r)] = [r \in Releases |-> Cardinality(A[r])]
    BY <1>4 DEF Places
  <2> QED BY <1>4, <2>1, <2>2 DEF Places
<1>5. CASE k.what = "scans"
  <2> DEFINE A == [r \in Places |-> Target(Enabled(k.kind, r))]
  <2>1. \A r \in Places : Value(k, r) = Cardinality(A[r])
    BY <1>5 DEF Value, ScanCount, Decisions
  <2> HIDE DEF A
  <2> QED BY <1>4, <2>1, QuerysetsSplit DEF A
<1>6. CASE k.what = "submitted"
  <2> DEFINE A == [r \in Places |-> Waived(k.kind, r)]
  <2>1. \A r \in Places : Value(k, r) = Cardinality(A[r])
    BY <1>6 DEF Value, Submitted, Decisions
  <2> HIDE DEF A
  <2> QED BY <1>4, <2>1, QuerysetsSplit DEF A
<1>7. CASE k.what = "missing"
  <2> DEFINE A == [r \in Places |-> {s \in Enabled(k.kind, r) : scan[s].open}]
  <2>1. \A r \in Places : Value(k, r) = Cardinality(A[r])
    BY <1>7 DEF Value, Missing, Decisions
  <2> HIDE DEF A
  <2> QED BY <1>4, <2>1, QuerysetsSplit DEF A
<1>8. CASE k.what \in Decisions
  <2> DEFINE A == DecidedAs(k.what, k.kind)
  <2>1. \A r \in Places : Value(k, r) = Cardinality(A[r])
    BY <1>8 DEF DecidedAs, Value, Decided, Decisions
  <2>2. Splits(A)
    BY QuerysetsSplit
  <2> HIDE DEF A
  <2> QED BY <1>4, <2>1, <2>2
<1>9. CASE k.what = "lines"
  <2> DEFINE A == [r \in Places |-> {s \in Enabled("total", r) : scan[s].result # 0}]
  <2>1. Lines * Cardinality(A[Everywhere])
          = Sum([r \in Releases |-> Lines * Cardinality(A[r])], Releases)
    <3> HIDE DEF A
    <3> QED BY QuerysetsSplit, CountByRelease DEF A
  <2>2. \A r \in Places : Value(k, r) = Lines * Cardinality(A[r])
    BY <1>9 DEF Value, LineCount, Decisions
  <2> HIDE DEF A
  <2>3. [r \in Releases |-> Value(k, r)] = [r \in Releases |-> Lines * Cardinality(A[r])]
    BY <2>2 DEF Places
  <2> QED BY <2>1, <2>2, <2>3 DEF Places
<1>10. ASSUME NEW f, \A s \in Scans : f[s] \in Int,
             \A r \in Places : Value(k, r) = Defects(f, k.kind, r)
      PROVE  Value(k, Everywhere) = Sum([r \in Releases |-> Value(k, r)], Releases)
  <2> DEFINE A == [r \in Places |-> Enabled(k.kind, r)]
  <2>1. Sum(f, A[Everywhere]) = Sum([r \in Releases |-> Sum(f, A[r])], Releases)
    <3> HIDE DEF A
    <3> QED BY <1>10, QuerysetsSplit, SumByRelease DEF A
  <2>2. \A r \in Places : Value(k, r) = Sum(f, A[r])
    BY <1>10 DEF Defects
  <2> HIDE DEF A
  <2>3. [r \in Releases |-> Value(k, r)] = [r \in Releases |-> Sum(f, A[r])]
    BY <2>2 DEF Places
  <2> QED BY <2>1, <2>2, <2>3 DEF Places
<1>11. CASE k.what = "fixed"
  <2>1. \A r \in Places : Value(k, r) = Defects(Fixed, k.kind, r)
    BY <1>11 DEF Value, Decisions
  <2> QED BY <1>3, <1>10, <2>1
<1>12. CASE k.what = "new"
  <2>1. \A r \in Places : Value(k, r) = Defects(New, k.kind, r)
    BY <1>12 DEF Value, Decisions
  <2> QED BY <1>3, <1>10, <2>1
<1> QED BY <1>2, <1>5, <1>6, <1>7, <1>8, <1>9, <1>11, <1>12

(* A set of numbers up to n that is not empty has a last one.              *)
LEMMA LastOfSome ==
  ASSUME NEW n \in Nat, NEW S \in SUBSET (1 .. n), S # {}
  PROVE  \E i \in S : \A j \in S : j <= i
<1>1. IsFiniteSet(1 .. n)
  BY FS_Interval
<1> DEFINE Above(i) == {j \in S : i < j}
           Bad == {U \in SUBSET (1 .. n) : \E i \in S : U = Above(i)}
<1>2. Bad \subseteq SUBSET (1 .. n) /\ Bad # {}
  OBVIOUS
<1>3. PICK U \in Bad : \A W \in SUBSET U : W # U => W \notin Bad
  <2> HIDE DEF Bad
  <2> QED BY <1>1, <1>2, LeastSubset
<1>4. PICK i \in S : U = Above(i)
  BY <1>3
<1>5. ASSUME NEW j \in S, i < j
      PROVE  FALSE
  <2>1. j \in U /\ j \notin Above(j)
    BY <1>4, <1>5
  <2>2. \A k \in Above(j) : k \in Above(i)
    BY <1>5
  <2>3. Above(j) \in SUBSET U /\ Above(j) \in Bad
    BY <1>4, <2>2
  <2> QED BY <1>3, <2>1, <2>3
<1>6. \A j \in S : ~(i < j)
  BY <1>5
<1> QED BY <1>6

-----------------------------------------------------------------------------
(* Steps.                                                                  *)

(* The first state.                                                        *)
LEMMA InitIInv == Init => IInv
<1> SUFFICES ASSUME Init PROVE IInv
  OBVIOUS
<1>1. PICK t \in Kinds, p \in Packages, r \in Releases, new \in {0, 1} :
        scan = [s \in Scans |-> IF s = 1 THEN Finished(t, p, r, new) ELSE NoScan]
  BY DEF Init
<1> DEFINE row == Finished(t, p, r, new)
<1>2. row \in Rows /\ row.type \in Kinds /\ row.release \in Releases /\ row.is_active = FALSE
  <2>1. (new > 0) \in BOOLEAN
    OBVIOUS
  <2> QED BY <2>1 DEF Finished, Rows, NoScan, Types, Places
<1>3. /\ NoScan \in Rows /\ NoScan.type = "NONE" /\ NoScan.new = 0
      /\ ~NoScan.open /\ ~NoScan.is_active
  BY DEF NoScan, Rows, Places
<1> HIDE DEF row
<1>8. scan = [s \in Scans |-> IF s = 1 THEN row ELSE NoScan]
  BY <1>1 DEF row
<1>4. scan \in [Scans -> Rows]
  BY <1>8, <1>2, <1>3
<1>5. TypeOK
  BY <1>4, EmptySeq DEF Init, TypeOK, Places, NoValues
<1>6. RowInv
  BY <1>8, <1>2, <1>3 DEF RowInv
<1>7. ValueInv
  BY DEF Init, ValueInv, ShownIsCurrent, NoValues
<1> QED BY <1>5, <1>6, <1>7 DEF IInv

(* A change of the tables makes everything that was computed old.          *)
LEMMA ChangeIInv ==
  ASSUME IInv, Change, scan' \in [Scans -> Rows], RowInv', active' \subseteq active
  PROVE  IInv'
<1>1. TypeOK'
  BY DEF IInv, TypeOK, Change
<1>2. ValueInv'
  BY DEF IInv, TypeOK, Change, ValueInv, ShownIsCurrent
<1> QED BY <1>1, <1>2 DEF IInv

(* A row that is as rows are may be put in any place.                      *)
LEMMA PutIInv ==
  ASSUME IInv, NEW s \in Scans, NEW row \in Rows, Put(s, row), Change,
         row.type # "NONE" => row.release \in Releases,
         row.new # 0 \/ row.open \/ row.is_active => row.type \in Kinds,
         row.is_active => row.waiver \in Decisions
  PROVE  IInv'
<1>1. scan' \in [Scans -> Rows] /\ scan'[s] = row
      /\ \A t \in Scans \ {s} : scan'[t] = scan[t]
  BY DEF Put, IInv, TypeOK
<1>2. RowInv'
  BY <1>1 DEF IInv, RowInv
<1> QED BY <1>1, <1>2, ChangeIInv DEF Put

(* Whatever the rest of the hub does to a scan, its row stays so.          *)
LEMMA TablesIInv ==
  ASSUME IInv, NEW s \in Scans, Tables(s)
  PROVE  IInv'
<1>1. scan[s] \in Rows
  BY DEF IInv, TypeOK
<1>2. /\ scan[s].type # "NONE" => scan[s].release \in Releases
      /\ scan[s].new # 0 \/ scan[s].open \/ scan[s].is_active => scan[s].type \in Kinds
      /\ scan[s].is_active => scan[s].waiver \in Decisions
  BY DEF IInv, RowInv
<1>3. ASSUME NEW t \in Types, NEW p \in Packages, NEW r \in Releases, Submit(s, t, p, r)
      PROVE  IInv'
  <2> DEFINE new == [NoScan EXCEPT !.type = t, !.package = p, !.release = r, !.enabled = TRUE]
  <2>1. new \in Rows /\ new.release \in Releases /\ new.new = 0 /\ ~new.open /\ ~new.is_active
    BY DEF NoScan, Rows, Places
  <2>2. Put(s, new) /\ Change
    BY <1>3 DEF Submit
  <2> HIDE DEF new
  <2> QED BY <2>1, <2>2, PutIInv
<1>4. ASSUME NEW new \in {0, 1}, NEW fixed \in {0, 1}, Load(s, new, fixed)
      PROVE  IInv'
  <2> DEFINE row == [scan[s] EXCEPT !.result = Results + 1, !.new = new, !.fixed = fixed,
                                    !.open = new > 0]
  <2>1. Results + 1 \in Nat /\ (new > 0) \in BOOLEAN /\ ((new > 0) => new # 0)
    BY SubsetsFinite DEF Results
  <2>2. row \in Rows
    BY <1>1, <2>1 DEF Rows
  <2>3. /\ row.type = scan[s].type /\ row.release = scan[s].release
        /\ row.new = new /\ row.open = (new > 0)
        /\ row.is_active = scan[s].is_active /\ row.waiver = scan[s].waiver
    BY <1>1 DEF Rows
  <2>4. Put(s, row) /\ Change /\ (scan[s].type \in Kinds \/ new = 0)
    BY <1>4 DEF Load
  <2> HIDE DEF row
  <2> QED BY <1>2, <2>1, <2>2, <2>3, <2>4, PutIInv
<1>5. ASSUME NEW d \in Decisions, PostWaiver(s, d)
      PROVE  IInv'
  <2> DEFINE row == [scan[s] EXCEPT !.waiver = d, !.is_active = TRUE, !.open = FALSE]
  <2>1. /\ row \in Rows /\ row.type = scan[s].type /\ row.release = scan[s].release
        /\ row.waiver = d
    BY <1>1 DEF Rows
  <2>2. Put(s, row) /\ Change /\ scan[s].type \in Kinds
    BY <1>1, <1>2, <1>5 DEF PostWaiver
  <2> HIDE DEF row
  <2> QED BY <1>2, <2>1, <2>2, PutIInv
<1>6. ASSUME NEW open \in BOOLEAN, RemoveWaiver(s, open)
      PROVE  IInv'
  <2> DEFINE row == [scan[s] EXCEPT !.is_active = FALSE, !.open = open]
  <2>1. /\ row \in Rows /\ row.type = scan[s].type /\ row.release = scan[s].release
        /\ ~row.is_active
    BY <1>1 DEF Rows
  <2>2. Put(s, row) /\ Change /\ scan[s].type \in Kinds
    BY <1>2, <1>6 DEF RemoveWaiver
  <2> HIDE DEF row
  <2> QED BY <1>2, <2>1, <2>2, PutIInv
<1>7. ASSUME Close(s)
      PROVE  IInv'
  <2> DEFINE row == [scan[s] EXCEPT !.closed = TRUE]
  <2>1. /\ row \in Rows /\ row.type = scan[s].type /\ row.release = scan[s].release
        /\ row.new = scan[s].new /\ row.open = scan[s].open
        /\ row.is_active = scan[s].is_active /\ row.waiver = scan[s].waiver
    BY <1>1 DEF Rows
  <2>2. Put(s, row) /\ Change
    BY <1>7 DEF Close
  <2> HIDE DEF row
  <2> QED BY <1>2, <2>1, <2>2, PutIInv
<1>8. ASSUME Enable(s)
      PROVE  IInv'
  <2> DEFINE row == [scan[s] EXCEPT !.enabled = ~@]
  <2>1. /\ row \in Rows /\ row.type = scan[s].type /\ row.release = scan[s].release
        /\ row.new = scan[s].new /\ row.open = scan[s].open
        /\ row.is_active = scan[s].is_active /\ row.waiver = scan[s].waiver
    BY <1>1 DEF Rows
  <2>2. Put(s, row) /\ Change
    BY <1>8 DEF Enable
  <2> HIDE DEF row
  <2> QED BY <1>2, <2>1, <2>2, PutIInv
<1>9. ASSUME PostComment(s)
      PROVE  IInv'
  <2> DEFINE row == [scan[s] EXCEPT !.waiver = "COMMENT"]
  <2>1. /\ row \in Rows /\ row.type = scan[s].type /\ row.release = scan[s].release
        /\ row.is_active = scan[s].is_active
    BY <1>1 DEF Rows
  <2>2. Put(s, row) /\ Change /\ scan[s].type \in Kinds /\ ~scan[s].is_active
    BY <1>1, <1>2, <1>9 DEF PostComment, Decisions
  <2> HIDE DEF row
  <2> QED BY <1>2, <2>1, <2>2, PutIInv
<1> QED BY <1>3, <1>4, <1>5, <1>6, <1>7, <1>8, <1>9 DEF Tables

(* What was computed just now is what the tables say.                      *)
LEMMA MeasureIInv ==
  ASSUME IInv, Measure
  PROVE  IInv'
<1>1. UNCHANGED <<scan, key>> /\ version' = version /\ taken' = version
      /\ results' = results /\ shown' = shown
  BY DEF Measure
<1>2. \A r : Value(key, r) \in Int
  BY ValueIsInt DEF IInv, TypeOK
<1>3. Measured(key) \subseteq Places
  BY DEF Measured, IInv, TypeOK, Places
<1>4. DOMAIN pending' = Measured(key)
      /\ \A r \in Measured(key) : pending'[r] = Value(key, r)
  BY DEF Measure
<1>5. TypeOK'
  BY <1>1, <1>2, <1>3, <1>4 DEF IInv, TypeOK, Measure
<1>6. RowInv'
  BY <1>1 DEF IInv, RowInv
<1>7. \A r : Value(key, r)' = Value(key, r)
  BY <1>1, ValueStays
<1>8. ValueInv'
  BY <1>1, <1>4, <1>7 DEF IInv, ValueInv, ShownIsCurrent, display_value, ResultsOf, Latest
<1> QED BY <1>5, <1>6, <1>8 DEF IInv

(* What a page shows after a value was stored, or was not because it is    *)
(* what the page shows.                                                    *)
LEMMA Stored ==
  ASSUME IInv, NEW r \in DOMAIN pending, create_stat_result(r)
  PROVE  /\ results' \in Seq([release : Places, value : Int])
         /\ display_value(r)' = pending[r]
         /\ \A q \in Places \ {r} : display_value(q)' = display_value(q)
<1> DEFINE Row == [release : Places, value : Int]
           x == [release |-> r, value |-> pending[r]]
<1>1. results \in Seq(Row) /\ x \in Row
  BY DEF IInv, TypeOK
<1>2. Len(results) \in Nat /\ DOMAIN results = 1 .. Len(results)
  BY <1>1, LenProperties
<1>3. CASE ~IsNew(r, pending[r])
  <2>1. results' = results
    BY <1>3 DEF create_stat_result
  <2>2. PICK i \in Latest(r) : results[i].value = pending[r]
    BY <1>3 DEF IsNew
  <2>3. \A j \in Latest(r) : j = i
    BY <1>2, <2>2 DEF Latest, ResultsOf
  <2>4. ResultsOf(r) # {} /\ (CHOOSE j \in Latest(r) : TRUE) = i
    BY <2>2, <2>3 DEF Latest
  <2>5. display_value(r) = pending[r]
    BY <2>2, <2>4 DEF display_value
  <2>6. \A q : display_value(q)' = display_value(q)
    BY <2>1 DEF display_value, Latest, ResultsOf
  <2> QED BY <1>1, <2>1, <2>5, <2>6
<1>4. CASE IsNew(r, pending[r])
  <2> DEFINE n == Len(results) + 1
  <2>1. results' = Append(results, x)
    BY <1>4 DEF create_stat_result
  <2>2. /\ results' \in Seq(Row) /\ Len(results') = n /\ results'[n] = x
        /\ \A i \in 1 .. Len(results) : results'[i] = results[i]
    BY <1>1, <2>1, AppendProperties
  <2>3. DOMAIN results' = 1 .. n
    BY <2>2, LenProperties
  <2>4. /\ ResultsOf(r)' = ResultsOf(r) \cup {n} /\ n \notin ResultsOf(r)
        /\ \A q \in Places \ {r} : ResultsOf(q)' = ResultsOf(q)
    BY <1>2, <2>2, <2>3 DEF ResultsOf
  <2>5. Latest(r)' = {n}
    BY <1>2, <2>2, <2>3, <2>4 DEF Latest, ResultsOf
  <2>6. (CHOOSE j \in Latest(r)' : TRUE) = n
    BY <2>5
  <2>7. display_value(r)' = pending[r]
    <3>1. ResultsOf(r)' # {}
      BY <2>4
    <3>2. display_value(r)' = results'[CHOOSE j \in Latest(r)' : TRUE].value
      BY <3>1, Zenon DEF display_value
    <3>3. display_value(r)' = results'[n].value
      BY <2>6, <3>2, Zenon
    <3> QED BY <2>2, <3>3
  <2>8. ASSUME NEW q \in Places \ {r}
        PROVE  display_value(q)' = display_value(q)
    <3>1. Latest(q)' = Latest(q) /\ ResultsOf(q)' = ResultsOf(q)
      BY <2>4 DEF Latest
    <3>2. ResultsOf(q) # {} => Latest(q) # {}
      BY <1>2, LastOfSome DEF ResultsOf, Latest
    <3>3. ResultsOf(q) # {} => (CHOOSE j \in Latest(q) : TRUE) \in 1 .. Len(results)
      BY <1>2, <3>2 DEF Latest, ResultsOf
    <3> QED BY <2>2, <3>1, <3>3 DEF display_value
  <2> QED BY <2>2, <2>7, <2>8
<1> QED BY <1>3, <1>4

(* Storing one value leaves what other releases show.                      *)
LEMMA StoreIInv ==
  ASSUME IInv, NEW r \in DOMAIN pending, create_stat_result(r)
  PROVE  IInv'
<1>1. UNCHANGED <<scan, active, key, version, taken>>
      /\ pending' = [q \in DOMAIN pending \ {r} |-> pending[q]]
      /\ shown' = [shown EXCEPT ![r] = taken] /\ r \in Places
  BY DEF create_stat_result, IInv, TypeOK
<1>2. TypeOK'
  BY <1>1, Stored DEF IInv, TypeOK
<1>3. RowInv'
  BY <1>1 DEF IInv, RowInv
<1>4. \A q : Value(key, q)' = Value(key, q)
  BY <1>1, ValueStays
<1>5. ShownIsCurrent'
  <2> SUFFICES ASSUME NEW q \in DOMAIN shown', shown'[q] = version
               PROVE  display_value(q)' = Value(key, q)
    BY <1>1, <1>4 DEF ShownIsCurrent
  <2>1. q \in Places /\ DOMAIN shown = Places
    BY <1>1 DEF IInv, TypeOK
  <2>2. CASE q = r
    <3>1. taken = version
      BY <1>1, <2>1, <2>2
    <3> QED BY <2>2, <3>1, Stored DEF IInv, ValueInv
  <2>3. CASE q # r
    <3>1. shown[q] = version
      BY <1>1, <2>1, <2>3
    <3> QED BY <2>1, <2>3, <3>1, Stored DEF IInv, ValueInv, ShownIsCurrent
  <2> QED BY <2>2, <2>3
<1>6. ValueInv'
  BY <1>1, <1>4, <1>5 DEF IInv, ValueInv
<1> QED BY <1>2, <1>3, <1>6 DEF IInv

(* Every step.                                                             *)
LEMMA NextIInv == IInv /\ [Next]_vars => IInv'
<1> SUFFICES ASSUME IInv, [Next]_vars PROVE IInv'
  OBVIOUS
<1>1. ASSUME NEW s \in Scans, Tables(s)
      PROVE  IInv'
  BY <1>1, TablesIInv
<1>2. ASSUME NEW r \in Releases, Retire(r)
      PROVE  IInv'
  <2>1. Change /\ scan' = scan /\ active' \subseteq active
    BY <1>2 DEF Retire
  <2>2. scan' \in [Scans -> Rows] /\ RowInv'
    BY <2>1 DEF IInv, TypeOK, RowInv
  <2> QED BY <2>1, <2>2, ChangeIInv
<1>3. ASSUME Measure
      PROVE  IInv'
  BY <1>3, MeasureIInv
<1>4. ASSUME NEW r \in DOMAIN pending, create_stat_result(r)
      PROVE  IInv'
  BY <1>4, StoreIInv
<1>5. ASSUME UNCHANGED <<scan, active, key, results, version, taken, shown>>,
             pending' = pending \/ pending' = NoValues
      PROVE  IInv'
  <2>1. \A r : Value(key, r)' = Value(key, r)
    BY <1>5, ValueStays
  <2>2. TypeOK' /\ RowInv'
    BY <1>5 DEF IInv, TypeOK, RowInv, NoValues
  <2>3. \A r : display_value(r)' = display_value(r)
    BY <1>5 DEF display_value, Latest, ResultsOf
  <2>4. ValueInv'
    BY <1>5, <2>1, <2>3 DEF IInv, ValueInv, ShownIsCurrent, NoValues
  <2> QED BY <2>2, <2>4 DEF IInv
<1>6. CASE Abort
  BY <1>5, <1>6 DEF Abort
<1>7. CASE UNCHANGED vars
  BY <1>5, <1>7 DEF vars
<1> QED BY <1>1, <1>2, <1>3, <1>4, <1>6, <1>7 DEF Next

(* The invariant holds, for any tables, releases, statistics and runs.     *)
THEOREM Inductive == Spec => []IInv
<1> QED BY InitIInv, NextIInv, PTL DEF Spec

(* What a page shows is what the statistic was when it was computed last   *)
(* (display_value after osh-stats).                                        *)
THEOREM Current == Spec => []ShownIsCurrent
<1>1. IInv => ShownIsCurrent
  BY DEF IInv, ValueInv
<1> QED BY <1>1, Inductive, PTL

(* The statistics of the kinds of scans, of the decisions of waivers and of *)
(* the releases add up to those of everything (stattypes.py).              *)
THEOREM AddUp == Spec => []PartsMakeTotal
<1>1. IInv => PartsMakeTotal
  BY KindsMakeTotal, ReleasesMakeTotal DEF IInv, PartsMakeTotal, Places
<1> QED BY <1>1, Inductive, PTL
=============================================================================
