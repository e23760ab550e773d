----------------------------- MODULE LedgerSums -----------------------------
(***************************************************************************)
(* What the rebuild query's SUM computes of the ledger, for any finite set *)
(* of rows: it exists, it is an integer, and a row more or less counts     *)
(* once, whatever the order.  The fold of the community modules is a       *)
(* function defined by recursion on the subsets.  Induction over finite    *)
(* sets comes from the well-foundedness of strict inclusion, with the set  *)
(* of the subsets for which a fact holds in the place of a predicate.      *)
(***************************************************************************)
EXTENDS LedgerDB, FiniteSetTheorems, WellFoundedInduction, TLAPS

Total(S) == MapThenSumSet(SignedAmount, S)

Pick(T) == CHOOSE x \in T : TRUE

\* f is a function the fold may compute with on the subsets of S.
Folds(S, f) ==
  f = [T \in SUBSET S |-> IF T = {} THEN 0 ELSE SignedAmount(Pick(T)) + f[T \ {Pick(T)}]]

Folded(S) == CHOOSE f : Folds(S, f)

\* Rows whose amount the query can add.
Summable(S) == IsFiniteSet(S) /\ \A e \in S : SignedAmount(e) \in Int

-----------------------------------------------------------------------------
(* The fold.                                                               *)

\* What holds of a subset as soon as it holds of all smaller ones holds of all.
LEMMA SetInduction ==
  ASSUME NEW S, IsFiniteSet(S), NEW Good \in SUBSET SUBSET S,
         \A T \in SUBSET S : (\A U \in SUBSET T : U # T => U \in Good) => T \in Good
  PROVE  Good = SUBSET S
<1> SUFFICES ASSUME Good # SUBSET S PROVE FALSE
  OBVIOUS
<1> DEFINE Bad == (SUBSET S) \ Good
<1>1. Bad \subseteq SUBSET S /\ Bad # {}
  OBVIOUS
<1>2. IsWellFoundedOn(StrictSubsetOrdering(S), FiniteSubsetsOf(S))
  BY FS_StrictSubsetOrderingWellFounded
<1>3. IsWellFoundedOn(StrictSubsetOrdering(S), SUBSET S)
  <2>1. FiniteSubsetsOf(S) = SUBSET S
    BY FS_FiniteSubsetsOfFinite
  <2> QED BY <1>2, <2>1
<1>4. \E T \in Bad : \A U \in Bad : ~(<<U, T>> \in StrictSubsetOrdering(S))
  <2> HIDE DEF Bad
  <2> QED BY <1>1, <1>3, WFMin
<1>5. PICK T \in Bad : \A U \in Bad : ~(<<U, T>> \in StrictSubsetOrdering(S))
  BY <1>4
<1>6. ASSUME NEW U \in SUBSET T, U # T PROVE U \in Good
  <2>1. <<U, T>> \in StrictSubsetOrdering(S)
    BY <1>6 DEF StrictSubsetOrdering
  <2> QED BY <1>5, <2>1
<1>7. T \in SUBSET S /\ T \notin Good
  BY <1>5
<1> QED BY <1>6, <1>7

LEMMA FoldsUnique ==
  ASSUME NEW S, IsFiniteSet(S), NEW f, NEW g, Folds(S, f), Folds(S, g)
  PROVE  f = g
<1> DEFINE Good == {T \in SUBSET S : f[T] = g[T]}
<1>1. ASSUME NEW T \in SUBSET S, \A U \in SUBSET T : U # T => U \in Good PROVE T \in Good
  <2>1. CASE T = {}
    BY <2>1 DEF Folds
  <2>2. CASE T # {}
    <3>1. Pick(T) \in T
      BY <2>2 DEF Pick
    <3>2. T \ {Pick(T)} \in Good
      BY <1>1, <3>1
    <3>3. /\ f[T] = SignedAmount(Pick(T)) + f[T \ {Pick(T)}]
          /\ g[T] = SignedAmount(Pick(T)) + g[T \ {Pick(T)}]
      BY <2>2 DEF Folds
    <3> QED BY <3>2, <3>3
  <2> QED BY <2>1, <2>2
<1>2. Good = SUBSET S
  <2>1. Good \in SUBSET SUBSET S
    OBVIOUS
  <2> HIDE DEF Good
  <2> QED BY <1>1, <2>1, SetInduction
<1>3. f = [T \in SUBSET S |-> f[T]] /\ g = [T \in SUBSET S |-> g[T]]
  BY DEF Folds
<1> QED BY <1>2, <1>3

\* It computes the same on the subsets of a subset.
LEMMA FoldsRestrict ==
  ASSUME NEW S, NEW f, Folds(S, f), NEW U \in SUBSET S
  PROVE  Folds(U, [T \in SUBSET U |-> f[T]])
<1> DEFINE g == [T \in SUBSET U |-> f[T]]
<1>1. ASSUME NEW T \in SUBSET U
      PROVE  g[T] = IF T = {} THEN 0 ELSE SignedAmount(Pick(T)) + g[T \ {Pick(T)}]
  <2>1. f[T] = IF T = {} THEN 0 ELSE SignedAmount(Pick(T)) + f[T \ {Pick(T)}]
    BY DEF Folds
  <2>2. T \ {Pick(T)} \in SUBSET U
    OBVIOUS
  <2> QED BY <2>1, <2>2
<1>2. g = [T \in SUBSET U |-> IF T = {} THEN 0 ELSE SignedAmount(Pick(T)) + g[T \ {Pick(T)}]]
  BY <1>1
<1> QED BY <1>2 DEF Folds

\* The recursion defines a function: the one of a set is put together from those of
\* its subsets.
LEMMA FoldExists ==
  ASSUME NEW S, IsFiniteSet(S)
  PROVE  Folds(S, Folded(S))
<1> DEFINE Good == {T \in SUBSET S : Folds(T, Folded(T))}
<1>1. ASSUME NEW T \in SUBSET S, \A U \in SUBSET T : U # T => U \in Good PROVE T \in Good
  <2>1. ASSUME NEW V \in SUBSET T, V # T PROVE Folds(V, Folded(V)) /\ IsFiniteSet(V)
    BY <1>1, <2>1, FS_Subset
  <2>2. ASSUME NEW V \in SUBSET T, V # T, NEW W \in SUBSET V
        PROVE  Folded(V)[W] = Folded(W)[W]
    <3>1. W \in SUBSET T /\ W # T
      BY <2>2
    <3>2. Folds(V, Folded(V)) /\ Folds(W, Folded(W)) /\ IsFiniteSet(W)
      BY <2>1, <2>2, <3>1
    <3> DEFINE g == [X \in SUBSET W |-> Folded(V)[X]]
    <3>3. Folds(W, g)
      BY <3>2, FoldsRestrict
    <3>4. Folded(W) = g
      <4> HIDE DEF g
      <4> QED BY <3>2, <3>3, FoldsUnique
    <3> QED BY <3>4
  <2> DEFINE h == [U \in SUBSET T |-> IF U = {} THEN 0 ELSE
                     SignedAmount(Pick(U)) + Folded(U \ {Pick(U)})[U \ {Pick(U)}]]
  <2>3. ASSUME NEW U \in SUBSET T, U # T PROVE h[U] = Folded(U)[U]
    <3>1. Folded(U)[U] = IF U = {} THEN 0 ELSE SignedAmount(Pick(U)) + Folded(U)[U \ {Pick(U)}]
      BY <2>1, <2>3 DEF Folds
    <3>2. Folded(U)[U \ {Pick(U)}] = Folded(U \ {Pick(U)})[U \ {Pick(U)}]
      BY <2>2, <2>3
    <3> QED BY <3>1, <3>2
  <2>4. ASSUME NEW U \in SUBSET T, U # {}
        PROVE  h[U \ {Pick(U)}] = Folded(U \ {Pick(U)})[U \ {Pick(U)}]
    <3>1. Pick(U) \in U
      BY <2>4 DEF Pick
    <3>2. U \ {Pick(U)} \in SUBSET T /\ U \ {Pick(U)} # T
      BY <3>1
    <3> QED BY <2>3, <3>2
  <2>5. h = [U \in SUBSET T |-> IF U = {} THEN 0 ELSE SignedAmount(Pick(U)) + h[U \ {Pick(U)}]]
    BY <2>4
  <2>6. Folds(T, h)
    BY <2>5 DEF Folds
  <2> QED BY <2>6 DEF Folded
<1>2. Good = SUBSET S
  <2>1. Good \in SUBSET SUBSET S
    OBVIOUS
  <2> HIDE DEF Good
  <2> QED BY <1>1, <2>1, SetInduction
<1> QED BY <1>2

-----------------------------------------------------------------------------
(* The sum.                                                                *)

LEMMA TotalSteps ==
  ASSUME NEW S, IsFiniteSet(S)
  PROVE  Total(S) = IF S = {} THEN 0 ELSE SignedAmount(Pick(S)) + Total(S \ {Pick(S)})
<1>1. ASSUME NEW U \in SUBSET S PROVE Total(U) = Folded(S)[U]
  <2>1. IsFiniteSet(U)
    BY FS_Subset
  <2>2. Folds(S, Folded(S)) /\ Folds(U, Folded(U))
    BY <2>1, FoldExists
  <2> DEFINE g == [T \in SUBSET U |-> Folded(S)[T]]
  <2>3. Folds(U, g)
    BY <2>2, FoldsRestrict
  <2>4. Folded(U) = g
    <3> HIDE DEF g
    <3> QED BY <2>1, <2>2, <2>3, FoldsUnique
  <2>5. Total(U) = Folded(U)[U]
    BY DEF Total, MapThenSumSet, MapThenFoldSet, Folded, Folds, Pick
  <2> QED BY <2>4, <2>5
<1>2. Folded(S)[S] = IF S = {} THEN 0 ELSE SignedAmount(Pick(S)) + Folded(S)[S \ {Pick(S)}]
  BY FoldExists DEF Folds
<1> QED BY <1>1, <1>2

LEMMA TotalEmpty == Summable({}) /\ Total({}) = 0
  BY TotalSteps, FS_EmptySet DEF Summable

LEMMA SummableSubset ==
  ASSUME NEW S, Summable(S), NEW U \in SUBSET S
  PROVE  Summable(U)
  BY FS_Subset DEF Summable

LEMMA TotalType ==
  ASSUME NEW S, Summable(S)
  PROVE  Total(S) \in Int
<1> DEFINE Good == {T \in SUBSET S : Total(T) \in Int}
<1>1. ASSUME NEW T \in SUBSET S, \A U \in SUBSET T : U # T => U \in Good PROVE T \in Good
  <2>1. Summable(T) /\ IsFiniteSet(T)
    BY SummableSubset DEF Summable
  <2>2. CASE T = {}
    BY <2>2, TotalEmpty
  <2>3. CASE T # {}
    <3>1. Pick(T) \in T
      BY <2>3 DEF Pick
    <3>2. Total(T \ {Pick(T)}) \in Int
      BY <1>1, <3>1
    <3>3. SignedAmount(Pick(T)) \in Int
      BY <2>1, <3>1 DEF Summable
    <3>4. SignedAmount(Pick(T)) + Total(T \ {Pick(T)}) \in Int
      BY <3>2, <3>3
    <3> QED BY <2>1, <2>3, <3>4, TotalSteps
  <2> QED BY <2>2, <2>3
<1>2. Good = SUBSET S
  <2>1. Good \in SUBSET SUBSET S
    OBVIOUS
  <2> HIDE DEF Good
  <2> QED BY <1>1, <2>1, SetInduction DEF Summable
<1> QED BY <1>2

\* Whichever row is taken out, it counts once.
LEMMA TotalRemove ==
  ASSUME NEW S, Summable(S), NEW x \in S
  PROVE  Total(S) = SignedAmount(x) + Total(S \ {x})
<1> DEFINE Good == {T \in SUBSET S : \A y \in T : Total(T) = SignedAmount(y) + Total(T \ {y})}
<1>1. ASSUME NEW T \in SUBSET S, \A U \in SUBSET T : U # T => U \in Good PROVE T \in Good
  <2> SUFFICES ASSUME NEW y \in T PROVE Total(T) = SignedAmount(y) + Total(T \ {y})
    OBVIOUS
  <2> DEFINE p == Pick(T)
  <2>1. p \in T
    BY DEF Pick
  <2>2. Total(T) = SignedAmount(p) + Total(T \ {p})
    BY SummableSubset, TotalSteps DEF Summable
  <2> HIDE DEF p
  <2>3. CASE y # p
    <3>1. T \ {p} \in Good /\ T \ {y} \in Good /\ y \in T \ {p} /\ p \in T \ {y}
      <4>1. T \ {p} \in SUBSET T /\ T \ {p} # T /\ T \ {y} \in SUBSET T /\ T \ {y} # T
        BY <2>1
      <4> QED BY <1>1, <2>1, <2>3, <4>1
    <3>2. /\ Total(T \ {p}) = SignedAmount(y) + Total((T \ {p}) \ {y})
          /\ Total(T \ {y}) = SignedAmount(p) + Total((T \ {y}) \ {p})
      BY <3>1
    <3>3. (T \ {p}) \ {y} = (T \ {y}) \ {p}
      OBVIOUS
    <3>4. Total((T \ {p}) \ {y}) \in Int
      BY SummableSubset, TotalType
    <3>5. SignedAmount(p) \in Int /\ SignedAmount(y) \in Int
      BY <2>1 DEF Summable
    <3> DEFINE rest == Total((T \ {p}) \ {y})
    <3>6. SignedAmount(p) + (SignedAmount(y) + rest) = SignedAmount(y) + (SignedAmount(p) + rest)
      BY <3>4, <3>5
    <3> QED BY <2>2, <3>2, <3>3, <3>6
  <2> QED BY <2>2, <2>3
<1>2. Good = SUBSET S
  <2>1. Good \in SUBSET SUBSET S
    OBVIOUS
  <2> HIDE DEF Good
  <2> QED BY <1>1, <2>1, SetInduction DEF Summable
<1> QED BY <1>2

LEMMA TotalAdd ==
  ASSUME NEW S, Summable(S), NEW x, x \notin S, SignedAmount(x) \in Int
  PROVE  Summable(S \cup {x}) /\ Total(S \cup {x}) = Total(S) + SignedAmount(x)
<1>1. Summable(S \cup {x})
  BY FS_AddElement DEF Summable
<1>2. (S \cup {x}) \ {x} = S
  OBVIOUS
<1>3. Total(S \cup {x}) = SignedAmount(x) + Total(S)
  BY <1>1, <1>2, TotalRemove
<1> QED BY <1>1, <1>3, TotalType

\* Debits alone add up to a debit.
LEMMA TotalOfDebits ==
  ASSUME NEW S, Summable(S), \A e \in S : SignedAmount(e) <= 0
  PROVE  Total(S) <= 0
<1> DEFINE Good == {T \in SUBSET S : Total(T) <= 0}
<1>1. ASSUME NEW T \in SUBSET S, \A U \in SUBSET T : U # T => U \in Good PROVE T \in Good
  <2>1. CASE T = {}
    BY <2>1, TotalEmpty
  <2>2. CASE T # {}
    <3>1. PICK x \in T : TRUE
      BY <2>2
    <3>2. Summable(T) /\ Summable(T \ {x})
      BY SummableSubset
    <3>3. Total(T) = SignedAmount(x) + Total(T \ {x})
      BY <3>2, TotalRemove
    <3>4. Total(T \ {x}) <= 0 /\ Total(T \ {x}) \in Int
      BY <1>1, <3>2, TotalType
    <3>5. SignedAmount(x) \in Int /\ SignedAmount(x) <= 0
      BY <3>2 DEF Summable
    <3>6. SignedAmount(x) + Total(T \ {x}) <= 0
      BY <3>4, <3>5
    <3> QED BY <3>3, <3>6
  <2> QED BY <2>1, <2>2
<1>2. Good = SUBSET S
  <2>1. Good \in SUBSET SUBSET S
    OBVIOUS
  <2> HIDE DEF Good
  <2> QED BY <1>1, <2>1, SetInduction DEF Summable
<1> QED BY <1>2
=============================================================================
