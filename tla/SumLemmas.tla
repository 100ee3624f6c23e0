----------------------------- MODULE SumLemmas -----------------------------
(***************************************************************************)
(* What MapThenSumSet adds up, for any finite set and any natural weights. *)
(* The library defines it by a recursion on the set; here a sum is the     *)
(* cardinality of a set of units, one pair per unit of each weight, so     *)
(* that the library's theorems on cardinality give what a sum does when a  *)
(* set splits, grows or shrinks; AddsIsSum shows that the recursion counts *)
(* the same units.  At the end: induction on positions, and that the       *)
(* function by which the library folds a sequence exists.                  *)
(***************************************************************************)
EXTENDS Integers, FiniteSets, FiniteSetsExt, FiniteSetTheorems, FunctionTheorems,
        WellFoundedInduction, TLAPS

(* A nonempty set of natural numbers has a least element.                   *)
LEMMA NatHasMin ==
    ASSUME NEW N \in SUBSET Nat, N # {}
    PROVE  \E n \in N : \A m \in N : n <= m
<1>1. PICK n \in N : \A m \in N : <<m, n>> \notin OpToRel(<, Nat)
  BY NatLessThanWellFounded, WFMin
<1>2. \A m \in N : ~(m < n)
  BY <1>1 DEF OpToRel
<1> QED
  BY <1>2

(* The units of a sum: one pair for each unit of each weight.               *)
UnitsOf(x, n) == {x} \X (1..n)
Units(w, S)   == UNION {UnitsOf(x, w[x]) : x \in S}
SumOf(w, S)   == Cardinality(Units(w, S))

(* One weight has as many units as it is heavy.                             *)
LEMMA UnitsOfOne ==
    ASSUME NEW x, NEW n \in Nat
    PROVE  IsFiniteSet(UnitsOf(x, n)) /\ Cardinality(UnitsOf(x, n)) = n
<1> DEFINE I == 1..n
           X == {x}
<1>1. IsFiniteSet(I) /\ Cardinality(I) = n
  BY FS_Interval
<1>2. IsFiniteSet(X) /\ Cardinality(X) = 1
  BY FS_Singleton
<1> HIDE DEF I, X
<1>3. IsFiniteSet(X \X I) /\ Cardinality(X \X I) = Cardinality(X) * Cardinality(I)
  BY <1>1, <1>2, FS_Product
<1>4. Cardinality(X \X I) = n
  BY <1>1, <1>2, <1>3
<1> QED
  BY <1>3, <1>4 DEF UnitsOf, X, I

(* A finite set with natural weights has finitely many units.               *)
LEMMA UnitsFinite ==
    ASSUME NEW S, IsFiniteSet(S), NEW w \in [S -> Nat]
    PROVE  IsFiniteSet(Units(w, S)) /\ SumOf(w, S) \in Nat
<1> DEFINE R == {UnitsOf(x, w[x]) : x \in S}
<1>1. [x \in S |-> UnitsOf(x, w[x])] \in Surjection(S, R)
  BY DEF Surjection
<1>2. IsFiniteSet(R)
  BY <1>1, FS_Surjection
<1>3. \A x \in S : IsFiniteSet(UnitsOf(x, w[x]))
  BY UnitsOfOne
<1>4. IsFiniteSet(UNION R)
  BY <1>2, <1>3, FS_UNION
<1> QED
  BY <1>4, FS_CardinalityType DEF Units, SumOf

(* Two finite sets that share nothing.                                      *)
LEMMA UnitsSplit ==
    ASSUME NEW A, NEW B, A \cap B = {}, IsFiniteSet(A), IsFiniteSet(B)
    PROVE  IsFiniteSet(A \cup B) /\ Cardinality(A \cup B) = Cardinality(A) + Cardinality(B)
<1>1. Cardinality(A \cap B) = 0
  BY FS_EmptySet
<1>2. Cardinality(A) \in Nat /\ Cardinality(B) \in Nat
  BY FS_CardinalityType
<1>3. /\ IsFiniteSet(A \cup B)
      /\ Cardinality(A \cup B) = Cardinality(A) + Cardinality(B) - Cardinality(A \cap B)
  BY FS_Union
<1> QED
  BY <1>1, <1>2, <1>3

(* A sum over two sets that share nothing.                                  *)
LEMMA SumSplit ==
    ASSUME NEW S, NEW T, IsFiniteSet(S), IsFiniteSet(T), S \cap T = {},
           NEW w, \A x \in S \cup T : w[x] \in Nat
    PROVE  SumOf(w, S \cup T) = SumOf(w, S) + SumOf(w, T)
<1>1. IsFiniteSet(Units(w, S)) /\ IsFiniteSet(Units(w, T))
  <2> DEFINE v == [x \in S |-> w[x]]
             u == [x \in T |-> w[x]]
  <2>1. v \in [S -> Nat] /\ u \in [T -> Nat]
    OBVIOUS
  <2>2. Units(v, S) = Units(w, S) /\ Units(u, T) = Units(w, T)
    BY DEF Units
  <2> QED
    BY <2>1, <2>2, UnitsFinite
<1>2. Units(w, S \cup T) = Units(w, S) \cup Units(w, T)
  BY DEF Units
<1>3. Units(w, S) \cap Units(w, T) = {}
  BY DEF Units, UnitsOf
<1> QED
  BY <1>1, <1>2, <1>3, UnitsSplit DEF SumOf

(* A sum is one weight and the sum of the others.                           *)
LEMMA SumStep ==
    ASSUME NEW S, IsFiniteSet(S), NEW w, \A y \in S : w[y] \in Nat, NEW x \in S
    PROVE  SumOf(w, S) = w[x] + SumOf(w, S \ {x})
<1>1. IsFiniteSet({x}) /\ IsFiniteSet(S \ {x}) /\ {x} \cup (S \ {x}) = S
  BY FS_Singleton, FS_Subset
<1>2. SumOf(w, S) = SumOf(w, {x}) + SumOf(w, S \ {x})
  BY <1>1, SumSplit
<1>3. Units(w, {x}) = UnitsOf(x, w[x])
  BY DEF Units
<1> QED
  BY <1>2, <1>3, UnitsOfOne DEF SumOf

(* The recursion of MapThenSumSet, and that the total is what it computes.  *)
Pick(s) == CHOOSE x \in s : TRUE

(* The recursion equation of the fold.                                      *)
Adds(iter, w, S) ==
    iter = [s \in SUBSET S |-> IF s = {} THEN 0 ELSE w[Pick(s)] + iter[s \ {Pick(s)}]]

(* Nothing adds up to zero.                                                 *)
LEMMA SumOfNone == ASSUME NEW w PROVE SumOf(w, {}) = 0
<1>1. Units(w, {}) = {}
  BY DEF Units
<1> QED
  BY <1>1, FS_EmptySet DEF SumOf

(* The units satisfy the recursion on every subset.                         *)
LEMMA SumAdds ==
    ASSUME NEW S, IsFiniteSet(S), NEW w, \A y \in S : w[y] \in Nat
    PROVE  Adds([s \in SUBSET S |-> SumOf(w, s)], w, S)
<1>1. ASSUME NEW s \in SUBSET S
      PROVE  SumOf(w, s) = IF s = {} THEN 0 ELSE w[Pick(s)] + SumOf(w, s \ {Pick(s)})
  <2>1. CASE s = {}
    BY <2>1, SumOfNone
  <2>2. CASE s # {}
    <3>1. Pick(s) \in s /\ IsFiniteSet(s)
      BY <2>2, FS_Subset DEF Pick
    <3> QED
      BY <2>2, <3>1, SumStep
  <2> QED
    BY <2>1, <2>2
<1>2. \A s \in SUBSET S : s \ {Pick(s)} \in SUBSET S
  OBVIOUS
<1> QED
  BY <1>1, <1>2 DEF Adds

(* And any function that does counts them: a least subset where it does not *)
(* would follow from a smaller one.                                         *)
LEMMA AddsIsSum ==
    ASSUME NEW S, IsFiniteSet(S), NEW w, \A y \in S : w[y] \in Nat, NEW iter, Adds(iter, w, S)
    PROVE  \A s \in SUBSET S : iter[s] = SumOf(w, s)
<1> DEFINE wrong == {n \in Nat : \E s \in SUBSET S : Cardinality(s) = n /\ iter[s] # SumOf(w, s)}
<1>1. SUFFICES wrong = {}
  <2>1. \A s \in SUBSET S : Cardinality(s) \in Nat
    BY FS_Subset, FS_CardinalityType
  <2> QED
    BY <2>1
<1>2. SUFFICES ASSUME wrong # {} PROVE FALSE
  OBVIOUS
<1>3. PICK n \in wrong : \A m \in wrong : n <= m
  BY <1>2, NatHasMin
<1>4. PICK s \in SUBSET S : Cardinality(s) = n /\ iter[s] # SumOf(w, s)
  OBVIOUS
<1>5. iter[s] = IF s = {} THEN 0 ELSE w[Pick(s)] + iter[s \ {Pick(s)}]
  BY DEF Adds
<1>6. s # {}
  BY <1>4, <1>5, SumOfNone
<1>7. Pick(s) \in s /\ IsFiniteSet(s) /\ s \ {Pick(s)} \in SUBSET S
  BY <1>6, FS_Subset DEF Pick
<1>8. Cardinality(s \ {Pick(s)}) = n - 1 /\ Cardinality(s \ {Pick(s)}) \in Nat
  BY <1>4, <1>7, FS_RemoveElement, FS_CardinalityType
<1>9. iter[s \ {Pick(s)}] = SumOf(w, s \ {Pick(s)})
  BY <1>3, <1>7, <1>8
<1> QED
  BY <1>4, <1>5, <1>6, <1>7, <1>9, SumStep

(* What MapThenSumSet returns.                                              *)
LEMMA MapThenSumSetIsSum ==
    ASSUME NEW S, IsFiniteSet(S), NEW w, \A y \in S : w[y] \in Nat
    PROVE  MapThenSumSet(LAMBDA x : w[x], S) = SumOf(w, S)
<1> DEFINE iter == CHOOSE i : Adds(i, w, S)
<1>1. MapThenSumSet(LAMBDA x : w[x], S) = iter[S]
  BY DEF MapThenSumSet, MapThenFoldSet, Adds, Pick
<1>2. Adds(iter, w, S)
  BY SumAdds
<1> QED
  BY <1>1, <1>2, AddsIsSum

(* Two sums over the same set, and over a subset.                           *)
LEMMA SumSame ==
    ASSUME NEW S, NEW w, NEW v, \A x \in S : w[x] = v[x]
    PROVE  SumOf(w, S) = SumOf(v, S)
<1>1. Units(w, S) = Units(v, S)
  BY DEF Units
<1> QED
  BY <1>1 DEF SumOf

(* A subset adds up to no more.                                             *)
LEMMA SumShrinks ==
    ASSUME NEW S, IsFiniteSet(S), NEW w, \A x \in S : w[x] \in Nat, NEW T \in SUBSET S
    PROVE  SumOf(w, T) \in Nat /\ SumOf(w, S) \in Nat /\ SumOf(w, T) <= SumOf(w, S)
<1> DEFINE v == [x \in S |-> w[x]]
<1>1. SumOf(w, S) \in Nat /\ IsFiniteSet(Units(w, S))
  <2>1. IsFiniteSet(Units(v, S)) /\ SumOf(v, S) \in Nat
    BY UnitsFinite
  <2>2. Units(v, S) = Units(w, S)
    BY DEF Units
  <2> QED
    BY <2>1, <2>2 DEF SumOf
<1>2. Units(w, T) \in SUBSET Units(w, S)
  BY DEF Units
<1> QED
  BY <1>1, <1>2, FS_Subset, FS_CardinalityType DEF SumOf

(* Induction up to n.                                                       *)
LEMMA UpFromZero ==
    ASSUME NEW n \in Nat, NEW S, 0 \in S, \A k \in 1 .. n : k - 1 \in S => k \in S
    PROVE  \A k \in 0 .. n : k \in S
<1> DEFINE bad == {m \in Nat : m <= n /\ m \notin S}
<1> SUFFICES ASSUME bad # {} PROVE FALSE
  OBVIOUS
<1>1. PICK m \in bad : \A k \in bad : m <= k
  <2>1. bad \in SUBSET Nat
    OBVIOUS
  <2> HIDE DEF bad
  <2> QED
    BY <2>1, NatHasMin
<1>2. m \in Nat /\ m <= n /\ m \notin S
  OBVIOUS
<1>3. m # 0
  BY <1>2
<1>4. m - 1 \in Nat /\ m - 1 <= n /\ ~(m <= m - 1) /\ m \in 1 .. n
  BY <1>2, <1>3
<1>5. m - 1 \notin bad
  BY <1>1, <1>4
<1> QED
  BY <1>2, <1>4, <1>5

(* What FoldLeft computes, for a step given as a function g: it takes off   *)
(* the greatest position of a set of positions.                             *)
Top(s) == CHOOSE x \in s : \A y \in s : x >= y
Folds(iter, base, g, n) ==
    iter = [s \in SUBSET (1..n) |->
              IF s = {} THEN base ELSE g[<<iter[s \ {Top(s)}], Top(s)>>]]

(* The greatest position up to k is k.                                      *)
LEMMA TopOfInterval ==
    ASSUME NEW k \in Nat \ {0}
    PROVE  1..k # {} /\ Top(1..k) = k /\ (1..k) \ {k} = 1..(k - 1) /\ 1..0 = {}
<1>1. k \in 1..k /\ \A y \in 1..k : k >= y
  OBVIOUS
<1>2. \A x \in 1..k : (\A y \in 1..k : x >= y) => x = k
  BY <1>1
<1>3. Top(1..k) = k
  BY <1>1, <1>2 DEF Top
<1> QED
  BY <1>1, <1>3

(* One exists for every length, position by position.                       *)
LEMMA FoldExists ==
    ASSUME NEW W, NEW base \in W, NEW n \in Nat, NEW g,
           \A w \in W, k \in 1..n : g[<<w, k>>] \in W
    PROVE  \E iter \in [SUBSET (1..n) -> W] : Folds(iter, base, g, n)
<1> DEFINE S == {m \in Nat : \E f \in [SUBSET (1..m) -> W] : Folds(f, base, g, m)}
<1>1. 0 \in S
  <2> DEFINE f == [s \in SUBSET (1..0) |-> base]
  <2>1. f \in [SUBSET (1..0) -> W]
    OBVIOUS
  <2>2. \A s \in SUBSET (1..0) : s = {}
    OBVIOUS
  <2>3. f = [s \in SUBSET (1..0) |->
               IF s = {} THEN base ELSE g[<<f[s \ {Top(s)}], Top(s)>>]]
    <3>1. \A s \in SUBSET (1..0) :
            base = IF s = {} THEN base ELSE g[<<f[s \ {Top(s)}], Top(s)>>]
      BY <2>2, Zenon
    <3> QED
      BY <3>1, Zenon
  <2>4. Folds(f, base, g, 0)
    BY <2>3 DEF Folds
  <2> QED
    BY <2>1, <2>4
<1>2. ASSUME NEW m \in 1..n, m - 1 \in S PROVE m \in S
  <2>1. PICK f \in [SUBSET (1..(m - 1)) -> W] : Folds(f, base, g, m - 1)
    BY <1>2
  <2>2. m \in Nat \ {0} /\ \A s \in SUBSET (1..m) : s \ {m} \in SUBSET (1..(m - 1))
    <3>1. m \in Nat \ {0} /\ \A x \in (1..m) \ {m} : x \in 1..(m - 1)
      OBVIOUS
    <3>2. \A s \in SUBSET (1..m) : s \ {m} \in SUBSET (1..(m - 1))
      BY <3>1, Zenon
    <3> QED
      BY <3>1, <3>2, Zenon
  <2> DEFINE h == [s \in SUBSET (1..m) |-> IF m \in s THEN g[<<f[s \ {m}], m>>] ELSE f[s]]
  <2>3. ASSUME NEW s \in SUBSET (1..m)
        PROVE  /\ h[s] \in W
               /\ h[s] = IF s = {} THEN base ELSE g[<<h[s \ {Top(s)}], Top(s)>>]
    <3>1. CASE m \in s
      <4>1. Top(s) = m
        <5>1. \A y \in s : m >= y
          OBVIOUS
        <5>2. \A x \in s : (\A y \in s : x >= y) => x = m
          BY <3>1
        <5> QED
          BY <3>1, <5>1, <5>2 DEF Top
      <4>2. h[s] = g[<<f[s \ {m}], m>>] /\ h[s \ {m}] = f[s \ {m}] /\ f[s \ {m}] \in W
        BY <2>2, <3>1
      <4> QED
        BY <3>1, <4>1, <4>2
    <3>2. CASE m \notin s
      <4>1. s \in SUBSET (1..(m - 1)) /\ s \ {Top(s)} \in SUBSET (1..(m - 1))
        BY <2>2, <3>2
      <4>2. f[s] = IF s = {} THEN base ELSE g[<<f[s \ {Top(s)}], Top(s)>>]
        BY <2>1, <4>1 DEF Folds
      <4>3. h[s] = f[s] /\ h[s \ {Top(s)}] = f[s \ {Top(s)}] /\ f[s] \in W
        BY <3>2, <4>1
      <4> QED
        BY <4>2, <4>3
    <3> QED
      BY <3>1, <3>2
  <2>4. h \in [SUBSET (1..m) -> W]
    BY <2>3
  <2>5. Folds(h, base, g, m)
    <3>1. h = [s \in SUBSET (1..m) |-> h[s]]
      OBVIOUS
    <3> HIDE DEF h
    <3>2. [s \in SUBSET (1..m) |-> h[s]]
            = [s \in SUBSET (1..m) |->
                 IF s = {} THEN base ELSE g[<<h[s \ {Top(s)}], Top(s)>>]]
      BY <2>3
    <3> QED
      BY <3>1, <3>2 DEF Folds
  <2> QED
    BY <2>2, <2>4, <2>5
<1> HIDE DEF S
<1>3. \A k \in 0..n : k \in S
  BY <1>1, <1>2, UpFromZero
<1>4. n \in S
  BY <1>3
<1> QED
  BY <1>4 DEF S
=============================================================================
