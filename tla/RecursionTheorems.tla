-------------------------- MODULE RecursionTheorems --------------------------
(***************************************************************************)
(* What the proofs of the other modules use about recursion: induction     *)
(* over numbers and finite sets, that a recursive definition which looks   *)
(* below itself has a solution, and when two folds over sets or sequences  *)
(* agree.  Properties are sets here, and the functions that a fold applies *)
(* are functions, so that the theorems can be cited for any of them.       *)
(***************************************************************************)
EXTENDS Naturals, FiniteSets, Sequences, FiniteSetTheorems, WellFoundedInduction, TLAPS

-----------------------------------------------------------------------------
(* Induction and recursion *)

\* A set of numbers that is not empty has a least one.
LEMMA LeastOfSome ==
  ASSUME NEW T \in SUBSET Nat, T # {}
  PROVE  \E x \in T : \A y \in T : x <= y
  <1> DEFINE R == OpToRel(<, Nat)
  <1>1. IsWellFoundedOn(R, Nat)
    BY NatLessThanWellFounded
  <1>2. R = {x \in Nat \X Nat : x[1] < x[2]}
    BY DEF OpToRel
  <1> HIDE DEF R
  <1>3. \A x, y \in Nat : y < x => <<y, x>> \in R
    BY <1>2
  <1>4. PICK x \in T : \A y \in T : ~(<<y, x>> \in R)
    BY <1>1, WFMin
  <1>5. ASSUME NEW y \in T PROVE x <= y
    <2>1. x \in Nat /\ y \in Nat /\ ~(y < x)
      BY <1>3, <1>4
    <2> QED
      BY <2>1
  <1> QED
    BY <1>5

\* And a greatest one, if it is an interval's.
LEMMA GreatestOfSome ==
  ASSUME NEW n \in Nat, NEW T \in SUBSET (1 .. n), T # {}
  PROVE  \E x \in T : \A y \in T : x >= y
  <1> DEFINE U == {n - x : x \in T}
  <1>1. U \in SUBSET Nat /\ U # {}
    <2>1. \A x \in T : n - x \in Nat
      OBVIOUS
    <2> QED
      BY <2>1
  <1>2. PICK u \in U : \A v \in U : u <= v
    <2> HIDE DEF U
    <2> QED
      BY <1>1, LeastOfSome
  <1>3. PICK x \in T : u = n - x
    OBVIOUS
  <1>4. ASSUME NEW y \in T PROVE x >= y
    <2>1. u <= n - y
      BY <1>2
    <2> QED
      BY <1>3, <2>1
  <1> QED
    BY <1>4

\* What holds of zero, and with a number also of the next one, holds of all numbers.
LEMMA NatHolds ==
  ASSUME NEW P, 0 \in P, \A n \in Nat : n \in P => n + 1 \in P
  PROVE  Nat \subseteq P
  <1> DEFINE T == Nat \ P
  <1> SUFFICES ASSUME T # {} PROVE FALSE
    OBVIOUS
  <1>1. PICK x \in T : \A y \in T : x <= y
    BY LeastOfSome
  <1>2. x # 0 /\ x \in Nat /\ x - 1 \in Nat /\ x - 1 < x /\ (x - 1) + 1 = x
    OBVIOUS
  <1>3. x - 1 \in P
    BY <1>1, <1>2
  <1> QED
    BY <1>2, <1>3

\* P holds of a subset of S when it holds of the subset without any of its elements.
Inductive(P, S) == \A T \in SUBSET S : (\A x \in T : T \ {x} \in P) => T \in P

\* What holds of the empty set, and of a set when it holds of the set without any of its
\* elements, holds of every finite set.
LEMMA SubsetsHold ==
  ASSUME NEW S, IsFiniteSet(S), NEW P, Inductive(P, S)
  PROVE  SUBSET S \subseteq P
  <1> DEFINE Q == {n \in Nat : \A T \in SUBSET S : Cardinality(T) = n => T \in P}
  <1>1. \A T \in SUBSET S : IsFiniteSet(T) /\ Cardinality(T) \in Nat
    BY FS_Subset, FS_CardinalityType
  <1>2. 0 \in Q
    BY <1>1, FS_EmptySet DEF Inductive
  <1>3. ASSUME NEW n \in Nat, n \in Q PROVE n + 1 \in Q
    <2> SUFFICES ASSUME NEW T \in SUBSET S, Cardinality(T) = n + 1 PROVE T \in P
      OBVIOUS
    <2>1. ASSUME NEW x \in T PROVE T \ {x} \in P
      <3>1. Cardinality(T \ {x}) = Cardinality(T) - 1
        BY <1>1, FS_RemoveElement
      <3>2. T \ {x} \in SUBSET S /\ Cardinality(T \ {x}) = n
        BY <3>1
      <3> QED
        BY <1>3, <3>2
    <2> QED
      BY <2>1 DEF Inductive
  <1> HIDE DEF Q
  <1>4. Nat \subseteq Q
    BY <1>2, <1>3, NatHolds
  <1> QED
    BY <1>1, <1>4 DEF Q

\* The step of a recursion over D looks only at values of smaller measure.
LooksBelow(D, R, measure, step) ==
    \A x \in D : \A g, h \in [D -> R] :
        (\A y \in D : measure[y] < measure[x] => g[y] = h[y]) => step[<<x, g>>] = step[<<x, h>>]

\* A function obeys a recursive definition.
Solves(f, D, step) == \A x \in D : f[x] = step[<<x, f>>]

\* A recursive definition that looks below itself has a solution.
LEMMA Recursion ==
  ASSUME NEW D, NEW R, NEW anyone \in R, NEW measure \in [D -> Nat], NEW step \in [D \X [D -> R] -> R],
         LooksBelow(D, R, measure, step)
  PROVE  \E f \in [D -> R] : Solves(f, D, step)
  <1> DEFINE Fits(h, n) == \A x \in D : measure[x] < n => h[x] = step[<<x, h>>]
  <1>t. \A x \in D : measure[x] \in Nat
    OBVIOUS
  \* Two solutions up to n agree up to n.
  <1>1. ASSUME NEW g \in [D -> R], NEW h \in [D -> R], NEW n \in Nat, Fits(g, n), Fits(h, n)
        PROVE  \A x \in D : measure[x] < n => g[x] = h[x]
    <2> DEFINE P == {k \in Nat : k <= n => \A x \in D : measure[x] < k => g[x] = h[x]}
    <2>1. 0 \in P
      BY <1>t
    <2>2. ASSUME NEW k \in Nat, k \in P PROVE k + 1 \in P
      <3> SUFFICES ASSUME k + 1 <= n, NEW x \in D, measure[x] < k + 1 PROVE g[x] = h[x]
        OBVIOUS
      <3>1. measure[x] < n /\ measure[x] <= k /\ k <= n
        BY <1>t
      <3>2. \A y \in D : measure[y] < measure[x] => g[y] = h[y]
        BY <1>t, <2>2, <3>1
      <3>3. step[<<x, g>>] = step[<<x, h>>]
        BY <3>2 DEF LooksBelow
      <3> QED
        BY <1>1, <3>1, <3>3
    <2> HIDE DEF P
    <2>3. Nat \subseteq P
      BY <2>1, <2>2, NatHolds
    <2> QED
      BY <2>3 DEF P
  \* There is a solution up to every n.
  <1> DEFINE Q == {n \in Nat : \E h \in [D -> R] : Fits(h, n)}
  <1>2. 0 \in Q
    <2> DEFINE h == [x \in D |-> anyone]
    <2>1. h \in [D -> R]
      OBVIOUS
    <2> HIDE DEF h
    <2>2. Fits(h, 0)
      BY <1>t
    <2> QED
      BY <2>1, <2>2
  <1>3. ASSUME NEW n \in Nat, n \in Q PROVE n + 1 \in Q
    <2>1. PICK h \in [D -> R] : Fits(h, n)
      BY <1>3
    <2> DEFINE g == [x \in D |-> step[<<x, h>>]]
    <2>2. g \in [D -> R]
      OBVIOUS
    <2>3. \A y \in D : measure[y] < n => g[y] = h[y]
      BY <2>1
    <2>4. ASSUME NEW x \in D, measure[x] < n + 1 PROVE g[x] = step[<<x, g>>]
      <3>1. \A y \in D : measure[y] < measure[x] => g[y] = h[y]
        BY <1>t, <2>3, <2>4
      <3>2. step[<<x, g>>] = step[<<x, h>>]
        BY <2>2, <3>1 DEF LooksBelow
      <3> QED
        BY <3>2
    <2> HIDE DEF g
    <2> QED
      BY <2>2, <2>4
  <1>4. Nat \subseteq Q
    <2> HIDE DEF Q
    <2> QED
      BY <1>2, <1>3, NatHolds
  <1> DEFINE Sol(n) == CHOOSE h \in [D -> R] : Fits(h, n)
             f == [x \in D |-> Sol(measure[x] + 1)[x]]
  <1>5. \A n \in Nat : Sol(n) \in [D -> R] /\ Fits(Sol(n), n)
    <2> SUFFICES ASSUME NEW n \in Nat PROVE Sol(n) \in [D -> R] /\ Fits(Sol(n), n)
      OBVIOUS
    <2>1. \E h \in [D -> R] : Fits(h, n)
      BY <1>4
    <2> HIDE DEF Fits
    <2> QED
      BY <2>1
  <1> HIDE DEF Sol, Q
  <1>6. f \in [D -> R]
    BY <1>t, <1>5
  <1>7. ASSUME NEW x \in D PROVE f[x] = step[<<x, f>>]
    <2> DEFINE h == Sol(measure[x] + 1)
    <2>1. h \in [D -> R] /\ Fits(h, measure[x] + 1) /\ measure[x] + 1 \in Nat
      <3>1. measure[x] + 1 \in Nat
        BY <1>t
      <3> HIDE DEF Fits
      <3> QED
        BY <1>5, <3>1
    <2> HIDE DEF h
    <2>2. h[x] = step[<<x, h>>]
      BY <1>t, <2>1
    <2>3. ASSUME NEW y \in D, measure[y] < measure[x] PROVE h[y] = f[y]
      <3> DEFINE u == Sol(measure[y] + 1)
      <3>1. u \in [D -> R] /\ Fits(u, measure[y] + 1) /\ measure[y] + 1 \in Nat
        <4>1. measure[y] + 1 \in Nat
          BY <1>t
        <4> HIDE DEF Fits
        <4> QED
          BY <1>5, <4>1
      <3>2. Fits(h, measure[y] + 1)
        BY <1>t, <2>1, <2>3
      <3>3. measure[y] < measure[y] + 1
        BY <1>t
      <3>4. u[y] = h[y]
        <4> HIDE DEF u, h, Fits
        <4> QED
          BY <1>1, <2>1, <3>1, <3>2, <3>3
      <3> QED
        BY <3>4 DEF h
    <2>4. step[<<x, h>>] = step[<<x, f>>]
      <3> HIDE DEF f
      <3> QED
        BY <1>6, <2>1, <2>3 DEF LooksBelow
    <2> QED
      BY <2>2, <2>4 DEF h
  <1> HIDE DEF f
  <1> QED
    BY <1>6, <1>7 DEF Solves

\* An element of every set that has one, as CHOOSE picks it.
Picks(pick, T) == \A s \in SUBSET T : s # {} => pick[s] \in s

\* The values of a fold over the subsets of T, which takes the elements away in the order of pick.
Folded(f, T, base, step, pick) ==
    \A s \in SUBSET T : f[s] = IF s = {} THEN base ELSE step[<<pick[s], f[s \ {pick[s]}]>>]

\* A fold over a finite set has such values.
LEMMA FoldSolution ==
  ASSUME NEW T, IsFiniteSet(T), NEW R, NEW base \in R, NEW step \in [T \X R -> R],
         NEW pick, Picks(pick, T)
  PROVE  \E f \in [SUBSET T -> R] : Folded(f, T, base, step, pick)
  <1> DEFINE D == SUBSET T
             measure == [s \in D |-> Cardinality(s)]
             whole == [y \in D \X [D -> R] |->
                         IF y[1] = {} THEN base ELSE step[<<pick[y[1]], y[2][y[1] \ {pick[y[1]]}]>>]]
  <1>1. measure \in [D -> Nat]
    BY FS_Subset, FS_CardinalityType
  <1>2. whole \in [D \X [D -> R] -> R]
    BY DEF Picks
  <1>3. ASSUME NEW x \in D, x # {} PROVE x \ {pick[x]} \in D /\ measure[x \ {pick[x]}] < measure[x]
    <2>1. pick[x] \in x /\ IsFiniteSet(x)
      BY <1>3, FS_Subset DEF Picks
    <2>2. Cardinality(x \ {pick[x]}) = Cardinality(x) - 1 /\ Cardinality(x) \in Nat
      BY <2>1, FS_RemoveElement, FS_CardinalityType
    <2> QED
      BY <2>2
  <1>4. ASSUME NEW x \in D, NEW g \in [D -> R], NEW h \in [D -> R],
               \A y \in D : measure[y] < measure[x] => g[y] = h[y]
        PROVE  whole[<<x, g>>] = whole[<<x, h>>]
    BY <1>3, <1>4
  <1>5. \A x \in D : \A g \in [D -> R] :
           whole[<<x, g>>] = IF x = {} THEN base ELSE step[<<pick[x], g[x \ {pick[x]}]>>]
    OBVIOUS
  <1> HIDE DEF D, measure, whole
  <1>6. LooksBelow(D, R, measure, whole)
    BY <1>4 DEF LooksBelow
  <1>7. PICK f \in [D -> R] : Solves(f, D, whole)
    BY <1>1, <1>2, <1>6, Recursion
  <1>8. \A s \in D : f[s] = whole[<<s, f>>]
    BY <1>7 DEF Solves
  <1>9. \A s \in D : f[s] = IF s = {} THEN base ELSE step[<<pick[s], f[s \ {pick[s]}]>>]
    BY <1>5, <1>8
  <1>10. f \in [SUBSET T -> R]
    BY DEF D
  <1>11. Folded(f, T, base, step, pick)
    BY <1>9 DEF D, Folded
  <1> QED
    BY <1>10, <1>11

\* Two folds agree at a set whenever they do at the set without the element picked.
SameFold(e, f, T, pick) ==
    \A s \in SUBSET T : (s # {} => e[s \ {pick[s]}] = f[s \ {pick[s]}]) => e[s] = f[s]

\* Two folds agree if they do at a set whenever they do at the set without the element picked.
LEMMA FoldsAgree ==
  ASSUME NEW T, IsFiniteSet(T), NEW pick, Picks(pick, T), NEW e, NEW f, SameFold(e, f, T, pick)
  PROVE  e[T] = f[T]
  <1> DEFINE P == {s \in SUBSET T : e[s] = f[s]}
  <1>1. ASSUME NEW s \in SUBSET T, \A x \in s : s \ {x} \in P PROVE s \in P
    <2>1. s # {} => e[s \ {pick[s]}] = f[s \ {pick[s]}]
      BY <1>1 DEF Picks
    <2> QED
      BY <2>1 DEF SameFold
  <1>2. SUBSET T \subseteq P
    <2> HIDE DEF P
    <2>1. Inductive(P, T)
      BY <1>1 DEF Inductive
    <2> QED
      BY <2>1, SubsetsHold
  <1> QED
    BY <1>2

-----------------------------------------------------------------------------
(* Folds over sequences *)

Tops(top, n) == \A s \in SUBSET (1 .. n) : s # {} => top[s] \in s /\ \A y \in s : top[s] >= y

\* The values of a fold over a sequence of n elements, one element after the other.
Steps(h, n, base, step) == h[0] = base /\ \A k \in 1 .. n : h[k] = step[<<k, h[k - 1]>>]

HasFold(n, R, base, step, top) ==
    \E f \in [SUBSET (1 .. n) -> R], h \in [0 .. n -> R] :
       Folded(f, 1 .. n, base, step, top) /\ Steps(h, n, base, step) /\ f[1 .. n] = h[n]

\* A fold that takes the greatest place away first goes over a sequence from its beginning.
LEMMA SequenceFold ==
  ASSUME NEW n \in Nat, NEW R, NEW base \in R, NEW step \in [(1 .. n) \X R -> R], NEW top, Tops(top, n)
  PROVE  HasFold(n, R, base, step, top)
  <1> DEFINE T == 1 .. n
  <1>1. IsFiniteSet(T)
    BY FS_Interval
  <1>2. Picks(top, T)
    BY DEF Picks, Tops
  <1>3. PICK f \in [SUBSET T -> R] : Folded(f, T, base, step, top)
    <2> HIDE DEF T
    <2>1. step \in [T \X R -> R]
      BY DEF T
    <2> QED
      BY <1>1, <1>2, <2>1, FoldSolution
  <1> DEFINE h == [k \in 0 .. n |-> f[1 .. k]]
  <1>4. \A k \in 0 .. n : 1 .. k \in SUBSET T
    OBVIOUS
  <1>5. h \in [0 .. n -> R]
    BY <1>3, <1>4
  <1>6. h[0] = base
    <2>1. 1 .. 0 = {} /\ 0 \in 0 .. n
      OBVIOUS
    <2>2. f[{}] = base
      BY <1>3 DEF Folded
    <2> QED
      BY <2>1, <2>2
  <1>7. ASSUME NEW k \in 1 .. n PROVE h[k] = step[<<k, h[k - 1]>>]
    <2>1. 1 .. k \in SUBSET T /\ k \in 1 .. k /\ 1 .. k # {} /\ k \in 0 .. n /\ k - 1 \in 0 .. n
      OBVIOUS
    <2>2. top[1 .. k] = k
      <3>1. top[1 .. k] \in 1 .. k /\ top[1 .. k] >= k
        BY <2>1 DEF Tops
      <3> QED
        BY <3>1
    <2>3. (1 .. k) \ {k} = 1 .. k - 1
      OBVIOUS
    <2>4. f[1 .. k] = step[<<top[1 .. k], f[(1 .. k) \ {top[1 .. k]}]>>]
      BY <1>3, <2>1 DEF Folded
    <2> QED
      BY <2>1, <2>2, <2>3, <2>4
  <1> HIDE DEF h
  <1>8. Steps(h, n, base, step)
    BY <1>6, <1>7 DEF Steps
  <1>9. f[T] = h[n]
    <2>1. n \in 0 .. n
      OBVIOUS
    <2> QED
      BY <2>1 DEF h
  <1> QED
    BY <1>3, <1>5, <1>8, <1>9 DEF HasFold

=============================================================================
