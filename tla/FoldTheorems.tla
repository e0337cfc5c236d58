---------------------------- MODULE FoldTheorems -----------------------------
(***************************************************************************)
(* Lemmas about sums and folds over finite sets and sequences of any size: *)
(* the loops of the code, and what is counted or weighed.  The induction   *)
(* is a least counterexample, LeastOf.                                     *)
(***************************************************************************)
EXTENDS Integers, FiniteSets, FiniteSetsExt, SequencesExt, Functions, FiniteSetTheorems, WellFoundedInduction, TLAPS

-----------------------------------------------------------------------------
(* Sums: what SumFunction gives, in whatever order the terms are added. *)

\* Sums of f over the subsets of S, in whatever order.
Sums(g, f, S) ==
    /\ g \in [SUBSET S -> Int] /\ g[{}] = 0
    /\ \A T \in SUBSET S : \A x \in T : g[T] = f[x] + g[T \ {x}]

First(s) == CHOOSE x \in s : TRUE
Steps(h, f, S) == h = [s \in SUBSET S |-> IF s = {} THEN 0 ELSE f[First(s)] + h[s \ {First(s)}]]
Folded(f, S) == (CHOOSE h : Steps(h, f, S))[S]

LEMMA FoldedIs == ASSUME NEW f, NEW S PROVE SumFunctionOnSet(f, S) = Folded(f, S)
BY DEF SumFunctionOnSet, FoldFunctionOnSet, MapThenFoldSet, Folded, Steps, First

LEMMA LeastOf ==
    ASSUME NEW N \in SUBSET Nat, N # {}
    PROVE  \E n \in N : \A m \in N : n <= m
<1>1. PICK n \in N : \A m \in N : ~(<<m, n>> \in OpToRel(<, Nat))
  BY NatLessThanWellFounded, WFMin
<1>2. \A m \in N : ~(m < n)
  BY <1>1 DEF OpToRel
<1> QED BY <1>2

\* There is such a g for every finite set.
LEMMA SumsExist ==
    ASSUME NEW S, IsFiniteSet(S), NEW f, \A x \in S : f[x] \in Int
    PROVE  \E g : Sums(g, f, S)
<1> DEFINE Bad == {n \in Nat : \E T \in SUBSET S : Cardinality(T) = n /\ ~\E g : Sums(g, f, T)}
<1>1. SUFFICES ASSUME Bad # {} PROVE FALSE
  <2>1. Cardinality(S) \in Nat
    BY FS_CardinalityType
  <2> QED BY <2>1
<1>2. PICK n \in Bad : \A m \in Bad : n <= m
  BY <1>1, LeastOf
<1>3. PICK T \in SUBSET S : Cardinality(T) = n /\ ~\E g : Sums(g, f, T)
  BY <1>2
<1>4. T # {}
  <2> SUFFICES ASSUME T = {} PROVE FALSE
    OBVIOUS
  <2> DEFINE g == [t \in SUBSET {} |-> 0]
  <2>1. Sums(g, f, {})
    BY DEF Sums
  <2> QED BY <2>1, <1>3
<1>5. PICK a \in T : TRUE
  BY <1>4
<1> DEFINE R == T \ {a}
<1>6. IsFiniteSet(T) /\ R \in SUBSET S /\ Cardinality(R) = n - 1 /\ n \in Nat
  <2>1. IsFiniteSet(T)
    BY FS_Subset
  <2>2. Cardinality(R) = Cardinality(T) - 1
    BY <2>1, FS_RemoveElement
  <2> QED BY <2>1, <2>2, <1>2, <1>3
<1>7. Cardinality(R) \in Nat
  BY <1>6, FS_Subset, FS_CardinalityType
<1>8. n - 1 \notin Bad
  BY <1>2, <1>6
<1>9. PICK g : Sums(g, f, R)
  BY <1>6, <1>7, <1>8
<1> DEFINE h == [t \in SUBSET T |-> IF a \in t THEN f[a] + g[t \ {a}] ELSE g[t]]
<1>10. /\ g \in [SUBSET R -> Int] /\ g[{}] = 0
       /\ \A t \in SUBSET R : \A x \in t : g[t] = f[x] + g[t \ {x}]
  BY <1>9 DEF Sums
<1>11. f[a] \in Int /\ \A t \in SUBSET T : t \ {a} \in SUBSET R /\ (a \notin t => t \in SUBSET R)
  BY <1>3, <1>5
<1>12. h \in [SUBSET T -> Int] /\ h[{}] = 0
  BY <1>10, <1>11
<1>13. ASSUME NEW t \in SUBSET T, NEW x \in t PROVE h[t] = f[x] + h[t \ {x}]
  <2>0. t \ {x} \in SUBSET T /\ f[x] \in Int
    OBVIOUS
  <2>1. CASE x = a
    <3>1. a \notin t \ {x} /\ t \ {x} = t \ {a}
      BY <2>1
    <3> QED BY <2>0, <2>1, <3>1
  <2>2. CASE x # a /\ a \in t
    <3>1. a \in t \ {x} /\ x \in t \ {a} /\ (t \ {x}) \ {a} = (t \ {a}) \ {x}
      BY <2>2
    <3>2. g[t \ {a}] = f[x] + g[(t \ {a}) \ {x}]
      BY <3>1, <1>10, <1>11
    <3>3. h[t] = f[a] + g[t \ {a}] /\ h[t \ {x}] = f[a] + g[(t \ {x}) \ {a}]
      BY <2>0, <2>2, <3>1
    <3>4. g[t \ {a}] \in Int /\ g[(t \ {a}) \ {x}] \in Int
      BY <1>10, <1>11
    <3> DEFINE u == g[(t \ {a}) \ {x}]
    <3>5. h[t \ {x}] = f[a] + u
      BY <3>1, <3>3
    <3>6. h[t] = f[a] + (f[x] + u)
      BY <3>2, <3>3
    <3>7. u \in Int
      BY <3>4
    <3> HIDE DEF h, R, u
    <3> QED BY <2>0, <3>5, <3>6, <3>7, <1>11
  <2>3. CASE a \notin t
    <3>1. a \notin t \ {x} /\ t \in SUBSET R
      BY <2>3
    <3>2. h[t] = g[t] /\ h[t \ {x}] = g[t \ {x}]
      BY <2>0, <2>3, <3>1
    <3>3. g[t] = f[x] + g[t \ {x}]
      <4> HIDE DEF h, R
      <4> QED BY <3>1, <1>10
    <3> HIDE DEF h
    <3> QED BY <3>2, <3>3
  <2> QED BY <2>1, <2>2, <2>3
<1> HIDE DEF h
<1>14. Sums(h, f, T)
  BY <1>12, <1>13 DEF Sums
<1> QED BY <1>3, <1>14

\* The sum over S is that of any such g.
LEMMA SumsUnique ==
    ASSUME NEW S, IsFiniteSet(S), NEW f, NEW g, Sums(g, f, S)
    PROVE  SumFunctionOnSet(f, S) = g[S]
<1> DEFINE h == CHOOSE h : Steps(h, f, S)
<1>0. /\ g \in [SUBSET S -> Int] /\ g[{}] = 0
      /\ \A T \in SUBSET S : \A x \in T : g[T] = f[x] + g[T \ {x}]
  BY DEF Sums
<1>1. ASSUME NEW s \in SUBSET S, s # {} PROVE First(s) \in s
  BY <1>1 DEF First
<1>2. Steps(g, f, S)
  BY <1>0, <1>1 DEF Steps
<1>3. Steps(h, f, S)
  BY <1>2
<1>4. SumFunctionOnSet(f, S) = h[S]
  BY FoldedIs DEF Folded
<1> HIDE DEF h
<1>5. ASSUME NEW s \in SUBSET S PROVE h[s] = IF s = {} THEN 0 ELSE f[First(s)] + h[s \ {First(s)}]
  BY <1>3 DEF Steps
<1> DEFINE Bad == {n \in Nat : \E T \in SUBSET S : Cardinality(T) = n /\ h[T] # g[T]}
<1>6. SUFFICES ASSUME Bad # {} PROVE FALSE
  <2>1. Cardinality(S) \in Nat
    BY FS_CardinalityType
  <2> QED BY <2>1, <1>4
<1>7. PICK n \in Bad : \A m \in Bad : n <= m
  BY <1>6, LeastOf
<1>8. PICK T \in SUBSET S : Cardinality(T) = n /\ h[T] # g[T]
  BY <1>7
<1>9. T # {}
  BY <1>0, <1>5, <1>8
<1> DEFINE a == First(T)
           R == T \ {a}
<1>10. a \in T
  BY <1>1, <1>9
<1> HIDE DEF a
<1>11. IsFiniteSet(T) /\ Cardinality(R) = n - 1 /\ n \in Nat /\ Cardinality(R) \in Nat
  <2>1. IsFiniteSet(T) /\ IsFiniteSet(R)
    BY FS_Subset
  <2>2. Cardinality(R) = Cardinality(T) - 1
    BY <2>1, <1>10, FS_RemoveElement
  <2> QED BY <2>1, <2>2, <1>7, <1>8, FS_CardinalityType
<1>12. h[R] = g[R]
  BY <1>7, <1>11
<1>13. h[T] = f[a] + h[R]
  BY <1>5, <1>9 DEF a
<1>14. g[T] = f[a] + g[R]
  BY <1>0, <1>10
<1> QED BY <1>8, <1>12, <1>13, <1>14

\* The sum of the values of a function is taken in any order.
Without(f, S, x) == [y \in S \ {x} |-> f[y]]

LEMMA SumFacts ==
    ASSUME NEW S, IsFiniteSet(S), NEW f \in [S -> Int]
    PROVE  /\ SumFunction(f) \in Int
           /\ S = {} => SumFunction(f) = 0
           /\ \A x \in S : SumFunction(f) = f[x] + SumFunction(Without(f, S, x))
<1>1. PICK g : Sums(g, f, S)
  BY SumsExist
<1>2. SumFunctionOnSet(f, S) = g[S] /\ SumFunction(f) = SumFunctionOnSet(f, S)
  BY <1>1, SumsUnique DEF SumFunction
<1>3. /\ g \in [SUBSET S -> Int] /\ g[{}] = 0
      /\ \A T \in SUBSET S : \A x \in T : g[T] = f[x] + g[T \ {x}]
  BY <1>1 DEF Sums
<1>4. ASSUME NEW x \in S PROVE SumFunction(f) = f[x] + SumFunction(Without(f, S, x))
  <2> DEFINE R == S \ {x}
             e == [y \in R |-> f[y]]
             h == [T \in SUBSET R |-> g[T]]
  <2>1. IsFiniteSet(R)
    BY FS_Subset
  <2>2. \A T \in SUBSET R : \A y \in T : y \in R /\ T \ {y} \in SUBSET R /\ T \in SUBSET S
    OBVIOUS
  <2>3. h \in [SUBSET R -> Int] /\ h[{}] = 0
    BY <1>3
  <2>4. \A T \in SUBSET R : \A y \in T : h[T] = e[y] + h[T \ {y}]
    BY <2>2, <1>3
  <2>5. Sums(h, e, R)
    <3> HIDE DEF h, e, R
    <3> QED BY <2>3, <2>4 DEF Sums
  <2>6. SumFunctionOnSet(e, R) = h[R] /\ SumFunction(e) = SumFunctionOnSet(e, R)
    <3> HIDE DEF h
    <3>1. DOMAIN e = R
      OBVIOUS
    <3> HIDE DEF e, R
    <3> QED BY <2>1, <2>5, <3>1, SumsUnique DEF SumFunction
  <2>7. h[R] = g[R]
    OBVIOUS
  <2>8. g[S] = f[x] + g[R]
    BY <1>3
  <2> HIDE DEF h, R
  <2>9. SumFunction(e) = g[R]
    BY <2>6, <2>7
  <2> HIDE DEF e
  <2>10. SumFunction(f) = f[x] + SumFunction(e)
    BY <2>8, <2>9, <1>2
  <2> QED BY <2>10 DEF e, R, Without
<1>5. SumFunction(f) \in Int
  BY <1>2, <1>3
<1>6. S = {} => SumFunction(f) = 0
  BY <1>2, <1>3
<1> QED BY <1>4, <1>5, <1>6

\* The sum changes by what one value changes.
LEMMA SumChange ==
    ASSUME NEW S, IsFiniteSet(S), NEW f \in [S -> Int], NEW g \in [S -> Int], NEW x \in S,
           \A y \in S : y # x => g[y] = f[y]
    PROVE  SumFunction(g) = SumFunction(f) - f[x] + g[x]
<1>1. Without(g, S, x) = Without(f, S, x)
  BY DEF Without
<1>2. SumFunction(f) = f[x] + SumFunction(Without(f, S, x))
  BY SumFacts
<1>3. SumFunction(g) = g[x] + SumFunction(Without(g, S, x))
  BY SumFacts
<1>4. SumFunction(Without(f, S, x)) \in Int
  <2>1. IsFiniteSet(S \ {x}) /\ Without(f, S, x) \in [S \ {x} -> Int]
    BY FS_Subset DEF Without
  <2> QED BY <2>1, SumFacts
<1> QED BY <1>1, <1>2, <1>3, <1>4

\* And by a value that comes to it.
LEMMA SumAdd ==
    ASSUME NEW S, IsFiniteSet(S), NEW x, x \notin S, NEW f \in [S \cup {x} -> Int],
           NEW g, g = [y \in S |-> f[y]]
    PROVE  SumFunction(f) = SumFunction(g) + f[x]
<1>1. IsFiniteSet(S \cup {x}) /\ (S \cup {x}) \ {x} = S /\ x \in S \cup {x}
  BY FS_AddElement
<1>2. SumFunction(f) = f[x] + SumFunction(Without(f, S \cup {x}, x))
  BY <1>1, SumFacts
<1>3. g = Without(f, S \cup {x}, x)
  BY <1>1 DEF Without
<1>4. SumFunction(g) \in Int /\ f[x] \in Int
  <2>1. g \in [S -> Int]
    OBVIOUS
  <2> QED BY <2>1, SumFacts
<1>5. SumFunction(f) = f[x] + SumFunction(g)
  BY <1>2, <1>3, Zenon
<1> QED BY <1>4, <1>5

\* The sum of natural numbers is one.
LEMMA SumNat ==
    ASSUME NEW S, IsFiniteSet(S), NEW f \in [S -> Nat]
    PROVE  SumFunction(f) \in Nat
<1> DEFINE Part(T) == [y \in T |-> f[y]]
           Bad == {n \in Nat : \E T \in SUBSET S : Cardinality(T) = n /\ SumFunction(Part(T)) \notin Nat}
<1>1. SUFFICES ASSUME Bad # {} PROVE FALSE
  <2>1. Cardinality(S) \in Nat
    BY FS_CardinalityType
  <2>2. Part(S) = f
    OBVIOUS
  <2> QED BY <2>1, <2>2
<1>2. PICK n \in Bad : \A m \in Bad : n <= m
  BY <1>1, LeastOf
<1>3. PICK T \in SUBSET S : Cardinality(T) = n /\ SumFunction(Part(T)) \notin Nat
  BY <1>2
<1>4. IsFiniteSet(T) /\ Part(T) \in [T -> Int] /\ \A y \in T : Part(T)[y] \in Nat
  BY FS_Subset
<1>5. T # {}
  BY <1>3, <1>4, SumFacts
<1>6. PICK a \in T : TRUE
  BY <1>5
<1>7. SumFunction(Part(T)) = Part(T)[a] + SumFunction(Part(T \ {a}))
  <2>1. SumFunction(Part(T)) = Part(T)[a] + SumFunction(Without(Part(T), T, a))
    <3> HIDE DEF Part
    <3> QED BY <1>4, SumFacts
  <2>2. Without(Part(T), T, a) = Part(T \ {a})
    BY DEF Without
  <2> QED BY <2>1, <2>2
<1>8. /\ T \ {a} \in SUBSET S /\ Cardinality(T \ {a}) = n - 1 /\ Cardinality(T \ {a}) \in Nat
      /\ n \in Nat
  <2>1. Cardinality(T \ {a}) = Cardinality(T) - 1
    BY <1>4, FS_RemoveElement
  <2>2. Cardinality(T \ {a}) \in Nat
    BY <1>4, FS_Subset, FS_CardinalityType
  <2> QED BY <2>1, <2>2, <1>2, <1>3
<1>9. SumFunction(Part(T \ {a})) \in Nat
  <2> HIDE DEF Part
  <2>1. n - 1 \notin Bad
    <3> HIDE DEF Bad
    <3> QED BY <1>2, <1>8
  <2> QED BY <2>1, <1>8
<1> HIDE DEF Part
<1> QED BY <1>3, <1>4, <1>7, <1>9

\* The sum of the terms of a set is at most that of a larger one.
LEMMA SumMonotone ==
    ASSUME NEW S, IsFiniteSet(S), NEW f \in [S -> Nat], NEW B \in SUBSET S, NEW A \in SUBSET B
    PROVE  /\ SumFunctionOnSet(f, A) \in Int /\ SumFunctionOnSet(f, B) \in Int
           /\ SumFunctionOnSet(f, A) <= SumFunctionOnSet(f, B)
<1>1. PICK g : Sums(g, f, S)
  BY SumsExist
<1>2. /\ g \in [SUBSET S -> Int]
      /\ \A T \in SUBSET S : \A x \in T : g[T] = f[x] + g[T \ {x}]
  BY <1>1 DEF Sums
<1>3. ASSUME NEW T \in SUBSET S PROVE SumFunctionOnSet(f, T) = g[T] /\ g[T] \in Int
  <2> DEFINE h == [U \in SUBSET T |-> g[U]]
  <2>1. Sums(h, f, T)
    BY <1>1 DEF Sums
  <2>2. IsFiniteSet(T) /\ h[T] = g[T]
    BY FS_Subset
  <2> HIDE DEF h
  <2> QED BY <2>1, <2>2, <1>2, SumsUnique
<1> DEFINE Bad == {n \in Nat : \E T \in SUBSET S : A \subseteq T /\ Cardinality(T \ A) = n /\ ~(g[A] <= g[T])}
<1>4. Bad = {}
  <2> SUFFICES ASSUME Bad # {} PROVE FALSE
    OBVIOUS
  <2>1. PICK n \in Bad : \A m \in Bad : n <= m
    BY LeastOf
  <2>2. PICK T \in SUBSET S : A \subseteq T /\ Cardinality(T \ A) = n /\ ~(g[A] <= g[T])
    BY <2>1
  <2>3. IsFiniteSet(T \ A)
    BY FS_Subset
  <2>4. CASE T = A
    BY <2>2, <2>4, <1>3
  <2>5. CASE T # A
    <3>1. PICK x \in T : x \notin A
      BY <2>2, <2>5
    <3>2. (T \ {x}) \ A = (T \ A) \ {x} /\ A \subseteq T \ {x} /\ T \ {x} \in SUBSET S
      BY <2>2, <3>1
    <3>3. Cardinality((T \ A) \ {x}) = n - 1 /\ Cardinality((T \ A) \ {x}) \in Nat
      BY <2>2, <2>3, <3>1, FS_RemoveElement, FS_CardinalityType
    <3>4. n - 1 \notin Bad /\ n \in Nat
      BY <2>1, <3>3
    <3>5. g[A] <= g[T \ {x}]
      BY <3>2, <3>3, <3>4
    <3>6. g[T] = f[x] + g[T \ {x}] /\ f[x] \in Nat
      BY <1>2, <3>1
    <3>7. g[T \ {x}] \in Int /\ g[A] \in Int
      BY <1>2, <3>2
    <3> QED BY <2>2, <3>5, <3>6, <3>7
  <2> QED BY <2>4, <2>5
<1>5. g[A] <= g[B]
  <2>1. Cardinality(B \ A) \in Nat
    BY FS_Subset, FS_CardinalityType
  <2>2. Cardinality(B \ A) \notin Bad
    BY <1>4
  <2> QED BY <2>1, <2>2
<1>6. A \in SUBSET S
  OBVIOUS
<1> QED BY <1>3, <1>5, <1>6

-----------------------------------------------------------------------------
(* Folds over finite sets: F says what the fold does with an element, C in *)
(* which order they are taken.                                             *)

Chooses(C, S) == \A s \in SUBSET S : s # {} => C[s] \in s

\* h is such a fold, where it stays inside of U.
Folds(h, F, C, base, S, U) ==
    /\ h[{}] = base
    /\ \A s \in SUBSET S : s # {} /\ h[s \ {C[s]}] \in U => h[s] = F[<<C[s], h[s \ {C[s]}]>>]

LEMMA Fewer ==
    ASSUME NEW S, IsFiniteSet(S), NEW s \in SUBSET S, NEW x \in s
    PROVE  /\ Cardinality(s) \in Nat /\ Cardinality(s) > 0
           /\ s \ {x} \in SUBSET S /\ Cardinality(s \ {x}) = Cardinality(s) - 1
<1>1. IsFiniteSet(s)
  BY FS_Subset
<1>2. Cardinality(s \ {x}) = Cardinality(s) - 1 /\ Cardinality(s) \in Nat
  BY <1>1, FS_RemoveElement, FS_CardinalityType
<1>3. IsFiniteSet(s \ {x}) /\ Cardinality(s \ {x}) \in Nat
  BY <1>1, FS_Subset, FS_CardinalityType
<1> QED BY <1>2, <1>3

LEMMA FoldExists ==
    ASSUME NEW S, IsFiniteSet(S), NEW U, NEW base \in U, NEW F \in [S \X U -> U], NEW C, Chooses(C, S)
    PROVE  \E h \in [SUBSET S -> U] : Folds(h, F, C, base, S, U)
<1> DEFINE UpTo(h, n) == \A s \in SUBSET S : s # {} /\ Cardinality(s) <= n => h[s] = F[<<C[s], h[s \ {C[s]}]>>]
           Bad == {n \in Nat : ~\E h \in [SUBSET S -> U] : h[{}] = base /\ UpTo(h, n)}
<1>0. \A s \in SUBSET S : s # {} => C[s] \in s /\ C[s] \in S
  BY DEF Chooses
<1>1. \A s \in SUBSET S : Cardinality(s) \in Nat /\ Cardinality(s) <= Cardinality(S)
  BY FS_Subset, FS_CardinalityType
<1>2. Bad = {}
  <2> SUFFICES ASSUME Bad # {} PROVE FALSE
    OBVIOUS
  <2>0. Bad \in SUBSET Nat
    OBVIOUS
  <2>1. PICK n \in Bad : \A m \in Bad : n <= m
    <3> HIDE DEF Bad
    <3> QED BY <2>0, LeastOf
  <2>2. n # 0
    <3> SUFFICES ASSUME n = 0 PROVE FALSE
      OBVIOUS
    <3> DEFINE h == [s \in SUBSET S |-> base]
    <3>1. \A s \in SUBSET S : s # {} => Cardinality(s) > 0
      BY Fewer
    <3>2. h \in [SUBSET S -> U] /\ h[{}] = base
      OBVIOUS
    <3>3. UpTo(h, 0)
      BY <3>1, <1>1
    <3> QED BY <2>1, <3>2, <3>3
  <2>3. n - 1 \in Nat /\ n - 1 \notin Bad
    <3>1. n \in Nat
      BY <2>0
    <3> HIDE DEF Bad
    <3> QED BY <2>1, <2>2, <3>1
  <2>4. PICK h \in [SUBSET S -> U] : h[{}] = base /\ UpTo(h, n - 1)
    BY <2>3
  <2> DEFINE k == [s \in SUBSET S |-> IF Cardinality(s) = n THEN F[<<C[s], h[s \ {C[s]}]>>] ELSE h[s]]
  <2>5. \A s \in SUBSET S : s # {} => s \ {C[s]} \in SUBSET S /\ Cardinality(s \ {C[s]}) = Cardinality(s) - 1
    BY <1>0, Fewer
  <2>6. Cardinality({}) = 0
    BY FS_EmptySet
  <2>7. \A s \in SUBSET S : s # {} => F[<<C[s], h[s \ {C[s]}]>>] \in U
    BY <1>0, <2>5
  <2>8. k \in [SUBSET S -> U] /\ k[{}] = base
    <3>1. \A s \in SUBSET S : Cardinality(s) = n => s # {}
      BY <2>2, <2>6
    <3> QED BY <2>2, <2>4, <2>6, <2>7, <3>1
  <2>9. \A s \in SUBSET S : s # {} /\ Cardinality(s) <= n => k[s \ {C[s]}] = h[s \ {C[s]}]
    BY <1>1, <2>1, <2>5
  <2>10. UpTo(k, n)
    <3> SUFFICES ASSUME NEW s \in SUBSET S, s # {}, Cardinality(s) <= n
                 PROVE  k[s] = F[<<C[s], k[s \ {C[s]}]>>]
      OBVIOUS
    <3>1. CASE Cardinality(s) = n
      <4>1. k[s] = F[<<C[s], h[s \ {C[s]}]>>]
        BY <3>1
      <4> HIDE DEF k
      <4> QED BY <2>9, <4>1
    <3>2. CASE Cardinality(s) # n
      <4>1. k[s] = h[s]
        BY <3>2
      <4>2. Cardinality(s) <= n - 1
        BY <1>1, <2>1, <3>2
      <4> HIDE DEF k
      <4> QED BY <2>4, <2>9, <4>1, <4>2
    <3> QED BY <3>1, <3>2
  <2> HIDE DEF k
  <2> QED BY <2>1, <2>8, <2>10
<1>3. Cardinality(S) \in Nat
  BY FS_CardinalityType
<1>4. PICK h \in [SUBSET S -> U] : h[{}] = base /\ UpTo(h, Cardinality(S))
  BY <1>2, <1>3
<1> QED BY <1>1, <1>4 DEF Folds

\* The steps of such a fold go from G of what was taken to G of one more.
Reaching(h, F, C, base, S, U, G) ==
    /\ IsFiniteSet(S) /\ Chooses(C, S) /\ Folds(h, F, C, base, S, U)
    /\ \A s \in SUBSET S : G[s] \subseteq U
    /\ base \in G[{}]
    /\ \A s \in SUBSET S : s # {} => \A y \in G[s \ {C[s]}] : F[<<C[s], y>>] \in G[s]

LEMMA FoldReaches ==
    ASSUME NEW S, NEW U, NEW base, NEW F, NEW C, NEW h, NEW G, Reaching(h, F, C, base, S, U, G)
    PROVE  h[S] \in G[S]
<1> USE DEF Reaching
<1> DEFINE Bad == {n \in Nat : \E s \in SUBSET S : Cardinality(s) = n /\ h[s] \notin G[s]}
<1>1. \A s \in SUBSET S : Cardinality(s) \in Nat
  BY FS_Subset, FS_CardinalityType
<1>2. SUFFICES ASSUME Bad # {} PROVE FALSE
  BY <1>1
<1>3. PICK n \in Bad : \A m \in Bad : n <= m
  BY <1>2, LeastOf
<1>4. PICK s \in SUBSET S : Cardinality(s) = n /\ h[s] \notin G[s]
  BY <1>3
<1>5. s # {}
  BY <1>4 DEF Folds
<1> DEFINE r == s \ {C[s]}
<1>6. r \in SUBSET S /\ Cardinality(r) = n - 1 /\ n \in Nat
  BY <1>3, <1>4, <1>5, Fewer DEF Chooses
<1>7. h[r] \in G[r]
  BY <1>1, <1>3, <1>6
<1>8. h[s] = F[<<C[s], h[r]>>]
  BY <1>5, <1>6, <1>7 DEF Folds
<1> QED BY <1>4, <1>5, <1>7, <1>8

-----------------------------------------------------------------------------
(* Folds over sequences, from the left: the loops over a list.             *)

\* q has every member of S once.
Lists(q, S) ==
    \E n \in Nat : /\ q \in [1..n -> S]
                   /\ \A i, j \in 1..n : q[i] = q[j] => i = j
                   /\ \A x \in S : \E i \in 1..n : q[i] = x

\* h is a loop over q that does F, where it stays inside of U.
Loops(h, F, q, base, U) ==
    /\ h[{}] = base
    /\ \A s \in SUBSET DOMAIN q :
          s # {} /\ h[s \ {Max(s)}] \in U => h[s] = F[<<q[Max(s)], h[s \ {Max(s)}]>>]

LEMMA MaxIn == ASSUME NEW n \in Nat, NEW s \in SUBSET (1..n), s # {} PROVE Max(s) \in s
<1> DEFINE N == {n - x : x \in s}
<1>0. \A x \in s : x \in 1..n
  OBVIOUS
<1>1. N \in SUBSET Nat /\ N # {}
  <2>1. \A x \in s : n - x \in Nat
    BY <1>0
  <2> QED BY <2>1
<1>2. PICK m \in N : \A k \in N : m <= k
  <2> HIDE DEF N
  <2> QED BY <1>1, LeastOf
<1>3. PICK x \in s : m = n - x
  BY <1>2
<1>4. \A y \in s : n - y \in N /\ y \in Nat /\ x \in Nat
  BY <1>0
<1>5. \A y \in s : x >= y
  <2> HIDE DEF N
  <2> QED BY <1>2, <1>3, <1>4
<1> QED BY <1>5 DEF Max

\* As many different members as S has are all of S.
LEMMA ListedOnce ==
    ASSUME NEW S, IsFiniteSet(S), NEW q \in [1..Cardinality(S) -> S],
           \A i, j \in 1..Cardinality(S) : q[i] = q[j] => i = j
    PROVE  Lists(q, S)
<1> DEFINE D == 1..Cardinality(S)
<1>1. Cardinality(S) \in Nat
  BY FS_CardinalityType
<1>2. q \in Injection(D, S)
  BY DEF Injection, IsInjective
<1>3. Cardinality(D) = Cardinality(S)
  BY <1>1, FS_Interval
<1>4. q \in Surjection(D, S)
  <2> HIDE DEF D
  <2> QED BY <1>2, <1>3, FS_Injection
<1>5. \A x \in S : \E i \in D : q[i] = x
  BY <1>4 DEF Surjection
<1> QED BY <1>1, <1>5 DEF Lists

LEMMA ListedSet == ASSUME NEW S, IsFiniteSet(S) PROVE Lists(SetToSeq(S), S)
<1> DEFINE D == 1..Cardinality(S)
<1>1. Cardinality(S) \in Nat /\ ExistsBijection(D, S)
  BY FS_CardinalityType
<1>2. \E f \in [D -> S] : IsInjective(f)
  BY <1>1 DEF ExistsBijection, Bijection, Injection, IsInjective
<1> DEFINE q == SetToSeq(S)
<1>3. q \in [D -> S] /\ IsInjective(q)
  BY <1>2 DEF SetToSeq
<1> HIDE DEF q
<1>4. \A i, j \in D : q[i] = q[j] => i = j
  BY <1>3 DEF IsInjective
<1> QED BY <1>1, <1>3, <1>4, ListedOnce DEF q

\* There is such a loop.
LEMMA LoopExists ==
    ASSUME NEW S, NEW q, Lists(q, S), NEW U, NEW base \in U, NEW F \in [S \X U -> U]
    PROVE  \E h \in [SUBSET DOMAIN q -> U] : Loops(h, F, q, base, U)
<1>1. PICK n \in Nat : q \in [1..n -> S]
  BY DEF Lists
<1> DEFINE D == 1..n
           E == [p \in D \X U |-> F[<<q[p[1]], p[2]>>]]
           C == [s \in SUBSET D |-> Max(s)]
<1>2. E \in [D \X U -> U] /\ \A i \in D, y \in U : E[<<i, y>>] = F[<<q[i], y>>]
  BY <1>1
<1>3. Chooses(C, D) /\ \A s \in SUBSET D : C[s] = Max(s)
  BY MaxIn DEF Chooses
<1>4. IsFiniteSet(D) /\ DOMAIN q = D
  BY <1>1, FS_Interval
<1> HIDE DEF D, E, C
<1>5. PICK h \in [SUBSET D -> U] : Folds(h, E, C, base, D, U)
  BY <1>2, <1>3, <1>4, FoldExists
<1>6. Loops(h, F, q, base, U)
  <2> SUFFICES ASSUME NEW s \in SUBSET D, s # {}, h[s \ {Max(s)}] \in U
               PROVE  h[s] = F[<<q[Max(s)], h[s \ {Max(s)}]>>]
    BY <1>4, <1>5 DEF Loops, Folds
  <2>1. Max(s) \in D
    BY <1>3 DEF Chooses
  <2>2. h[s] = E[<<C[s], h[s \ {C[s]}]>>]
    BY <1>3, <1>5 DEF Folds
  <2> QED BY <1>2, <1>3, <2>1, <2>2
<1> QED BY <1>4, <1>6

\* The steps of a loop go from G of what was done to G of one more.
LEMMA LoopReaches ==
    ASSUME NEW S, NEW q, Lists(q, S), NEW U, NEW base, NEW F, NEW h, NEW G,
           Loops(h, F, q, base, U),
           \A T \in SUBSET S : G[T] \subseteq U, base \in G[{}],
           \A T \in SUBSET S : \A x \in T : \A y \in G[T \ {x}] : F[<<x, y>>] \in G[T]
    PROVE  h[DOMAIN q] \in G[S]
<1>1. PICK n \in Nat : /\ q \in [1..n -> S]
                       /\ \A i, j \in 1..n : q[i] = q[j] => i = j
                       /\ \A x \in S : \E i \in 1..n : q[i] = x
  BY DEF Lists
<1> DEFINE D == 1..n
           Of(s) == {q[i] : i \in s}
           C == [s \in SUBSET D |-> Max(s)]
           E == [p \in D \X U |-> F[<<q[p[1]], p[2]>>]]
           L == [s \in SUBSET D |-> G[Of(s)]]
<1>2. IsFiniteSet(D) /\ DOMAIN q = D
  <2>1. 1 \in Int /\ n \in Int /\ DOMAIN q = D
    BY <1>1
  <2> QED BY <2>1, FS_Interval
<1>3. Chooses(C, D) /\ \A s \in SUBSET D : C[s] = Max(s)
  BY MaxIn DEF Chooses
<1>4. \A s \in SUBSET D : Of(s) \in SUBSET S /\ L[s] = G[Of(s)]
  BY <1>1
<1>5. \A s \in SUBSET D : \A i \in s : q[i] \in Of(s) /\ Of(s \ {i}) = Of(s) \ {q[i]}
  <2> SUFFICES ASSUME NEW s \in SUBSET D, NEW i \in s PROVE q[i] \in Of(s) /\ Of(s \ {i}) = Of(s) \ {q[i]}
    OBVIOUS
  <2>1. \A j \in s : q[j] = q[i] <=> j = i
    BY <1>1
  <2> HIDE DEF D
  <2> QED BY <2>1
<1>6. Of({}) = {} /\ Of(D) = S
  <2>1. \A i \in D : q[i] \in S
    BY <1>1
  <2>2. \A x \in S : \E i \in D : q[i] = x
    BY <1>1
  <2> HIDE DEF D
  <2> QED BY <2>1, <2>2
<1>7. \A i \in D, y \in U : E[<<i, y>>] = F[<<q[i], y>>]
  OBVIOUS
<1> HIDE DEF D, Of, C, E, L
<1>8. Folds(h, E, C, base, D, U)
  <2> SUFFICES ASSUME NEW s \in SUBSET D, s # {}, h[s \ {C[s]}] \in U
               PROVE  h[s] = E[<<C[s], h[s \ {C[s]}]>>]
    BY DEF Loops, Folds
  <2>1. C[s] = Max(s) /\ C[s] \in D
    BY <1>3 DEF Chooses
  <2>2. h[s] = F[<<q[Max(s)], h[s \ {Max(s)}]>>]
    BY <1>2, <2>1 DEF Loops
  <2> QED BY <1>7, <2>1, <2>2
<1>9. \A s \in SUBSET D : s # {} => \A y \in L[s \ {C[s]}] : E[<<C[s], y>>] \in L[s]
  <2> SUFFICES ASSUME NEW s \in SUBSET D, s # {}, NEW y \in L[s \ {C[s]}] PROVE E[<<C[s], y>>] \in L[s]
    OBVIOUS
  <2>1. C[s] \in s /\ C[s] \in D /\ s \ {C[s]} \in SUBSET D
    BY <1>3 DEF Chooses
  <2>2. y \in G[Of(s) \ {q[C[s]]}] /\ q[C[s]] \in Of(s) /\ Of(s) \in SUBSET S
    BY <1>4, <1>5, <2>1
  <2>3. y \in U
    <3>1. Of(s) \ {q[C[s]]} \in SUBSET S
      BY <2>2
    <3> QED BY <2>2, <3>1
  <2>4. F[<<q[C[s]], y>>] \in G[Of(s)]
    BY <2>2
  <2> QED BY <1>4, <1>7, <2>1, <2>3, <2>4
<1>10. \A s \in SUBSET D : L[s] \subseteq U
  BY <1>4
<1>11. base \in L[{}] /\ L[D] = G[S]
  BY <1>4, <1>6
<1>12. Reaching(h, E, C, base, D, U, L)
  BY <1>2, <1>3, <1>8, <1>9, <1>10, <1>11 DEF Reaching
<1>13. h[D] \in L[D]
  BY <1>12, FoldReaches
<1> QED BY <1>2, <1>11, <1>13
=============================================================================
