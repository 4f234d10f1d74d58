-------------------------------- MODULE Sums --------------------------------
(***************************************************************************)
(* What SumFunctionOnSet of the community modules computes, for every      *)
(* function and every finite set: the sums over rows and over handlers     *)
(* that invariants are about.                                              *)
(*                                                                         *)
(* It is defined by a recursive function on the subsets of the set, of     *)
(* which it takes an element CHOOSE picks.  That this function exists, and *)
(* that the sum does not depend on what is picked, are inductions on the   *)
(* size of the set, each by the least size at which the claim fails.       *)
(***************************************************************************)
EXTENDS Integers, FiniteSets, Functions, TLAPS, WellFoundedInduction, FiniteSetTheorems

Picked(s)     == CHOOSE x \in s : TRUE
Unfold(f, g, s) == IF s = {} THEN 0 ELSE f[Picked(s)] + g[s \ {Picked(s)}]
Computes(f, S, g) == g = [s \in SUBSET S |-> Unfold(f, g, s)]

\* A nonempty set of naturals has a least element.
LEMMA LeastNatural ==
  ASSUME NEW T \in SUBSET Nat, T # {}
  PROVE  \E n \in T : \A m \in T : n <= m
<1> DEFINE Below == {pair \in Nat \X Nat : pair[1] < pair[2]}
<1>1. IsWellFoundedOn(Below, Nat)
  BY NatLessThanWellFounded DEF OpToRel
<1> HIDE DEF Below
<1>2. \E n \in T : \A m \in T : ~ (<<m, n>> \in Below)
  BY <1>1, WFMin
<1>3. \A n, m \in T : <<m, n>> \notin Below => n <= m
  BY DEF Below
<1> QED
  BY <1>2, <1>3

\* An element less.
LEMMA OneLess ==
  ASSUME NEW S, IsFiniteSet(S), NEW x \in S
  PROVE  /\ IsFiniteSet(S \ {x})
         /\ Cardinality(S) \in Nat /\ Cardinality(S \ {x}) \in Nat
         /\ Cardinality(S \ {x}) < Cardinality(S)
         /\ Cardinality(S) = Cardinality(S \ {x}) + 1
<1>1. /\ IsFiniteSet(S \ {x}) /\ Cardinality(S \ {x}) = Cardinality(S) - 1
  BY FS_RemoveElement
<1>2. Cardinality(S) \in Nat /\ Cardinality(S \ {x}) \in Nat
  BY <1>1, FS_CardinalityType
<1> QED
  BY <1>1, <1>2

LEMMA PickedIsIn == ASSUME NEW s, s # {} PROVE Picked(s) \in s
  BY DEF Picked

\* Of every function and finite set there is a function that computes its sums.
LEMMA ComputesExists ==
  ASSUME NEW f, NEW S, IsFiniteSet(S)
  PROVE  \E g : Computes(f, S, g)
<1> DEFINE Good(n) == \E g : \A s \in SUBSET S : Cardinality(s) <= n => g[s] = Unfold(f, g, s)
<1>0. \A s \in SUBSET S : IsFiniteSet(s) /\ Cardinality(s) \in Nat /\ (Cardinality(s) = 0 => s = {})
  BY FS_Subset, FS_CardinalityType, FS_EmptySet
<1>1. Good(0)
  <2> DEFINE g == [s \in SUBSET S |-> 0]
  <2>1. \A s \in SUBSET S : Cardinality(s) <= 0 => s = {}
    BY <1>0
  <2>2. \A s \in SUBSET S : Cardinality(s) <= 0 => g[s] = Unfold(f, g, s)
    BY <2>1 DEF Unfold
  <2> QED
    BY <2>2
<1>2. ASSUME NEW n \in Nat, Good(n) PROVE Good(n + 1)
  <2>1. PICK g : \A s \in SUBSET S : Cardinality(s) <= n => g[s] = Unfold(f, g, s)
    BY <1>2
  <2> DEFINE h == [s \in SUBSET S |-> Unfold(f, g, s)]
  <2>2. ASSUME NEW s \in SUBSET S, Cardinality(s) <= n + 1
        PROVE  h[s] = Unfold(f, h, s)
    <3>1. CASE s = {}
      BY <3>1 DEF Unfold
    <3>2. CASE s # {}
      <4> DEFINE t == s \ {Picked(s)}
      <4>1. t \in SUBSET S /\ Cardinality(t) <= n
        BY <1>0, <2>2, <3>2, PickedIsIn, OneLess
      <4>2. g[t] = h[t]
        BY <2>1, <4>1
      <4> QED
        BY <3>2, <4>2 DEF Unfold
    <3> QED
      BY <3>1, <3>2
  <2> QED
    BY <2>2
<1> HIDE DEF Good
<1>3. \A n \in Nat : Good(n)
  <2> SUFFICES ASSUME {n \in Nat : ~Good(n)} # {} PROVE FALSE
    OBVIOUS
  <2>1. PICK n \in Nat : ~Good(n) /\ \A m \in Nat : ~Good(m) => n <= m
    <3> DEFINE Bad == {n \in Nat : ~Good(n)}
    <3>1. \E n \in Bad : \A m \in Bad : n <= m
      BY LeastNatural
    <3> QED
      BY <3>1
  <2>2. n # 0 /\ n - 1 \in Nat
    BY <1>1, <2>1
  <2>3. Good(n - 1)
    BY <2>1, <2>2
  <2>4. Good((n - 1) + 1)
    BY <1>2, <2>2, <2>3
  <2> QED
    BY <2>1, <2>2, <2>4
<1>4. \A s \in SUBSET S : Cardinality(s) <= Cardinality(S)
  BY FS_Subset
<1>5. PICK g : \A s \in SUBSET S : g[s] = Unfold(f, g, s)
  BY <1>0, <1>3, <1>4 DEF Good
<1> DEFINE h == [s \in SUBSET S |-> g[s]]
<1>6. ASSUME NEW s \in SUBSET S PROVE h[s] = Unfold(f, h, s)
  <2>1. s # {} => s \ {Picked(s)} \in SUBSET S
    OBVIOUS
  <2> QED
    BY <1>5, <2>1 DEF Unfold
<1>7. h = [s \in SUBSET S |-> Unfold(f, h, s)]
  BY <1>6
<1> QED
  BY <1>7 DEF Computes

\* Two of them agree on what both compute.
LEMMA ComputesAgree ==
  ASSUME NEW f, NEW S, NEW T, IsFiniteSet(S), T \subseteq S,
         NEW g, NEW h, Computes(f, S, g), Computes(f, T, h)
  PROVE  \A s \in SUBSET T : g[s] = h[s]
<1> DEFINE Bad == {n \in Nat : \E s \in SUBSET T : Cardinality(s) = n /\ g[s] # h[s]}
<1>0. \A s \in SUBSET T : IsFiniteSet(s) /\ Cardinality(s) \in Nat
  BY FS_Subset, FS_CardinalityType
<1>1. ASSUME NEW s \in SUBSET T PROVE g[s] = Unfold(f, g, s) /\ h[s] = Unfold(f, h, s)
  BY DEF Computes
<1>2. SUFFICES ASSUME Bad # {} PROVE FALSE
  BY <1>0
<1>3. PICK n \in Bad : \A m \in Bad : n <= m
  BY <1>2, LeastNatural
<1>4. PICK s \in SUBSET T : Cardinality(s) = n /\ g[s] # h[s]
  BY <1>3
<1>5. s # {}
  BY <1>1, <1>4 DEF Unfold
<1>6. PICK t \in SUBSET T : t = s \ {Picked(s)}
  BY <1>4
<1>7. Cardinality(t) \in Nat /\ Cardinality(t) < n
  BY <1>0, <1>4, <1>5, <1>6, PickedIsIn, OneLess
<1>8. g[t] = h[t]
  BY <1>3, <1>7
<1> QED
  BY <1>1, <1>4, <1>5, <1>6, <1>8 DEF Unfold

LEMMA SumIsComputed ==
  ASSUME NEW f, NEW S, IsFiniteSet(S)
  PROVE  \E g : Computes(f, S, g) /\ SumFunctionOnSet(f, S) = g[S]
<1> DEFINE G == CHOOSE g : Computes(f, S, g)
<1>1. SumFunctionOnSet(f, S) = G[S]
  BY DEF SumFunctionOnSet, FoldFunctionOnSet, MapThenFoldSet, Computes, Unfold, Picked
<1>2. Computes(f, S, G)
  BY ComputesExists
<1> QED
  BY <1>1, <1>2

LEMMA SumEmpty == ASSUME NEW f PROVE SumFunctionOnSet(f, {}) = 0
<1>1. PICK g : Computes(f, {}, g) /\ SumFunctionOnSet(f, {}) = g[{}]
  BY SumIsComputed, FS_EmptySet
<1> QED
  BY <1>1 DEF Computes, Unfold

LEMMA SumPicked ==
  ASSUME NEW f, NEW S, IsFiniteSet(S), S # {}
  PROVE  SumFunctionOnSet(f, S) = f[Picked(S)] + SumFunctionOnSet(f, S \ {Picked(S)})
<1>1. PICK T : T = S \ {Picked(S)}
  OBVIOUS
<1>2. IsFiniteSet(T) /\ T \in SUBSET S
  BY <1>1, PickedIsIn, OneLess
<1>3. PICK g : Computes(f, S, g) /\ SumFunctionOnSet(f, S) = g[S]
  BY SumIsComputed
<1>4. PICK h : Computes(f, T, h) /\ SumFunctionOnSet(f, T) = h[T]
  BY <1>2, SumIsComputed
<1>5. g[T] = h[T]
  BY <1>2, <1>3, <1>4, ComputesAgree
<1>6. g[S] = f[Picked(S)] + g[T]
  BY <1>1, <1>3 DEF Computes, Unfold
<1> QED
  BY <1>1, <1>3, <1>4, <1>5, <1>6

-----------------------------------------------------------------------------
\* Sums of integers are integers, of naturals naturals.
LEMMA SumType ==
  ASSUME NEW f, NEW S, IsFiniteSet(S), \A x \in S : f[x] \in Int
  PROVE  /\ SumFunctionOnSet(f, S) \in Int
         /\ (\A x \in S : f[x] \in Nat) => SumFunctionOnSet(f, S) \in Nat
<1> DEFINE Good(T) == /\ SumFunctionOnSet(f, T) \in Int
                      /\ (\A x \in S : f[x] \in Nat) => SumFunctionOnSet(f, T) \in Nat
           Bad == {n \in Nat : \E T \in SUBSET S : Cardinality(T) = n /\ ~Good(T)}
<1>0. \A T \in SUBSET S : IsFiniteSet(T) /\ Cardinality(T) \in Nat
  BY FS_Subset, FS_CardinalityType
<1>1. SUFFICES ASSUME Bad # {} PROVE FALSE
  BY <1>0
<1>2. PICK n \in Bad : \A m \in Bad : n <= m
  BY <1>1, LeastNatural
<1>3. PICK T \in SUBSET S : Cardinality(T) = n /\ ~Good(T)
  BY <1>2
<1>4. T # {}
  BY <1>3, SumEmpty
<1>5. PICK U \in SUBSET S : U = T \ {Picked(T)}
  BY <1>3
<1>6. Cardinality(U) \in Nat /\ Cardinality(U) < n
  BY <1>0, <1>3, <1>4, <1>5, PickedIsIn, OneLess
<1>7. Good(U)
  BY <1>2, <1>6
<1>8. SumFunctionOnSet(f, T) = f[Picked(T)] + SumFunctionOnSet(f, U)
  BY <1>0, <1>4, <1>5, SumPicked
<1>9. Picked(T) \in S
  BY <1>4, PickedIsIn
<1> QED
  BY <1>3, <1>7, <1>8, <1>9

\* Any element may be the one that is added last.
LEMMA SumRemove ==
  ASSUME NEW f, NEW S, IsFiniteSet(S), \A x \in S : f[x] \in Int, NEW y \in S
  PROVE  SumFunctionOnSet(f, S) = f[y] + SumFunctionOnSet(f, S \ {y})
<1> DEFINE Good(T) == \A x \in T : SumFunctionOnSet(f, T) = f[x] + SumFunctionOnSet(f, T \ {x})
           Bad == {n \in Nat : \E T \in SUBSET S : Cardinality(T) = n /\ ~Good(T)}
<1>0. \A T \in SUBSET S : IsFiniteSet(T) /\ Cardinality(T) \in Nat
  BY FS_Subset, FS_CardinalityType
<1>1. SUFFICES ASSUME Bad # {} PROVE FALSE
  BY <1>0
<1>2. PICK n \in Bad : \A m \in Bad : n <= m
  BY <1>1, LeastNatural
<1>3. PICK T \in SUBSET S : Cardinality(T) = n /\ ~Good(T)
  BY <1>2
<1>4. PICK x \in T : SumFunctionOnSet(f, T) # f[x] + SumFunctionOnSet(f, T \ {x})
  BY <1>3
<1>5. PICK p \in T : p = Picked(T)
  BY <1>4, PickedIsIn
<1>6. SumFunctionOnSet(f, T) = f[p] + SumFunctionOnSet(f, T \ {p})
  BY <1>0, <1>5, SumPicked
<1>7. x # p
  BY <1>4, <1>6
<1>8. PICK U \in SUBSET S, V \in SUBSET S, W \in SUBSET S :
        U = T \ {p} /\ V = T \ {x} /\ W = T \ {x, p}
  BY <1>3
<1>9. /\ Cardinality(U) \in Nat /\ Cardinality(U) < n
      /\ Cardinality(V) \in Nat /\ Cardinality(V) < n
  BY <1>0, <1>3, <1>8, OneLess
<1>10. Good(U) /\ Good(V)
  BY <1>2, <1>9
<1>11. x \in U /\ p \in V /\ U \ {x} = W /\ V \ {p} = W
  BY <1>7, <1>8
<1>12. /\ SumFunctionOnSet(f, U) = f[x] + SumFunctionOnSet(f, W)
       /\ SumFunctionOnSet(f, V) = f[p] + SumFunctionOnSet(f, W)
  BY <1>10, <1>11
<1>13. f[x] \in Int /\ f[p] \in Int /\ SumFunctionOnSet(f, W) \in Int
  BY <1>0, SumType
<1>14. /\ SumFunctionOnSet(f, T) = f[p] + SumFunctionOnSet(f, U)
       /\ SumFunctionOnSet(f, T) # f[x] + SumFunctionOnSet(f, V)
  BY <1>4, <1>6, <1>8
<1> QED
  BY <1>12, <1>13, <1>14

\* Only the values at the elements of the set matter.
LEMMA SumSame ==
  ASSUME NEW f, NEW g, NEW S, IsFiniteSet(S), \A x \in S : f[x] = g[x]
  PROVE  SumFunctionOnSet(f, S) = SumFunctionOnSet(g, S)
<1> DEFINE Good(T) == SumFunctionOnSet(f, T) = SumFunctionOnSet(g, T)
           Bad == {n \in Nat : \E T \in SUBSET S : Cardinality(T) = n /\ ~Good(T)}
<1>0. \A T \in SUBSET S : IsFiniteSet(T) /\ Cardinality(T) \in Nat
  BY FS_Subset, FS_CardinalityType
<1>1. SUFFICES ASSUME Bad # {} PROVE FALSE
  BY <1>0
<1>2. PICK n \in Bad : \A m \in Bad : n <= m
  BY <1>1, LeastNatural
<1>3. PICK T \in SUBSET S : Cardinality(T) = n /\ ~Good(T)
  BY <1>2
<1>4. T # {}
  BY <1>3, SumEmpty
<1>5. PICK U \in SUBSET S : U = T \ {Picked(T)}
  BY <1>3
<1>6. Cardinality(U) \in Nat /\ Cardinality(U) < n
  BY <1>0, <1>3, <1>4, <1>5, PickedIsIn, OneLess
<1>7. Good(U)
  BY <1>2, <1>6
<1>8. /\ SumFunctionOnSet(f, T) = f[Picked(T)] + SumFunctionOnSet(f, U)
      /\ SumFunctionOnSet(g, T) = g[Picked(T)] + SumFunctionOnSet(g, U)
  BY <1>0, <1>4, <1>5, SumPicked
<1>9. f[Picked(T)] = g[Picked(T)]
  BY <1>4, PickedIsIn
<1> QED
  BY <1>3, <1>7, <1>8, <1>9

\* One element more.
LEMMA SumAdd ==
  ASSUME NEW f, NEW S, IsFiniteSet(S), NEW y, y \notin S, \A x \in S \cup {y} : f[x] \in Int
  PROVE  SumFunctionOnSet(f, S \cup {y}) = SumFunctionOnSet(f, S) + f[y]
<1>1. PICK T : T = S \cup {y}
  OBVIOUS
<1>2. IsFiniteSet(T) /\ T \ {y} = S /\ y \in T
  BY <1>1, FS_AddElement
<1>3. SumFunctionOnSet(f, T) = f[y] + SumFunctionOnSet(f, S)
  BY <1>1, <1>2, SumRemove
<1>4. SumFunctionOnSet(f, S) \in Int /\ f[y] \in Int
  BY SumType
<1> QED
  BY <1>1, <1>3, <1>4

\* A set has no larger sum than the set it is a part of.
LEMMA SumPart ==
  ASSUME NEW f, NEW S, IsFiniteSet(S), \A x \in S : f[x] \in Nat, NEW Q \in SUBSET S
  PROVE  SumFunctionOnSet(f, Q) <= SumFunctionOnSet(f, S)
<1> DEFINE Good(T) == SumFunctionOnSet(f, Q \cap T) <= SumFunctionOnSet(f, T)
           Bad == {n \in Nat : \E T \in SUBSET S : Cardinality(T) = n /\ ~Good(T)}
<1>0. \A T \in SUBSET S : IsFiniteSet(T) /\ Cardinality(T) \in Nat
  BY FS_Subset, FS_CardinalityType
<1>1. Good(S) => SumFunctionOnSet(f, Q) <= SumFunctionOnSet(f, S)
  <2>1. Q \cap S = Q
    OBVIOUS
  <2> QED
    BY <2>1
<1>2. SUFFICES ASSUME Bad # {} PROVE FALSE
  BY <1>0, <1>1
<1>3. PICK n \in Bad : \A m \in Bad : n <= m
  BY <1>2, LeastNatural
<1>4. PICK T \in SUBSET S : Cardinality(T) = n /\ ~Good(T)
  BY <1>3
<1>5. T # {}
  <2>1. Q \cap {} = {}
    OBVIOUS
  <2> QED
    BY <1>4, <2>1, SumEmpty
<1> HIDE DEF Good
<1>6. PICK y \in T : TRUE
  BY <1>5
<1>7. PICK U \in SUBSET S : U = T \ {y}
  BY <1>4
<1>8. Cardinality(U) \in Nat /\ Cardinality(U) < n
  BY <1>0, <1>4, <1>7, OneLess
<1>9. Good(U)
  BY <1>3, <1>8
<1>10. PICK A \in SUBSET S, B \in SUBSET S : A = Q \cap T /\ B = Q \cap U
  BY <1>4
<1>11. /\ SumFunctionOnSet(f, T) = f[y] + SumFunctionOnSet(f, U)
       /\ f[y] \in Nat
       /\ SumFunctionOnSet(f, A) \in Nat /\ SumFunctionOnSet(f, B) \in Nat
       /\ SumFunctionOnSet(f, U) \in Nat
  BY <1>0, <1>7, SumRemove, SumType
<1>12. SumFunctionOnSet(f, A) <= f[y] + SumFunctionOnSet(f, B)
  <2>1. CASE y \in Q
    <3>1. y \in A /\ A \ {y} = B
      BY <1>7, <1>10, <2>1
    <3>2. SumFunctionOnSet(f, A) = f[y] + SumFunctionOnSet(f, B)
      BY <1>0, <3>1, SumRemove
    <3> QED
      BY <1>11, <3>2
  <2>2. CASE y \notin Q
    <3>1. A = B
      BY <1>7, <1>10, <2>2
    <3> QED
      BY <1>11, <3>1
  <2> QED
    BY <2>1, <2>2
<1>13. SumFunctionOnSet(f, B) <= SumFunctionOnSet(f, U)
  BY <1>9, <1>10 DEF Good
<1>14. SumFunctionOnSet(f, A) <= SumFunctionOnSet(f, T)
  BY <1>11, <1>12, <1>13
<1> QED
  BY <1>4, <1>10, <1>14 DEF Good

\* A function that is zero on a set.
LEMMA SumZero ==
  ASSUME NEW f, NEW S, IsFiniteSet(S), \A x \in S : f[x] = 0
  PROVE  SumFunctionOnSet(f, S) = 0
<1> DEFINE Good(T) == SumFunctionOnSet(f, T) = 0
           Bad == {n \in Nat : \E T \in SUBSET S : Cardinality(T) = n /\ ~Good(T)}
<1>0. \A T \in SUBSET S : IsFiniteSet(T) /\ Cardinality(T) \in Nat
  BY FS_Subset, FS_CardinalityType
<1>1. SUFFICES ASSUME Bad # {} PROVE FALSE
  BY <1>0
<1>2. PICK n \in Bad : \A m \in Bad : n <= m
  BY <1>1, LeastNatural
<1>3. PICK T \in SUBSET S : Cardinality(T) = n /\ ~Good(T)
  BY <1>2
<1>4. T # {}
  BY <1>3, SumEmpty
<1>5. PICK U \in SUBSET S : U = T \ {Picked(T)}
  BY <1>3
<1>6. Cardinality(U) \in Nat /\ Cardinality(U) < n
  BY <1>0, <1>3, <1>4, <1>5, PickedIsIn, OneLess
<1>7. Good(U)
  BY <1>2, <1>6
<1>8. SumFunctionOnSet(f, T) = f[Picked(T)] + SumFunctionOnSet(f, U)
  BY <1>0, <1>4, <1>5, SumPicked
<1>9. f[Picked(T)] = 0
  BY <1>4, PickedIsIn
<1> QED
  BY <1>3, <1>7, <1>8, <1>9

\* One element changes its value.
LEMMA SumUpdate ==
  ASSUME NEW f, NEW g, NEW S, IsFiniteSet(S), NEW y \in S,
         \A x \in S : f[x] \in Int /\ g[x] \in Int, \A x \in S \ {y} : g[x] = f[x]
  PROVE  SumFunctionOnSet(g, S) = SumFunctionOnSet(f, S) - f[y] + g[y]
<1>1. PICK T : T = S \ {y}
  OBVIOUS
<1>2. IsFiniteSet(T)
  BY <1>1, OneLess
<1>3. SumFunctionOnSet(f, S) = f[y] + SumFunctionOnSet(f, T)
  BY <1>1, SumRemove
<1>4. SumFunctionOnSet(g, S) = g[y] + SumFunctionOnSet(g, T)
  BY <1>1, SumRemove
<1>5. SumFunctionOnSet(f, T) = SumFunctionOnSet(g, T)
  BY <1>1, <1>2, SumSame
<1>6. SumFunctionOnSet(f, T) \in Int
  BY <1>1, <1>2, SumType
<1> QED
  BY <1>3, <1>4, <1>5, <1>6

=============================================================================
