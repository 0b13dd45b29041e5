---------------------------- MODULE SumTheorems -----------------------------
(***************************************************************************)
(* Sums over finite sets, and the orders of their elements.  The folds of   *)
(* the community modules are recursive functions on the subsets of a set,    *)
(* which take one element after another in the order of some choice.  That   *)
(* such a function exists, and that its value does not depend on the choice, *)
(* is proved here by induction on the number of elements; what the models    *)
(* sum up is then a Total.  The same for functions on the numbers that are    *)
(* defined step by step.                                                     *)
(***************************************************************************)
EXTENDS Integers, FiniteSets, FiniteSetTheorems, FunctionTheorems, WellFoundedInduction, TLAPS

\* c takes an element from each set that has one.
Picks(c, S) == \A s \in SUBSET S : s # {} => c[s] \in s

\* h sums f up in the order of c.
Sums(h, f, c, S) ==
    h = [s \in SUBSET S |-> IF s = {} THEN 0 ELSE f[c[s]] + h[s \ {c[s]}]]

First(S) == [s \in SUBSET S |-> CHOOSE x \in s : TRUE]

Total(f, S) == (CHOOSE h : Sums(h, f, First(S), S))[S]

-----------------------------------------------------------------------------
\* A set of numbers has a least one.
LEMMA LeastNumber ==
  ASSUME NEW A \in SUBSET Nat, A # {}
  PROVE  \E x \in A : \A y \in A : x <= y
<1>1. PICK x \in A : \A y \in A : ~ (<<y, x>> \in OpToRel(<, Nat))
  BY WFMin, NatLessThanWellFounded
<1>2. \A y \in A : ~ (y < x)
  BY <1>1 DEF OpToRel
<1> QED
  BY <1>2

\* What holds of 0, and of n + 1 if of n, holds of all natural numbers.
LEMMA AllNumbers ==
  ASSUME NEW A, 0 \in A, \A n \in Nat : n \in A => n + 1 \in A
  PROVE  Nat \subseteq A
<1> SUFFICES ASSUME Nat \ A # {} PROVE FALSE
  OBVIOUS
<1>1. PICK x \in Nat \ A : \A y \in Nat \ A : x <= y
  BY LeastNumber
<1>2. x - 1 \in Nat /\ x - 1 < x /\ x = (x - 1) + 1
  OBVIOUS
<1> QED
  BY <1>1, <1>2

\* What holds of a set if it holds of every smaller one holds of all finite
\* sets; A is the family of sets of which it holds.
LEMMA AllSubsets ==
  ASSUME NEW S, IsFiniteSet(S), NEW A,
         \A s \in SUBSET S : (\A t \in SUBSET s : t # s => t \in A) => s \in A
  PROVE  SUBSET S \subseteq A
<1> DEFINE N == {n \in Nat : \A s \in SUBSET S : Cardinality(s) <= n => s \in A}
<1>1. \A s \in SUBSET S : IsFiniteSet(s) /\ Cardinality(s) \in Nat
  BY FS_Subset, FS_CardinalityType
<1>2. ASSUME NEW s \in SUBSET S, NEW t \in SUBSET s, t # s
      PROVE  Cardinality(t) < Cardinality(s)
  <2>1. Cardinality(t) <= Cardinality(s) /\ Cardinality(t) # Cardinality(s)
    BY <1>1, <1>2, FS_Subset
  <2>2. t \in SUBSET S
    OBVIOUS
  <2> QED
    BY <1>1, <2>1, <2>2
<1>3. 0 \in N
  <2>1. ASSUME NEW s \in SUBSET S, Cardinality(s) <= 0 PROVE s \in A
    <3>1. IsFiniteSet(s) /\ Cardinality(s) = 0
      BY <1>1, <2>1
    <3>2. s = {}
      BY <3>1, FS_EmptySet
    <3>3. \A t \in SUBSET s : t = s
      BY <3>2
    <3> QED
      BY <3>3
  <2> QED
    BY <2>1
<1>4. ASSUME NEW n \in Nat, n \in N PROVE n + 1 \in N
  <2>1. ASSUME NEW s \in SUBSET S, Cardinality(s) <= n + 1 PROVE s \in A
    <3>1. ASSUME NEW t \in SUBSET s, t # s PROVE t \in A
      <4>1. Cardinality(t) < Cardinality(s) /\ t \in SUBSET S
        BY <1>2, <3>1
      <4>2. Cardinality(t) <= n
        BY <1>1, <2>1, <4>1
      <4> QED
        BY <1>4, <4>1, <4>2
    <3> QED
      BY <3>1
  <2> QED
    BY <2>1
<1>5. Nat \subseteq N
  <2> HIDE DEF N
  <2> QED
    BY <1>3, <1>4, AllNumbers
<1> QED
  BY <1>1, <1>5

-----------------------------------------------------------------------------
\* There is such a function.
LEMMA SumsExist ==
  ASSUME NEW S, IsFiniteSet(S), NEW c, NEW f, Picks(c, S)
  PROVE  \E h : Sums(h, f, c, S)
<1> DEFINE Small(n) == {s \in SUBSET S : Cardinality(s) <= n}
           Value(h, s) == IF s = {} THEN 0 ELSE f[c[s]] + h[s \ {c[s]}]
           N == {n \in Nat : \E h : h = [s \in Small(n) |-> Value(h, s)]}
<1>1. \A s \in SUBSET S : IsFiniteSet(s) /\ Cardinality(s) \in Nat
  BY FS_Subset, FS_CardinalityType
<1>2. 0 \in N
  <2> DEFINE h == [s \in Small(0) |-> 0]
  <2>1. \A s \in Small(0) : s = {}
    BY <1>1, FS_EmptySet
  <2>2. h = [s \in Small(0) |-> Value(h, s)]
    BY <2>1
  <2> QED
    BY <2>2
<1>3. ASSUME NEW n \in Nat, n \in N PROVE n + 1 \in N
  <2>1. PICK h : h = [s \in Small(n) |-> Value(h, s)]
    BY <1>3
  <2> DEFINE g == [s \in Small(n + 1) |-> Value(h, s)]
  <2>2. ASSUME NEW s \in Small(n + 1) PROVE Value(h, s) = Value(g, s)
    <3>1. CASE s = {}
      BY <3>1
    <3>2. CASE s # {}
      <4> DEFINE t == s \ {c[s]}
      <4>1. c[s] \in s
        BY <3>2 DEF Picks
      <4>2. Cardinality(t) = Cardinality(s) - 1
        BY <1>1, <4>1, FS_RemoveElement
      <4>3. t \in Small(n) /\ t \in Small(n + 1)
        BY <1>1, <4>2
      <4>4. h[t] = Value(h, t) /\ g[t] = Value(h, t)
        BY <2>1, <4>3
      <4> QED
        BY <3>2, <4>4
    <3> QED
      BY <3>1, <3>2
  <2>3. g = [s \in Small(n + 1) |-> Value(g, s)]
    <3>1. g = [s \in Small(n + 1) |-> Value(h, s)]
      OBVIOUS
    <3> HIDE DEF Value, Small, g
    <3> QED
      BY <2>2, <3>1
  <2> HIDE DEF Value, Small, g
  <2> QED
    BY <2>3
<1>4. Nat \subseteq N
  <2> HIDE DEF N
  <2> QED
    BY <1>2, <1>3, AllNumbers
<1>5. Cardinality(S) \in N /\ Small(Cardinality(S)) = SUBSET S
  BY <1>1, <1>4, FS_Subset
<1>6. PICK h : h = [s \in SUBSET S |-> Value(h, s)]
  BY <1>5
<1> QED
  BY <1>6 DEF Sums

LEMMA SumsOpen ==
  ASSUME NEW S, NEW c, NEW f, NEW h, Sums(h, f, c, S)
  PROVE  /\ h[{}] = 0
         /\ \A s \in SUBSET S : s # {} => h[s] = f[c[s]] + h[s \ {c[s]}]
<1> DEFINE Value(t) == IF t = {} THEN 0 ELSE f[c[t]] + h[t \ {c[t]}]
<1>1. h = [t \in SUBSET S |-> Value(t)]
  BY DEF Sums
<1>2. \A s \in SUBSET S : h[s] = [t \in SUBSET S |-> Value(t)][s]
  BY <1>1
<1>3. \A s \in SUBSET S : h[s] = Value(s)
  <2> HIDE DEF Value
  <2> QED
    BY <1>2
<1> QED
  BY <1>3

LEMMA SumsAreInts ==
  ASSUME NEW S, IsFiniteSet(S), NEW c, NEW f, Picks(c, S), \A x \in S : f[x] \in Int,
         NEW h, Sums(h, f, c, S)
  PROVE  \A s \in SUBSET S : h[s] \in Int
<1> DEFINE A == {s \in SUBSET S : h[s] \in Int}
<1>0. h[{}] = 0 /\ \A s \in SUBSET S : s # {} => h[s] = f[c[s]] + h[s \ {c[s]}]
  <2>1. h[{}] = 0
    BY SumsOpen
  <2>2. \A s \in SUBSET S : s # {} => h[s] = f[c[s]] + h[s \ {c[s]}]
    BY SumsOpen
  <2> QED
    BY <2>1, <2>2
<1>1. ASSUME NEW s \in SUBSET S, \A t \in SUBSET s : t # s => t \in A PROVE s \in A
  <2>1. CASE s = {}
    BY <1>0, <2>1
  <2>2. CASE s # {}
    <3>1. c[s] \in s /\ f[c[s]] \in Int
      BY <2>2 DEF Picks
    <3>2. s \ {c[s]} \in A
      BY <1>1, <3>1
    <3>3. h[s] = f[c[s]] + h[s \ {c[s]}]
      BY <1>0, <2>2
    <3> QED
      BY <3>1, <3>2, <3>3
  <2> QED
    BY <2>1, <2>2
<1>2. SUBSET S \subseteq A
  <2> HIDE DEF A
  <2> QED
    BY <1>1, AllSubsets
<1> QED
  BY <1>2

\* Any element may be taken first.
LEMMA AnyFirst ==
  ASSUME NEW S, IsFiniteSet(S), NEW c, NEW f, Picks(c, S), \A x \in S : f[x] \in Int,
         NEW h, Sums(h, f, c, S)
  PROVE  \A s \in SUBSET S : \A x \in s : h[s] = f[x] + h[s \ {x}]
<1> DEFINE A == {s \in SUBSET S : \A x \in s : h[s] = f[x] + h[s \ {x}]}
<1>0. \A s \in SUBSET S : h[s] \in Int
  BY SumsAreInts
<1>3. \A s \in SUBSET S : s # {} => h[s] = f[c[s]] + h[s \ {c[s]}]
  BY SumsOpen
<1>1. ASSUME NEW s \in SUBSET S, \A t \in SUBSET s : t # s => t \in A PROVE s \in A
  <2>1. ASSUME NEW x \in s PROVE h[s] = f[x] + h[s \ {x}]
    <3> DEFINE y == c[s]
    <3>1. y \in s /\ h[s] = f[y] + h[s \ {y}]
      BY <1>3 DEF Picks
    <3>2. CASE x = y
      BY <3>1, <3>2
    <3>3. CASE x # y
      <4>1. /\ s \ {y} \in A /\ x \in s \ {y}
            /\ s \ {x} \in A /\ y \in s \ {x}
        BY <1>1, <3>1, <3>3
      <4>2. h[s \ {y}] = f[x] + h[(s \ {y}) \ {x}]
        BY <4>1
      <4>3. h[s \ {x}] = f[y] + h[(s \ {x}) \ {y}]
        BY <4>1
      <4>4. (s \ {y}) \ {x} = (s \ {x}) \ {y}
        OBVIOUS
      <4>5. f[x] \in Int /\ f[y] \in Int /\ h[(s \ {x}) \ {y}] \in Int
        BY <1>0, <3>1
      <4> HIDE DEF y
      <4>6. h[s] = f[y] + (f[x] + h[(s \ {x}) \ {y}])
        BY <3>1, <4>2, <4>4
      <4> QED
        BY <4>3, <4>5, <4>6
    <3> QED
      BY <3>2, <3>3
  <2> QED
    BY <2>1
<1>2. SUBSET S \subseteq A
  <2> HIDE DEF A
  <2> QED
    BY <1>1, AllSubsets
<1> QED
  BY <1>2

\* Two that sum the same up agree, whatever their orders.
LEMMA SumsAgree ==
  ASSUME NEW S, IsFiniteSet(S), NEW c, NEW f, Picks(c, S), \A x \in S : f[x] \in Int,
         NEW h, Sums(h, f, c, S),
         NEW T, IsFiniteSet(T), NEW d, NEW e, Picks(d, T), \A x \in T : e[x] \in Int,
         NEW g, Sums(g, e, d, T),
         NEW U \in SUBSET (S \cap T), \A x \in U : f[x] = e[x]
  PROVE  h[U] = g[U]
<1> DEFINE A == {s \in SUBSET U : h[s] = g[s]}
<1>3. h[{}] = 0 /\ \A s \in SUBSET S : \A x \in s : h[s] = f[x] + h[s \ {x}]
  BY SumsOpen, AnyFirst
<1>4. g[{}] = 0 /\ \A s \in SUBSET T : \A x \in s : g[s] = e[x] + g[s \ {x}]
  <2>1. g[{}] = 0
    BY SumsOpen
  <2> QED
    BY <2>1, AnyFirst
<1>1. ASSUME NEW s \in SUBSET U, \A t \in SUBSET s : t # s => t \in A PROVE s \in A
  <2>0. s \in SUBSET S /\ s \in SUBSET T
    OBVIOUS
  <2>1. CASE s = {}
    BY <1>3, <1>4, <2>1
  <2>2. CASE s # {}
    <3>1. PICK x \in s : TRUE
      BY <2>2
    <3>2. h[s] = f[x] + h[s \ {x}] /\ g[s] = e[x] + g[s \ {x}]
      BY <1>3, <1>4, <2>0
    <3>3. s \ {x} \in A /\ f[x] = e[x]
      BY <1>1, <3>1
    <3> QED
      BY <3>2, <3>3
  <2> QED
    BY <2>1, <2>2
<1>2. IsFiniteSet(U)
  BY FS_Subset
<1>5. SUBSET U \subseteq A
  <2> HIDE DEF A
  <2> QED
    BY <1>1, <1>2, AllSubsets
<1> QED
  BY <1>5

-----------------------------------------------------------------------------
(* What a total is.                                                          *)

Ints(f, S) == \A x \in S : f[x] \in Int

\* A fold that sums up, in whatever order, gives the total.
LEMMA SumIsTotal ==
  ASSUME NEW S, IsFiniteSet(S), NEW c, NEW f, Picks(c, S), Ints(f, S),
         NEW h, Sums(h, f, c, S)
  PROVE  h[S] = Total(f, S)
<1> DEFINE g == CHOOSE h_ : Sums(h_, f, First(S), S)
<1>1. Picks(First(S), S)
  BY DEF Picks, First
<1>2. \E h_ : Sums(h_, f, First(S), S)
  BY <1>1, SumsExist
<1>3. Sums(g, f, First(S), S)
  BY <1>2
<1>4. g[S] = Total(f, S)
  BY DEF Total
<1> HIDE DEF g
<1>5. h[S] = g[S]
  <2>1. S \in SUBSET (S \cap S) /\ \A x \in S : f[x] = f[x] /\ f[x] \in Int
    BY DEF Ints
  <2> QED
    BY <1>1, <1>3, <2>1, SumsAgree
<1> QED
  BY <1>4, <1>5

LEMMA TotalSums ==
  ASSUME NEW S, IsFiniteSet(S), NEW f, Ints(f, S)
  PROVE  \E h : Sums(h, f, First(S), S) /\ h[S] = Total(f, S)
<1>1. Picks(First(S), S)
  BY DEF Picks, First
<1>2. PICK h : Sums(h, f, First(S), S)
  BY <1>1, SumsExist
<1>3. h[S] = Total(f, S)
  BY <1>1, <1>2, SumIsTotal
<1> QED
  BY <1>2, <1>3

LEMMA TotalIsInt ==
  ASSUME NEW S, IsFiniteSet(S), NEW f, Ints(f, S)
  PROVE  Total(f, S) \in Int
<1>1. PICK h : Sums(h, f, First(S), S) /\ h[S] = Total(f, S)
  BY TotalSums
<1>2. Picks(First(S), S) /\ \A x \in S : f[x] \in Int
  BY DEF Picks, First, Ints
<1>3. \A s \in SUBSET S : h[s] \in Int
  BY <1>1, <1>2, SumsAreInts
<1> QED
  BY <1>1, <1>3

LEMMA TotalOfNothing == ASSUME NEW f PROVE Total(f, {}) = 0
<1>1. IsFiniteSet({}) /\ Ints(f, {})
  BY FS_EmptySet DEF Ints
<1>2. PICK h : Sums(h, f, First({}), {}) /\ h[{}] = Total(f, {})
  BY <1>1, TotalSums
<1>3. h[{}] = 0
  BY <1>2, SumsOpen
<1> QED
  BY <1>2, <1>3

\* Only the values on the set count.
LEMMA SameTotal ==
  ASSUME NEW S, IsFiniteSet(S), NEW f, NEW e, Ints(f, S), \A x \in S : f[x] = e[x]
  PROVE  Total(f, S) = Total(e, S)
<1>1. Ints(e, S) /\ \A x \in S : f[x] \in Int /\ e[x] \in Int
  BY DEF Ints
<1>2. PICK h : Sums(h, f, First(S), S) /\ h[S] = Total(f, S)
  BY TotalSums
<1>3. PICK g : Sums(g, e, First(S), S) /\ g[S] = Total(e, S)
  BY <1>1, TotalSums
<1>4. Picks(First(S), S) /\ S \in SUBSET (S \cap S)
  BY DEF Picks, First
<1>5. h[S] = g[S]
  BY <1>1, <1>2, <1>3, <1>4, SumsAgree
<1> QED
  BY <1>2, <1>3, <1>5

LEMMA TotalTakes ==
  ASSUME NEW S, IsFiniteSet(S), NEW f, Ints(f, S), NEW x \in S
  PROVE  Total(f, S) = f[x] + Total(f, S \ {x})
<1> DEFINE T == S \ {x}
<1>1. PICK h : Sums(h, f, First(S), S) /\ h[S] = Total(f, S)
  BY TotalSums
<1>2. IsFiniteSet(T) /\ Ints(f, T)
  BY FS_RemoveElement DEF Ints
<1>3. PICK g : Sums(g, f, First(T), T) /\ g[T] = Total(f, T)
  BY <1>2, TotalSums
<1>4. /\ Picks(First(S), S) /\ Picks(First(T), T)
      /\ T \in SUBSET (S \cap T)
      /\ \A y \in T : f[y] = f[y] /\ f[y] \in Int
      /\ \A y \in S : f[y] \in Int
  BY DEF Picks, First, Ints
<1>5. h[S] = f[x] + h[T]
  BY <1>1, <1>4, AnyFirst
<1>6. h[T] = g[T]
  <2> HIDE DEF T
  <2> QED
    BY <1>1, <1>2, <1>3, <1>4, SumsAgree
<1> QED
  BY <1>1, <1>3, <1>5, <1>6

LEMMA TotalGrows ==
  ASSUME NEW S, IsFiniteSet(S), NEW f, Ints(f, S), NEW x, x \notin S, f[x] \in Int
  PROVE  Total(f, S \cup {x}) = Total(f, S) + f[x]
<1> DEFINE T == S \cup {x}
<1>1. IsFiniteSet(T) /\ Ints(f, T) /\ x \in T /\ T \ {x} = S
  BY FS_AddElement DEF Ints
<1>2. Total(f, S) \in Int
  BY TotalIsInt
<1> HIDE DEF T
<1>3. Total(f, T) = f[x] + Total(f, S)
  BY <1>1, TotalTakes
<1>4. Total(f, T) = Total(f, S) + f[x]
  BY <1>2, <1>3
<1> QED
  BY <1>4 DEF T

LEMMA TotalOfParts ==
  ASSUME NEW S, IsFiniteSet(S), NEW T, IsFiniteSet(T), S \cap T = {},
         NEW f, Ints(f, S), Ints(f, T)
  PROVE  Total(f, S \cup T) = Total(f, S) + Total(f, T)
<1> DEFINE A == {t \in SUBSET T : Total(f, S \cup t) = Total(f, S) + Total(f, t)}
<1>1. \A t \in SUBSET T : IsFiniteSet(t) /\ Ints(f, t)
  BY FS_Subset DEF Ints
<1>2. \A t \in SUBSET T : IsFiniteSet(S \cup t) /\ Ints(f, S \cup t)
  BY <1>1, FS_Union DEF Ints
<1>3. Total(f, S) \in Int
  BY TotalIsInt
<1>4. ASSUME NEW t \in SUBSET T, \A r \in SUBSET t : r # t => r \in A PROVE t \in A
  <2>1. CASE t = {}
    <3>1. Total(f, t) = 0
      BY <2>1, TotalOfNothing
    <3>2. S \cup t = S
      BY <2>1
    <3>3. Total(f, S \cup t) = Total(f, S)
      BY <3>2
    <3>4. Total(f, S \cup t) = Total(f, S) + Total(f, t)
      BY <1>3, <3>1, <3>3
    <3> QED
      BY <3>4
  <2>2. CASE t # {}
    <3>1. PICK x \in t : TRUE
      BY <2>2
    <3>2. PICK r : r = t \ {x}
      OBVIOUS
    <3>3. r \in A /\ x \notin r /\ t = r \cup {x} /\ x \notin S \cup r /\ f[x] \in Int
      BY <1>1, <1>4, <3>1, <3>2 DEF Ints
    <3>4. Total(f, r \cup {x}) = Total(f, r) + f[x]
      BY <1>1, <3>3, TotalGrows
    <3>5. PICK u : u = S \cup r
      OBVIOUS
    <3>6. Total(f, u \cup {x}) = Total(f, u) + f[x]
      BY <1>2, <3>3, <3>5, TotalGrows
    <3>7. u \cup {x} = S \cup t
      BY <3>3, <3>5
    <3>8. Total(f, r) \in Int
      BY <1>1, <3>3, TotalIsInt
    <3>9. Total(f, u) = Total(f, S) + Total(f, r)
      BY <3>3, <3>5
    <3>10. Total(f, S \cup t) = Total(f, u) + f[x] /\ Total(f, t) = Total(f, r) + f[x]
      BY <3>3, <3>4, <3>6, <3>7
    <3>11. Total(f, S \cup t) = Total(f, S) + Total(f, t)
      BY <1>3, <3>3, <3>8, <3>9, <3>10
    <3> QED
      BY <3>11
  <2> QED
    BY <2>1, <2>2
<1>5. SUBSET T \subseteq A
  <2> HIDE DEF A
  <2> QED
    BY <1>4, AllSubsets
<1>6. T \in A
  BY <1>5
<1> QED
  BY <1>6

\* A total does not depend on what the summands are called.
LEMMA TotalRenamed ==
  ASSUME NEW S, IsFiniteSet(S), NEW f, Ints(f, S), NEW b, NEW e,
         \A x, y \in S : b[x] = b[y] => x = y,
         \A x \in S : e[b[x]] = f[x]
  PROVE  Total(e, {b[x] : x \in S}) = Total(f, S)
<1> DEFINE Image(s) == {b[x] : x \in s}
           A == {s \in SUBSET S : Total(e, Image(s)) = Total(f, s)}
<1>1. \A s \in SUBSET S : IsFiniteSet(s) /\ Ints(f, s)
  BY FS_Subset DEF Ints
<1>2. \A s \in SUBSET S : IsFiniteSet(Image(s))
  <2>1. ASSUME NEW s \in SUBSET S PROVE IsFiniteSet(Image(s))
    <3> DEFINE g == [x \in s |-> b[x]]
    <3>1. g \in Surjection(s, Image(s))
      BY Fun_IsSurj
    <3> HIDE DEF g, Image
    <3> QED
      BY <1>1, <3>1, FS_Surjection
  <2> QED
    BY <2>1
<1>3. \A s \in SUBSET S : Ints(e, Image(s))
  BY <1>1 DEF Ints
<1>4. ASSUME NEW s \in SUBSET S, \A r \in SUBSET s : r # s => r \in A PROVE s \in A
  <2>1. CASE s = {}
    <3>1. Image(s) = {}
      BY <2>1
    <3> QED
      BY <2>1, <3>1, TotalOfNothing
  <2>2. CASE s # {}
    <3>1. PICK x \in s : TRUE
      BY <2>2
    <3>2. PICK r : r = s \ {x}
      OBVIOUS
    <3>3. r \in A /\ x \notin r /\ s = r \cup {x} /\ f[x] \in Int /\ e[b[x]] = f[x] /\ r \in SUBSET S
      BY <1>1, <1>4, <3>1, <3>2 DEF Ints
    <3>4. Total(f, r \cup {x}) = Total(f, r) + f[x]
      BY <1>1, <3>3, TotalGrows
    <3>5. b[x] \notin Image(r) /\ Image(s) = Image(r) \cup {b[x]}
      BY <3>1, <3>3
    <3>6. PICK q, y : q = Image(r) /\ y = b[x]
      OBVIOUS
    <3>7. Total(e, q \cup {y}) = Total(e, q) + e[y]
      <4>1. IsFiniteSet(q) /\ Ints(e, q) /\ y \notin q /\ e[y] \in Int
        BY <1>2, <1>3, <3>3, <3>5, <3>6
      <4> QED
        BY <4>1, TotalGrows
    <3>8. Total(e, Image(s)) = Total(f, s)
      BY <3>3, <3>4, <3>5, <3>6, <3>7
    <3> QED
      BY <3>8
  <2> QED
    BY <2>1, <2>2
<1>5. SUBSET S \subseteq A
  <2> HIDE DEF A
  <2> QED
    BY <1>4, AllSubsets
<1>6. S \in A
  BY <1>5
<1> QED
  BY <1>6

\* What changes if one summand comes, goes or changes.
LEMMA TotalChanges ==
  ASSUME NEW S, IsFiniteSet(S), NEW f, Ints(f, S), NEW T, NEW e, Ints(e, T), NEW x,
         S \ {x} = T \ {x}, \A y \in S \ {x} : f[y] = e[y]
  PROVE  /\ IsFiniteSet(T)
         /\ Total(e, T) = Total(f, S) - (IF x \in S THEN f[x] ELSE 0)
                                      + (IF x \in T THEN e[x] ELSE 0)
<1> DEFINE R == S \ {x}
<1>1. IsFiniteSet(R) /\ Ints(f, R) /\ Ints(e, R) /\ x \notin R
  BY FS_Difference DEF Ints
<1>2. Total(f, R) = Total(e, R) /\ Total(f, R) \in Int
  BY <1>1, SameTotal, TotalIsInt
<1>3. Total(f, S) = Total(f, R) + (IF x \in S THEN f[x] ELSE 0)
  <2>1. CASE x \in S
    <3>1. S = R \cup {x} /\ f[x] \in Int
      BY <2>1 DEF Ints
    <3> HIDE DEF R
    <3>2. Total(f, R \cup {x}) = Total(f, R) + f[x]
      BY <1>1, <3>1, TotalGrows
    <3> QED
      BY <2>1, <3>1, <3>2
  <2>2. CASE x \notin S
    <3>1. S = R
      BY <2>2
    <3> HIDE DEF R
    <3> QED
      BY <1>2, <2>2, <3>1
  <2> QED
    BY <2>1, <2>2
<1>4. Total(e, T) = Total(e, R) + (IF x \in T THEN e[x] ELSE 0)
  <2>1. CASE x \in T
    <3>1. T = R \cup {x} /\ e[x] \in Int
      BY <2>1 DEF Ints
    <3> HIDE DEF R
    <3>2. Total(e, R \cup {x}) = Total(e, R) + e[x]
      BY <1>1, <3>1, TotalGrows
    <3> QED
      BY <2>1, <3>1, <3>2
  <2>2. CASE x \notin T
    <3>1. T = R
      BY <2>2
    <3> HIDE DEF R
    <3> QED
      BY <1>2, <2>2, <3>1
  <2> QED
    BY <2>1, <2>2
<1>5. IsFiniteSet(T)
  <2>1. T = R \/ T = R \cup {x}
    OBVIOUS
  <2> HIDE DEF R
  <2> QED
    BY <1>1, <2>1, FS_AddElement
<1>6. (x \in S => f[x] \in Int) /\ (x \in T => e[x] \in Int)
  BY DEF Ints
<1> HIDE DEF R
<1> QED
  BY <1>2, <1>3, <1>4, <1>5, <1>6

-----------------------------------------------------------------------------
(* Sorting: a finite set can be put in the order of numbers it is given, and *)
(* a sequence of all its members in order holds each of them.                *)

Ordered(s, key) == \A i, j \in DOMAIN s : i < j => s[i] # s[j] /\ key[s[i]] <= key[s[j]]

LEMMA GreatestKey ==
  ASSUME NEW D, IsFiniteSet(D), NEW key \in [D -> Int], NEW S \in SUBSET D, S # {}
  PROVE  \E x \in S : \A y \in S : key[y] <= key[x]
<1> DEFINE A == {s \in SUBSET D : s # {} => \E x \in s : \A y \in s : key[y] <= key[x]}
<1>1. ASSUME NEW s \in SUBSET D, \A t \in SUBSET s : t # s => t \in A PROVE s \in A
  <2>1. SUFFICES ASSUME NEW z \in s PROVE \E x \in s : \A y \in s : key[y] <= key[x]
    OBVIOUS
  <2>2. CASE s \ {z} = {}
    BY <2>2
  <2>3. CASE s \ {z} # {}
    <3>1. s \ {z} \in A
      BY <1>1
    <3>2. PICK x \in s \ {z} : \A y \in s \ {z} : key[y] <= key[x]
      BY <2>3, <3>1
    <3>3. CASE key[z] <= key[x]
      BY <3>2, <3>3
    <3>4. CASE ~ (key[z] <= key[x])
      <4>1. \A y \in s : key[y] \in Int
        OBVIOUS
      <4>2. \A y \in s : key[y] <= key[z]
        BY <3>2, <3>4, <4>1
      <4> QED
        BY <4>2
    <3> QED
      BY <3>3, <3>4
  <2> QED
    BY <2>2, <2>3
<1>2. SUBSET D \subseteq A
  <2> HIDE DEF A
  <2> QED
    BY <1>1, AllSubsets
<1> QED
  BY <1>2

LEMMA OrdersExist ==
  ASSUME NEW D, IsFiniteSet(D), NEW key \in [D -> Int]
  PROVE  \E s \in [1..Cardinality(D) -> D] : Ordered(s, key)
<1> DEFINE A == {S \in SUBSET D : \E s \in [1..Cardinality(S) -> S] : Ordered(s, key)}
<1>1. ASSUME NEW S \in SUBSET D, \A T \in SUBSET S : T # S => T \in A PROVE S \in A
  <2>1. CASE S = {}
    <3>1. Cardinality(S) = 0
      BY <2>1, FS_EmptySet
    <3>2. [i \in 1..0 |-> 0] \in [1..Cardinality(S) -> S] /\ Ordered([i \in 1..0 |-> 0], key)
      BY <3>1 DEF Ordered
    <3> QED
      BY <3>2
  <2>2. CASE S # {}
    <3>1. PICK x \in S : \A y \in S : key[y] <= key[x]
      BY <2>2, GreatestKey
    <3>2. PICK T : T = S \ {x}
      OBVIOUS
    <3>3. T \in A /\ IsFiniteSet(S)
      <4>1. IsFiniteSet(S)
        BY FS_Subset
      <4>2. T \in SUBSET S /\ T # S
        BY <3>1, <3>2
      <4> QED
        BY <1>1, <4>1, <4>2
    <3>4. PICK n : n = Cardinality(T)
      OBVIOUS
    <3>5. n \in Nat /\ Cardinality(S) = n + 1
      <4>1. IsFiniteSet(T) /\ Cardinality(T) = Cardinality(S) - 1
        BY <3>1, <3>2, <3>3, FS_RemoveElement
      <4> QED
        BY <3>3, <3>4, <4>1, FS_CardinalityType
    <3>6. PICK t \in [1..n -> T] : Ordered(t, key)
      BY <3>3, <3>4
    <3> DEFINE s == [i \in 1..(n + 1) |-> IF i = n + 1 THEN x ELSE t[i]]
    <3>7. \A i \in 1..(n + 1) : i = n + 1 \/ i \in 1..n
      BY <3>5
    <3>8. \A i \in 1..n : t[i] \in S /\ t[i] # x /\ i \in 1..(n + 1) /\ i # n + 1
      BY <3>2, <3>5
    <3>9. s \in [1..(n + 1) -> S]
      BY <3>7, <3>8
    <3>10. ASSUME NEW i \in 1..(n + 1), NEW j \in 1..(n + 1), i < j
           PROVE  s[i] # s[j] /\ key[s[i]] <= key[s[j]]
      <4>1. i \in 1..n /\ s[i] = t[i]
        BY <3>5, <3>7, <3>10
      <4>2. CASE j = n + 1
        BY <3>1, <3>8, <4>1, <4>2
      <4>3. CASE j \in 1..n
        <5>1. s[j] = t[j]
          BY <3>8, <4>3
        <5> QED
          BY <3>6, <3>10, <4>1, <4>3, <5>1 DEF Ordered
      <4> QED
        BY <3>7, <4>2, <4>3
    <3>11. Ordered(s, key) /\ s \in [1..Cardinality(S) -> S]
      BY <3>5, <3>9, <3>10 DEF Ordered
    <3> QED
      BY <3>11
  <2> QED
    BY <2>1, <2>2
<1>2. SUBSET D \subseteq A
  <2> HIDE DEF A
  <2> QED
    BY <1>1, AllSubsets
<1> QED
  BY <1>2

LEMMA OrdersHoldAll ==
  ASSUME NEW D, IsFiniteSet(D), NEW key, NEW s \in [1..Cardinality(D) -> D], Ordered(s, key)
  PROVE  \A x \in D : \E i \in 1..Cardinality(D) : s[i] = x
<1>1. Cardinality(D) \in Nat
  BY FS_CardinalityType
<1>2. PICK n \in Nat : n = Cardinality(D)
  BY <1>1
<1>3. \A i, j \in 1..n : s[i] = s[j] => i = j
  <2>1. SUFFICES ASSUME NEW i \in 1..n, NEW j \in 1..n, s[i] = s[j], i # j PROVE FALSE
    OBVIOUS
  <2>2. i < j \/ j < i
    BY <2>1
  <2> QED
    BY <1>2, <2>1, <2>2 DEF Ordered
<1>4. s \in Injection(1..n, D)
  BY <1>2, <1>3, Fun_IsInj
<1>5. Cardinality(1..n) = n
  <2>1. 1 \in Int /\ n \in Int
    BY <1>2
  <2>2. Cardinality(1..n) = IF 1 > n THEN 0 ELSE n - 1 + 1
    BY <2>1, FS_Interval
  <2> QED
    BY <1>2, <2>2
<1>6. s \in Surjection(1..n, D)
  BY <1>2, <1>4, <1>5, FS_Injection
<1> QED
  BY <1>2, <1>6, Fun_SurjectionProperties

\* A function on the numbers that is defined by its first value and its steps.
LEMMA RecursionExists ==
  ASSUME NEW S, NEW x \in S, NEW step \in [Nat -> [S -> S]]
  PROVE  \E f \in [Nat -> S] : f[0] = x /\ \A n \in Nat : f[n + 1] = step[n + 1][f[n]]
<1> DEFINE To(f, n) == f \in [Nat -> S] /\ f[0] = x /\ \A i \in 1..n : f[i] = step[i][f[i - 1]]
           A == {n \in Nat : \E f : To(f, n)}
<1>1. 0 \in A
  <2>1. To([i \in Nat |-> x], 0)
    OBVIOUS
  <2> QED
    BY <2>1
<1>2. ASSUME NEW n \in Nat, n \in A PROVE n + 1 \in A
  <2>1. PICK f : To(f, n)
    BY <1>2
  <2> DEFINE g == [i \in Nat |-> IF i <= n THEN f[i] ELSE step[n + 1][f[n]]]
  <2>2. g \in [Nat -> S]
    BY <2>1
  <2>3. g[0] = x /\ g[n + 1] = step[n + 1][g[n]] /\ \A i \in 1..n : g[i] = step[i][g[i - 1]]
    BY <2>1
  <2>4. \A i \in 1..(n + 1) : i \in 1..n \/ (i = n + 1 /\ i - 1 = n)
    OBVIOUS
  <2> HIDE DEF g
  <2>5. To(g, n + 1)
    BY <2>2, <2>3, <2>4
  <2> QED
    BY <2>5
<1>3. ASSUME NEW n \in Nat, NEW f, NEW g, To(f, n), To(g, n) PROVE f[n] = g[n]
  <2> DEFINE B == {k \in Nat : k <= n => f[k] = g[k]}
  <2>1. 0 \in B
    BY <1>3
  <2>2. ASSUME NEW k \in Nat, k \in B PROVE k + 1 \in B
    <3>1. CASE k + 1 <= n
      <4>1. k + 1 \in 1..n /\ (k + 1) - 1 = k /\ f[k] = g[k]
        BY <2>2, <3>1
      <4>2. f[k + 1] = step[k + 1][f[k]] /\ g[k + 1] = step[k + 1][g[k]]
        BY <1>3, <4>1
      <4> QED
        BY <4>1, <4>2
    <3> QED
      BY <3>1
  <2> HIDE DEF B
  <2>3. Nat \subseteq B
    BY <2>1, <2>2, AllNumbers
  <2> QED
    BY <2>3 DEF B
<1> HIDE DEF A
<1>4. Nat \subseteq A
  BY <1>1, <1>2, AllNumbers
<1> DEFINE W(n) == CHOOSE f : To(f, n)
           F    == [n \in Nat |-> W(n)[n]]
<1>5. \A n \in Nat : To(W(n), n)
  BY <1>4 DEF A
<1> HIDE DEF W
<1>6. F[0] = x /\ F \in [Nat -> S]
  BY <1>5
<1>7. ASSUME NEW n \in Nat PROVE F[n + 1] = step[n + 1][F[n]]
  <2>1. n + 1 \in 1..(n + 1) /\ (n + 1) - 1 = n /\ 1..n \subseteq 1..(n + 1)
    OBVIOUS
  <2>2. W(n + 1)[n + 1] = step[n + 1][W(n + 1)[n]]
    BY <1>5, <2>1
  <2>3. To(W(n + 1), n) /\ To(W(n), n)
    BY <1>5, <2>1
  <2> HIDE DEF To
  <2>4. W(n + 1)[n] = W(n)[n]
    BY <1>3, <2>3
  <2> QED
    BY <2>2, <2>4
<1> HIDE DEF F
<1> QED
  BY <1>6, <1>7
=============================================================================
