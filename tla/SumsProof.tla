------------------------------ MODULE SumsProof ------------------------------
EXTENDS Sums, FiniteSetTheorems, WellFoundedInduction, TLAPS

-----------------------------------------------------------------------------
(* The recursion that defines a sum.                                        *)

\* A set of numbers has a least one.
LEMMA Least ==
  ASSUME NEW T, T \subseteq Nat, T # {}
  PROVE  \E x \in T : \A y \in T : x <= y
<1>1. PICK x \in T : \A y \in T : <<y, x>> \notin OpToRel(<, Nat)
  BY WFMin, NatLessThanWellFounded, Zenon
<1>2. x \in Nat /\ \A y \in T : y \in Nat /\ ~(y < x)
  BY <1>1, Zenon DEF OpToRel
<1> QED
  BY <1>2

Pick(s) == CHOOSE x \in s : TRUE

\* g sums f over every set of D.
Steps(D, f, g) ==
  g = [s \in D |-> IF s = {} THEN 0 ELSE f[Pick(s)] + g[s \ {Pick(s)}]]

\* Without its chosen element a set is smaller by one.
LEMMA PickOne ==
  ASSUME NEW s, IsFiniteSet(s), s # {}
  PROVE  /\ Pick(s) \in s /\ IsFiniteSet(s \ {Pick(s)})
         /\ Cardinality(s) \in Nat /\ Cardinality(s \ {Pick(s)}) = Cardinality(s) - 1
         /\ Cardinality(s) > 0
<1>1. Pick(s) \in s
  BY DEF Pick
<1>2. Cardinality(s) # 0
  BY FS_EmptySet
<1> QED
  BY <1>1, <1>2, FS_RemoveElement, FS_CardinalityType

\* There is such a function,
LEMMA StepsExist ==
  ASSUME NEW S, IsFiniteSet(S), NEW f
  PROVE  \E g : Steps(SUBSET S, f, g)
<1> DEFINE D(n) == {s \in SUBSET S : Cardinality(s) <= n}
           Good(n) == \E g : Steps(D(n), f, g)
           Bad == {n \in Nat : ~Good(n)}
<1>1. \A s \in SUBSET S : IsFiniteSet(s) /\ Cardinality(s) \in Nat /\ Cardinality(s) <= Cardinality(S)
  BY FS_Subset, FS_CardinalityType
<1>2. ASSUME NEW n \in Nat, Good(n)
      PROVE  Good(n + 1)
  <2>1. PICK g : Steps(D(n), f, g)
    BY <1>2
  <2> DEFINE h == [s \in D(n + 1) |-> IF s = {} THEN 0 ELSE f[Pick(s)] + g[s \ {Pick(s)}]]
  <2>2. ASSUME NEW s \in D(n)
        PROVE  s \in D(n + 1) /\ h[s] = g[s]
    <3>1. s \in D(n + 1)
      BY <1>1
    <3>2. g[s] = IF s = {} THEN 0 ELSE f[Pick(s)] + g[s \ {Pick(s)}]
      <4> HIDE DEF D
      <4> QED
        BY <2>1 DEF Steps
    <3> QED
      BY <3>1, <3>2
  <2>3. ASSUME NEW s \in D(n + 1), s # {}
        PROVE  s \ {Pick(s)} \in D(n)
    BY <1>1, <2>3, PickOne
  <2>4. Steps(D(n + 1), f, h)
    <3>1. h = [s \in D(n + 1) |-> IF s = {} THEN 0 ELSE f[Pick(s)] + h[s \ {Pick(s)}]]
      <4>1. \A s \in D(n + 1) : s # {} => h[s \ {Pick(s)}] = g[s \ {Pick(s)}]
        BY <2>2, <2>3
      <4> HIDE DEF D
      <4> QED
        BY <4>1
    <3> QED
      BY <3>1 DEF Steps
  <2> QED
    BY <2>4
<1>3. Good(0)
  <2>1. D(0) = {{}}
    <3>1. \A s \in SUBSET S : Cardinality(s) <= 0 <=> s = {}
      BY <1>1, FS_EmptySet
    <3> QED
      BY <3>1
  <2>2. Steps({{}}, f, [s \in {{}} |-> 0])
    BY DEF Steps
  <2> QED
    BY <2>1, <2>2
<1>4. Bad = {}
  <2> SUFFICES ASSUME Bad # {} PROVE FALSE
    OBVIOUS
  <2>1. PICK n \in Bad : \A k \in Bad : n <= k
    BY Least
  <2>2. n \in Nat /\ ~Good(n) /\ \A k \in Nat : ~Good(k) => n <= k
    BY <2>1
  <2> HIDE DEF Good, Bad
  <2>3. n # 0
    BY <1>3, <2>2
  <2>4. n - 1 \in Nat /\ Good(n - 1) /\ n = (n - 1) + 1
    BY <2>2, <2>3
  <2> QED
    BY <1>2, <2>2, <2>4
<1>5. D(Cardinality(S)) = SUBSET S
  BY <1>1
<1>6. Cardinality(S) \in Nat
  BY FS_CardinalityType
<1>7. Good(Cardinality(S))
  BY <1>4, <1>6
<1> QED
  BY <1>5, <1>7

\* and it is what Sum takes.
LEMMA SumSteps ==
  ASSUME NEW S, IsFiniteSet(S), NEW f
  PROVE  \E g : Steps(SUBSET S, f, g) /\ Sum(S, f) = g[S]
<1> DEFINE g == CHOOSE h : Steps(SUBSET S, f, h)
<1>1. Sum(S, f) = g[S]
  BY DEF Sum, MapThenSumSet, MapThenFoldSet, Steps, Pick
<1>2. Steps(SUBSET S, f, g)
  BY StepsExist
<1> QED
  BY <1>1, <1>2

\* Two of them agree on the sets both sum over.
LEMMA StepsAgree ==
  ASSUME NEW S, NEW T, NEW f, NEW g, NEW h, IsFiniteSet(S), T \subseteq S,
         Steps(SUBSET S, f, g), Steps(SUBSET T, f, h)
  PROVE  h[T] = g[T]
<1> DEFINE Bad == {n \in Nat : \E s \in SUBSET T : Cardinality(s) = n /\ h[s] # g[s]}
<1>1. \A s \in SUBSET T : s \in SUBSET S /\ IsFiniteSet(s) /\ Cardinality(s) \in Nat
  BY FS_Subset, FS_CardinalityType
<1>2. Bad = {}
  <2> SUFFICES ASSUME Bad # {} PROVE FALSE
    OBVIOUS
  <2>1. PICK n \in Bad : \A k \in Bad : n <= k
    BY Least
  <2>2. PICK s \in SUBSET T : Cardinality(s) = n /\ h[s] # g[s]
    BY <2>1
  <2> DEFINE t == s \ {Pick(s)}
  <2>3. /\ g[s] = IF s = {} THEN 0 ELSE f[Pick(s)] + g[t]
        /\ h[s] = IF s = {} THEN 0 ELSE f[Pick(s)] + h[t]
    BY <1>1 DEF Steps
  <2>4. s # {} /\ h[t] # g[t] /\ t \in SUBSET T
    BY <2>2, <2>3
  <2>5. Cardinality(t) \in Nat /\ Cardinality(t) < n
    BY <1>1, <2>2, <2>4, PickOne
  <2>6. Cardinality(t) \in Bad /\ n \in Nat
    BY <2>4, <2>5
  <2>7. n <= Cardinality(t)
    <3> HIDE DEF Bad, t
    <3> QED
      BY <2>1, <2>6
  <2> HIDE DEF Bad, t
  <2> QED
    BY <2>5, <2>6, <2>7
<1>3. Cardinality(T) \in Nat
  BY <1>1
<1> QED
  BY <1>2, <1>3

\* The sum over nothing is 0, and over a set what is chosen first and the rest.
LEMMA SumPick ==
  ASSUME NEW S, IsFiniteSet(S), NEW f
  PROVE  Sum(S, f) = IF S = {} THEN 0 ELSE f[Pick(S)] + Sum(S \ {Pick(S)}, f)
<1>1. PICK g : Steps(SUBSET S, f, g) /\ Sum(S, f) = g[S]
  BY SumSteps
<1>2. g[S] = IF S = {} THEN 0 ELSE f[Pick(S)] + g[S \ {Pick(S)}]
  BY <1>1 DEF Steps
<1>3. CASE S # {}
  <2> DEFINE T == S \ {Pick(S)}
  <2>1. IsFiniteSet(T) /\ T \subseteq S
    BY <1>3, PickOne
  <2>2. PICK h : Steps(SUBSET T, f, h) /\ Sum(T, f) = h[T]
    BY <2>1, SumSteps
  <2>3. h[T] = g[T]
    <3> HIDE DEF T
    <3> QED
      BY <1>1, <2>1, <2>2, StepsAgree
  <2> QED
    BY <1>1, <1>2, <1>3, <2>2, <2>3
<1>4. CASE S = {}
  BY <1>1, <1>2, <1>4
<1> QED
  BY <1>3, <1>4

-----------------------------------------------------------------------------
(* Properties of sums.                                                      *)

\* What holds of a set once it holds of all its proper parts holds.
LEMMA PartsInduction ==
  ASSUME NEW S, IsFiniteSet(S), NEW Good,
         \A s \in SUBSET S : (\A t \in SUBSET s : t # s => t \in Good) => s \in Good
  PROVE  S \in Good
<1> DEFINE Bad == {n \in Nat : \E s \in SUBSET S : Cardinality(s) = n /\ s \notin Good}
<1>1. \A s \in SUBSET S : IsFiniteSet(s) /\ Cardinality(s) \in Nat
  BY FS_Subset, FS_CardinalityType
<1>2. Bad = {}
  <2> SUFFICES ASSUME Bad # {} PROVE FALSE
    OBVIOUS
  <2>1. PICK n \in Bad : \A k \in Bad : n <= k
    BY Least
  <2>2. PICK s \in SUBSET S : Cardinality(s) = n /\ s \notin Good
    BY <2>1
  <2>3. PICK t \in SUBSET s : t # s /\ t \notin Good
    BY <2>2
  <2>4. Cardinality(t) \in Nat /\ Cardinality(t) < n /\ n \in Nat
    BY <1>1, <2>2, <2>3, FS_Subset
  <2>5. Cardinality(t) \in Bad
    BY <1>1, <2>3
  <2>6. n <= Cardinality(t)
    <3> HIDE DEF Bad
    <3> QED
      BY <2>1, <2>5
  <2> HIDE DEF Bad
  <2> QED
    BY <2>4, <2>6
<1>3. Cardinality(S) \in Nat
  BY <1>1
<1> QED
  BY <1>2, <1>3

\* Sums of numbers are numbers.
LEMMA SumInt ==
  ASSUME NEW S, IsFiniteSet(S), NEW f, \A x \in S : f[x] \in Int
  PROVE  Sum(S, f) \in Int
<1> DEFINE Good == {s \in SUBSET S : Sum(s, f) \in Int}
<1>1. ASSUME NEW s \in SUBSET S, \A t \in SUBSET s : t # s => t \in Good
      PROVE  s \in Good
  <2>1. IsFiniteSet(s)
    BY FS_Subset
  <2>2. CASE s = {}
    BY <2>1, <2>2, SumPick
  <2>3. CASE s # {}
    <3>1. Pick(s) \in s /\ Sum(s, f) = f[Pick(s)] + Sum(s \ {Pick(s)}, f)
      BY <2>1, <2>3, SumPick, PickOne
    <3>2. Sum(s \ {Pick(s)}, f) \in Int
      BY <1>1, <3>1
    <3> QED
      BY <3>1, <3>2
  <2> QED
    BY <2>2, <2>3
<1>2. S \in Good
  <2> HIDE DEF Good
  <2> QED
    BY <1>1, PartsInduction
<1> QED
  BY <1>2

\* Any element may be taken first.
LEMMA SumOne ==
  ASSUME NEW S, IsFiniteSet(S), NEW f, \A x \in S : f[x] \in Int, NEW x \in S
  PROVE  Sum(S, f) = f[x] + Sum(S \ {x}, f)
<1> DEFINE Good == {s \in SUBSET S : \A y \in s : Sum(s, f) = f[y] + Sum(s \ {y}, f)}
<1>1. ASSUME NEW s \in SUBSET S, \A t \in SUBSET s : t # s => t \in Good
      PROVE  s \in Good
  <2> SUFFICES ASSUME NEW y \in s PROVE Sum(s, f) = f[y] + Sum(s \ {y}, f)
    OBVIOUS
  <2> DEFINE p == Pick(s)
             rest == s \ {p, y}
  <2>1. IsFiniteSet(s) /\ IsFiniteSet(s \ {p}) /\ IsFiniteSet(rest)
    BY FS_Subset
  <2>2. p \in s /\ Sum(s, f) = f[p] + Sum(s \ {p}, f)
    BY <2>1, SumPick, PickOne
  <2>3. CASE p # y
    <3>1. Sum(s \ {p}, f) = f[y] + Sum(rest, f)
      <4>1. s \ {p} \in Good /\ y \in s \ {p} /\ (s \ {p}) \ {y} = rest
        BY <1>1, <2>2, <2>3
      <4> QED
        BY <4>1
    <3>2. Sum(s \ {y}, f) = f[p] + Sum(rest, f)
      <4>1. s \ {y} \in Good /\ p \in s \ {y} /\ (s \ {y}) \ {p} = rest
        BY <1>1, <2>2, <2>3
      <4> QED
        BY <4>1
    <3>3. Sum(rest, f) \in Int /\ f[p] \in Int /\ f[y] \in Int
      BY <2>1, <2>2, SumInt
    <3> HIDE DEF rest, p
    <3> QED
      BY <2>2, <3>1, <3>2, <3>3
  <2> QED
    BY <2>2, <2>3
<1>2. S \in Good
  <2> HIDE DEF Good
  <2> QED
    BY <1>1, PartsInduction
<1> QED
  BY <1>2

\* Only the values in the set count.
LEMMA SumSame ==
  ASSUME NEW S, IsFiniteSet(S), NEW f, NEW g, \A x \in S : f[x] = g[x]
  PROVE  Sum(S, f) = Sum(S, g)
<1> DEFINE Good == {s \in SUBSET S : Sum(s, f) = Sum(s, g)}
<1>1. ASSUME NEW s \in SUBSET S, \A t \in SUBSET s : t # s => t \in Good
      PROVE  s \in Good
  <2>1. IsFiniteSet(s)
    BY FS_Subset
  <2>2. CASE s = {}
    BY <2>1, <2>2, SumPick
  <2>3. CASE s # {}
    <3>1. /\ Pick(s) \in s /\ Sum(s, f) = f[Pick(s)] + Sum(s \ {Pick(s)}, f)
          /\ Sum(s, g) = g[Pick(s)] + Sum(s \ {Pick(s)}, g)
      BY <2>1, <2>3, SumPick, PickOne
    <3>2. Sum(s \ {Pick(s)}, f) = Sum(s \ {Pick(s)}, g)
      BY <1>1, <3>1
    <3> QED
      BY <3>1, <3>2
  <2> QED
    BY <2>2, <2>3
<1>2. S \in Good
  <2> HIDE DEF Good
  <2> QED
    BY <1>1, PartsInduction
<1> QED
  BY <1>2

\* Greater values have a greater sum.
LEMMA SumAtMost ==
  ASSUME NEW S, IsFiniteSet(S), NEW f, NEW g,
         \A x \in S : f[x] \in Int /\ g[x] \in Int /\ f[x] <= g[x]
  PROVE  Sum(S, f) <= Sum(S, g)
<1> DEFINE Good == {s \in SUBSET S : Sum(s, f) <= Sum(s, g)}
<1>1. ASSUME NEW s \in SUBSET S, \A t \in SUBSET s : t # s => t \in Good
      PROVE  s \in Good
  <2>1. IsFiniteSet(s) /\ IsFiniteSet(s \ {Pick(s)})
    BY FS_Subset
  <2>2. CASE s = {}
    BY <2>1, <2>2, SumPick
  <2>3. CASE s # {}
    <3> DEFINE p == Pick(s)
               t == s \ {p}
    <3>1. /\ p \in s /\ Sum(s, f) = f[p] + Sum(t, f) /\ Sum(s, g) = g[p] + Sum(t, g)
      BY <2>1, <2>3, SumPick, PickOne
    <3>2. Sum(t, f) <= Sum(t, g)
      BY <1>1, <3>1
    <3>3. Sum(t, f) \in Int /\ Sum(t, g) \in Int
      BY <2>1, SumInt
    <3> HIDE DEF p, t
    <3>4. f[p] \in Int /\ g[p] \in Int /\ f[p] <= g[p]
      BY <3>1
    <3> QED
      BY <3>1, <3>2, <3>3, <3>4
  <2> QED
    BY <2>2, <2>3
<1>2. S \in Good
  <2> HIDE DEF Good
  <2> QED
    BY <1>1, PartsInduction
<1> QED
  BY <1>2

\* The sum of zeros
LEMMA SumZeros ==
  ASSUME NEW S, IsFiniteSet(S), NEW f, \A x \in S : f[x] = 0
  PROVE  Sum(S, f) = 0
<1> DEFINE Good == {s \in SUBSET S : Sum(s, f) = 0}
<1>1. ASSUME NEW s \in SUBSET S, \A t \in SUBSET s : t # s => t \in Good
      PROVE  s \in Good
  <2>1. IsFiniteSet(s)
    BY FS_Subset
  <2>2. CASE s # {}
    <3>1. Pick(s) \in s /\ Sum(s, f) = f[Pick(s)] + Sum(s \ {Pick(s)}, f)
      BY <2>1, <2>2, SumPick, PickOne
    <3>2. Sum(s \ {Pick(s)}, f) = 0 /\ f[Pick(s)] = 0
      BY <1>1, <3>1
    <3> QED
      BY <3>1, <3>2
  <2> QED
    BY <2>1, <2>2, SumPick
<1>2. S \in Good
  <2> HIDE DEF Good
  <2> QED
    BY <1>1, PartsInduction
<1> QED
  BY <1>2

\* Sums of numbers none of which is negative
LEMMA SumNat ==
  ASSUME NEW S, IsFiniteSet(S), NEW f, \A x \in S : f[x] \in Nat
  PROVE  Sum(S, f) \in Nat
<1> DEFINE z == [x \in S |-> 0]
<1>1. \A x \in S : z[x] \in Int /\ z[x] = 0 /\ f[x] \in Int /\ z[x] <= f[x]
  OBVIOUS
<1> HIDE DEF z
<1>2. Sum(S, z) = 0
  BY <1>1, SumZeros
<1>3. Sum(S, z) <= Sum(S, f)
  BY <1>1, SumAtMost
<1>4. Sum(S, f) \in Int
  BY SumInt
<1> QED
  BY <1>2, <1>3, <1>4

\* Sums add up value by value.
LEMMA SumAdd ==
  ASSUME NEW S, IsFiniteSet(S), NEW f, NEW g, NEW h,
         \A x \in S : f[x] \in Int /\ g[x] \in Int /\ h[x] = f[x] + g[x]
  PROVE  Sum(S, h) = Sum(S, f) + Sum(S, g)
<1> DEFINE Good == {s \in SUBSET S : Sum(s, h) = Sum(s, f) + Sum(s, g)}
<1>1. ASSUME NEW s \in SUBSET S, \A t \in SUBSET s : t # s => t \in Good
      PROVE  s \in Good
  <2>1. IsFiniteSet(s) /\ IsFiniteSet(s \ {Pick(s)})
    BY FS_Subset
  <2>2. CASE s = {}
    <3>1. Sum(s, f) = 0 /\ Sum(s, g) = 0 /\ Sum(s, h) = 0
      BY <2>1, <2>2, SumPick
    <3> QED
      BY <3>1
  <2>3. CASE s # {}
    <3> DEFINE p == Pick(s)
               t == s \ {p}
    <3>1. /\ p \in s /\ Sum(s, f) = f[p] + Sum(t, f) /\ Sum(s, g) = g[p] + Sum(t, g)
          /\ Sum(s, h) = h[p] + Sum(t, h)
      BY <2>1, <2>3, SumPick, PickOne
    <3>2. Sum(t, h) = Sum(t, f) + Sum(t, g)
      BY <1>1, <3>1
    <3>3. Sum(t, f) \in Int /\ Sum(t, g) \in Int
      BY <2>1, SumInt
    <3> HIDE DEF p, t
    <3>4. f[p] \in Int /\ g[p] \in Int /\ h[p] = f[p] + g[p]
      BY <3>1
    <3> QED
      BY <3>1, <3>2, <3>3, <3>4
  <2> QED
    BY <2>2, <2>3
<1>2. S \in Good
  <2> HIDE DEF Good
  <2> QED
    BY <1>1, PartsInduction
<1> QED
  BY <1>2

\* A value that changes changes the sum by as much.
LEMMA SumChange ==
  ASSUME NEW S, IsFiniteSet(S), NEW f, NEW g, NEW x \in S,
         \A y \in S : f[y] \in Int, \A y \in S : g[y] \in Int,
         \A y \in S : y # x => f[y] = g[y]
  PROVE  Sum(S, g) + f[x] = Sum(S, f) + g[x]
<1> DEFINE T == S \ {x}
<1>1. Sum(S, f) = f[x] + Sum(T, f) /\ Sum(S, g) = g[x] + Sum(T, g)
  BY SumOne
<1>2. IsFiniteSet(T) /\ \A y \in T : f[y] \in Int /\ f[y] = g[y]
  BY FS_RemoveElement
<1> HIDE DEF T
<1>3. Sum(T, f) = Sum(T, g)
  BY <1>2, SumSame
<1>4. Sum(T, f) \in Int
  BY <1>2, SumInt
<1>5. f[x] \in Int /\ g[x] \in Int
  OBVIOUS
<1> QED
  BY <1>1, <1>3, <1>4, <1>5

\* Disjoint sets are summed apart.
LEMMA SumUnion ==
  ASSUME NEW A, NEW B, IsFiniteSet(A), IsFiniteSet(B), A \cap B = {}, NEW f,
         \A x \in A \union B : f[x] \in Int
  PROVE  Sum(A \union B, f) = Sum(A, f) + Sum(B, f)
<1> DEFINE Good == {s \in SUBSET B : Sum(A \union s, f) = Sum(A, f) + Sum(s, f)}
<1>1. Sum(A, f) \in Int
  BY SumInt
<1>2. ASSUME NEW s \in SUBSET B, \A t \in SUBSET s : t # s => t \in Good
      PROVE  s \in Good
  <2>1. IsFiniteSet(s) /\ IsFiniteSet(s \ {Pick(s)}) /\ IsFiniteSet(A \union s)
    BY FS_Subset, FS_Union
  <2>2. CASE s = {}
    <3>1. Sum(s, f) = 0
      BY <2>1, <2>2, SumPick
    <3> DEFINE u == A \union s
    <3>2. u = A
      BY <2>2
    <3> HIDE DEF u
    <3>3. Sum(u, f) = Sum(A, f) + Sum(s, f)
      BY <1>1, <3>1, <3>2
    <3> QED
      BY <3>3 DEF u
  <2>3. CASE s # {}
    <3> DEFINE p == Pick(s)
               t == s \ {p}
    <3>1. p \in s /\ Sum(s, f) = f[p] + Sum(t, f)
      BY <2>1, <2>3, SumPick, PickOne
    <3>2. Sum(A \union t, f) = Sum(A, f) + Sum(t, f)
      BY <1>2, <3>1
    <3>3. Sum(A \union s, f) = f[p] + Sum(A \union t, f)
      <4>1. p \in A \union s /\ (A \union s) \ {p} = A \union t
        BY <3>1
      <4>2. \A x \in A \union s : f[x] \in Int
        OBVIOUS
      <4>3. Sum(A \union s, f) = f[p] + Sum((A \union s) \ {p}, f)
        <5> HIDE DEF p, t
        <5> QED
          BY <2>1, <4>1, <4>2, SumOne
      <4> QED
        BY <4>1, <4>3
    <3>4. Sum(t, f) \in Int
      BY <2>1, SumInt
    <3> HIDE DEF p, t
    <3>5. f[p] \in Int
      BY <3>1
    <3> QED
      BY <1>1, <3>1, <3>2, <3>3, <3>4, <3>5
  <2> QED
    BY <2>2, <2>3
<1>3. B \in Good
  <2> HIDE DEF Good
  <2> QED
    BY <1>2, PartsInduction
<1> QED
  BY <1>3

\* The sum over one element
LEMMA SumSingle ==
  ASSUME NEW x, NEW f, f[x] \in Int
  PROVE  Sum({x}, f) = f[x]
<1>1. IsFiniteSet({x}) /\ IsFiniteSet({}) /\ {x} \ {x} = {}
  BY FS_Singleton, FS_EmptySet
<1>2. Sum({x}, f) = f[x] + Sum({x} \ {x}, f)
  BY <1>1, SumOne
<1>3. Sum({}, f) = 0
  BY <1>1, SumPick
<1> QED
  BY <1>1, <1>2, <1>3

\* The sum over S, part by part
LEMMA SumParts ==
  ASSUME NEW S, IsFiniteSet(S), NEW C, IsFiniteSet(C), NEW part, NEW f, NEW g,
         \A x \in S : f[x] \in Int /\ \E c \in C : x \in part[c],
         \A c \in C : part[c] \subseteq S /\ g[c] = Sum(part[c], f),
         \A c, d \in C : c # d => part[c] \cap part[d] = {}
  PROVE  Sum(S, f) = Sum(C, g)
<1> DEFINE With(D) == {x \in S : \E c \in D : x \in part[c]}
           Good == {D \in SUBSET C : Sum(With(D), f) = Sum(D, g)}
<1>1. \A D : IsFiniteSet(With(D))
  BY FS_Subset
<1>2. ASSUME NEW D \in SUBSET C, \A E \in SUBSET D : E # D => E \in Good
      PROVE  D \in Good
  <2>1. IsFiniteSet(D)
    BY FS_Subset
  <2>2. CASE D = {}
    <3>1. With(D) = {}
      BY <2>2
    <3>2. Sum({}, f) = 0 /\ Sum({}, g) = 0
      BY <2>1, <2>2, SumPick
    <3> QED
      BY <2>2, <3>1, <3>2
  <2>3. CASE D # {}
    <3> DEFINE p == Pick(D)
               E == D \ {p}
    <3>1. p \in D /\ Sum(D, g) = g[p] + Sum(E, g)
      BY <2>1, <2>3, SumPick, PickOne
    <3>2. Sum(With(E), f) = Sum(E, g)
      BY <1>2, <3>1
    <3> HIDE DEF p
    <3> DEFINE here == part[p]
    <3>3. With(D) = here \union With(E)
      BY <3>1
    <3>4. here \cap With(E) = {}
      BY <3>1
    <3>5. g[p] = Sum(here, f) /\ here \subseteq S
      BY <3>1
    <3>6. IsFiniteSet(With(E)) /\ IsFiniteSet(here)
      BY <1>1, <3>5, FS_Subset
    <3>7. \A x \in here \union With(E) : f[x] \in Int
      BY <3>5
    <3> DEFINE all == here \union With(E)
    <3>8. With(D) = all
      BY <3>3
    <3> HIDE DEF here, With, E
    <3>9. Sum(all, f) = Sum(here, f) + Sum(With(E), f)
      BY <3>4, <3>6, <3>7, SumUnion
    <3> HIDE DEF all
    <3>10. Sum(With(D), f) = Sum(D, g)
      BY <3>1, <3>2, <3>5, <3>8, <3>9
    <3> QED
      BY <3>10
  <2> QED
    BY <2>2, <2>3
<1>3. C \in Good
  <2> HIDE DEF Good
  <2> QED
    BY <1>2, PartsInduction
<1>4. With(C) = S
  OBVIOUS
<1> QED
  BY <1>3, <1>4

\* A set has as many elements as ones in their sum.
LEMMA SumOnes ==
  ASSUME NEW S, IsFiniteSet(S), NEW f, \A x \in S : f[x] = 1
  PROVE  Sum(S, f) = Cardinality(S)
<1> DEFINE Good == {s \in SUBSET S : Sum(s, f) = Cardinality(s)}
<1>1. ASSUME NEW s \in SUBSET S, \A t \in SUBSET s : t # s => t \in Good
      PROVE  s \in Good
  <2>1. IsFiniteSet(s)
    BY FS_Subset
  <2>2. CASE s = {}
    BY <2>1, <2>2, SumPick, FS_EmptySet
  <2>3. CASE s # {}
    <3> DEFINE p == Pick(s)
               t == s \ {p}
    <3>1. /\ p \in s /\ Sum(s, f) = f[p] + Sum(t, f)
          /\ Cardinality(s) \in Nat /\ Cardinality(t) = Cardinality(s) - 1
      BY <2>1, <2>3, SumPick, PickOne
    <3>2. Sum(t, f) = Cardinality(t) /\ f[p] = 1
      BY <1>1, <3>1
    <3> HIDE DEF p, t
    <3>3. Sum(s, f) = Cardinality(s)
      BY <3>1, <3>2
    <3> QED
      BY <3>3
  <2> QED
    BY <2>2, <2>3
<1>2. S \in Good
  <2> HIDE DEF Good
  <2> QED
    BY <1>1, PartsInduction
<1> QED
  BY <1>2

\* The elements of S, counted part by part
LEMMA CountParts ==
  ASSUME NEW S, IsFiniteSet(S), NEW C, IsFiniteSet(C), NEW part, NEW g,
         \A x \in S : \E c \in C : x \in part[c],
         \A c \in C : part[c] \subseteq S /\ g[c] = Cardinality(part[c]),
         \A c, d \in C : c # d => part[c] \cap part[d] = {}
  PROVE  Cardinality(S) = Sum(C, g)
<1> DEFINE one == [x \in S |-> 1]
<1>1. \A x \in S : one[x] \in Int /\ one[x] = 1
  OBVIOUS
<1> HIDE DEF one
<1>2. \A c \in C : g[c] = Sum(part[c], one)
  <2> TAKE c \in C
  <2>1. IsFiniteSet(part[c]) /\ \A x \in part[c] : one[x] = 1
    BY <1>1, FS_Subset
  <2> QED
    BY <2>1, SumOnes
<1>3. Sum(S, one) = Cardinality(S)
  BY <1>1, SumOnes
<1>4. Sum(S, one) = Sum(C, g)
  BY <1>1, <1>2, SumParts
<1> QED
  BY <1>3, <1>4

\* The pairs of a relation, counted by the one side
LEMMA CountRows ==
  ASSUME NEW A, NEW B, IsFiniteSet(A), IsFiniteSet(B), NEW R \in SUBSET (A \X B), NEW f, NEW of,
         \A a \in A : of[a] \subseteq B /\ f[a] = Cardinality(of[a]),
         \A a \in A, b \in B : b \in of[a] <=> <<a, b>> \in R
  PROVE  IsFiniteSet(R) /\ Cardinality(R) = Sum(A, f)
<1> DEFINE part == [a \in A |-> {r \in R : r[1] = a}]
<1>1. IsFiniteSet(R)
  BY FS_Product, FS_Subset
<1>2. ASSUME NEW a \in A PROVE part[a] \subseteq R /\ f[a] = Cardinality(part[a])
  <2> DEFINE T == of[a]
             pair == [b \in T |-> <<a, b>>]
  <2>1. pair \in [T -> part[a]]
    OBVIOUS
  <2>2. \A x, y \in T : pair[x] = pair[y] => x = y
    OBVIOUS
  <2>3. \A r \in part[a] : \E x \in T : pair[x] = r
    OBVIOUS
  <2>4. IsFiniteSet(T)
    BY FS_Subset
  <2>5. part[a] \subseteq R /\ f[a] = Cardinality(T)
    OBVIOUS
  <2> HIDE DEF T, pair, part
  <2>6. pair \in Bijection(T, part[a])
    BY <2>1, <2>2, <2>3 DEF Bijection, Injection, Surjection, IsInjective
  <2>7. Cardinality(part[a]) = Cardinality(T)
    BY <2>4, <2>6, FS_Bijection DEF ExistsBijection
  <2> QED
    BY <2>5, <2>7
<1>3. \A r \in R : \E a \in A : r \in part[a]
  OBVIOUS
<1>4. \A x, y \in A : x # y => part[x] \cap part[y] = {}
  OBVIOUS
<1> HIDE DEF part
<1>5. Cardinality(R) = Sum(A, f)
  BY <1>1, <1>2, <1>3, <1>4, CountParts
<1> QED
  BY <1>1, <1>5

\* or by the other
LEMMA CountColumns ==
  ASSUME NEW A, NEW B, IsFiniteSet(A), IsFiniteSet(B), NEW R \in SUBSET (A \X B), NEW f, NEW of,
         \A b \in B : of[b] \subseteq A /\ f[b] = Cardinality(of[b]),
         \A a \in A, b \in B : a \in of[b] <=> <<a, b>> \in R
  PROVE  IsFiniteSet(R) /\ Cardinality(R) = Sum(B, f)
<1> DEFINE part == [b \in B |-> {r \in R : r[2] = b}]
<1>1. IsFiniteSet(R)
  BY FS_Product, FS_Subset
<1>2. ASSUME NEW b \in B PROVE part[b] \subseteq R /\ f[b] = Cardinality(part[b])
  <2> DEFINE T == of[b]
             pair == [a \in T |-> <<a, b>>]
  <2>1. pair \in [T -> part[b]]
    OBVIOUS
  <2>2. \A x, y \in T : pair[x] = pair[y] => x = y
    OBVIOUS
  <2>3. \A r \in part[b] : \E x \in T : pair[x] = r
    OBVIOUS
  <2>4. IsFiniteSet(T)
    BY FS_Subset
  <2>5. part[b] \subseteq R /\ f[b] = Cardinality(T)
    OBVIOUS
  <2> HIDE DEF T, pair, part
  <2>6. pair \in Bijection(T, part[b])
    BY <2>1, <2>2, <2>3 DEF Bijection, Injection, Surjection, IsInjective
  <2>7. Cardinality(part[b]) = Cardinality(T)
    BY <2>4, <2>6, FS_Bijection DEF ExistsBijection
  <2> QED
    BY <2>5, <2>7
<1>3. \A r \in R : \E b \in B : r \in part[b]
  OBVIOUS
<1>4. \A x, y \in B : x # y => part[x] \cap part[y] = {}
  OBVIOUS
<1> HIDE DEF part
<1>5. Cardinality(R) = Sum(B, f)
  BY <1>1, <1>2, <1>3, <1>4, CountParts
<1> QED
  BY <1>1, <1>5

\* What a finite set has an image of is finite.
LEMMA ImageFinite ==
  ASSUME NEW S, IsFiniteSet(S), NEW f, NEW T, \A y \in T : \E x \in S : f[x] = y
  PROVE  IsFiniteSet(T)
<1> DEFINE U == {x \in S : f[x] \in T}
           g == [x \in U |-> f[x]]
<1>1. IsFiniteSet(U)
  BY FS_Subset
<1>2. g \in Surjection(U, T)
  <2>1. g \in [U -> T]
    OBVIOUS
  <2>2. \A y \in T : \E x \in U : g[x] = y
    OBVIOUS
  <2> HIDE DEF g, U
  <2> QED
    BY <2>1, <2>2 DEF Surjection
<1> HIDE DEF g, U
<1> QED
  BY <1>1, <1>2, FS_Surjection

\* g has the sums of f over the parts of S that have one key.
Keyed(S, C, key, part, f, g) ==
  /\ \A x \in S : f[x] \in Int /\ key[x] \in C
  /\ \A c \in C : g[c] = Sum(part[c], f)
  /\ \A c \in C : \A x : x \in part[c] <=> x \in S /\ key[x] = c

\* They add up to the sum over S,
LEMMA SumKeys ==
  ASSUME NEW S, IsFiniteSet(S), NEW C, IsFiniteSet(C), NEW key, NEW part, NEW f, NEW g,
         Keyed(S, C, key, part, f, g)
  PROVE  Sum(S, f) = Sum(C, g)
<1> USE DEF Keyed
<1>1. \A x \in S : f[x] \in Int /\ \E c \in C : x \in part[c]
  OBVIOUS
<1>2. \A c \in C : part[c] \subseteq S /\ g[c] = Sum(part[c], f)
  OBVIOUS
<1>3. \A c, d \in C : c # d => part[c] \cap part[d] = {}
  OBVIOUS
<1> QED
  BY <1>1, <1>2, <1>3, SumParts

\* and a sum is the same by other names.
LEMMA SumRenamed ==
  ASSUME NEW A, IsFiniteSet(A), NEW B, IsFiniteSet(B), NEW name, NEW f, NEW g,
         \A a \in A : name[a] \in B /\ g[a] = f[name[a]],
         \A b \in B : f[b] \in Int /\ \E a \in A : name[a] = b,
         \A a, d \in A : name[a] = name[d] => a = d
  PROVE  Sum(A, g) = Sum(B, f)
<1> DEFINE part == [a \in A |-> {name[a]}]
<1>1. \A b \in B : f[b] \in Int /\ \E a \in A : b \in part[a]
  OBVIOUS
<1>2. \A a \in A : part[a] \subseteq B /\ g[a] = Sum(part[a], f)
  <2> TAKE a \in A
  <2> DEFINE b == name[a]
  <2>1. b \in B /\ part[a] = {b} /\ g[a] = f[b]
    OBVIOUS
  <2> HIDE DEF b, part
  <2>2. Sum({b}, f) = f[b]
    BY <2>1, SumSingle
  <2> QED
    BY <2>1, <2>2
<1>3. \A a, d \in A : a # d => part[a] \cap part[d] = {}
  OBVIOUS
<1> HIDE DEF part
<1> QED
  BY <1>1, <1>2, <1>3, SumParts

\* What is nothing outside a part adds up in the part.
LEMMA SumWithin ==
  ASSUME NEW S, IsFiniteSet(S), NEW T, T \subseteq S, NEW f,
         \A x \in S : f[x] \in Int /\ (x \notin T => f[x] = 0)
  PROVE  Sum(S, f) = Sum(T, f)
<1> DEFINE rest == S \ T
           all == T \union rest
<1>1. IsFiniteSet(T) /\ IsFiniteSet(rest)
  BY FS_Subset
<1>2. all = S /\ T \cap rest = {} /\ (\A x \in all : f[x] \in Int) /\ \A x \in rest : f[x] = 0
  OBVIOUS
<1> HIDE DEF rest
<1>3. Sum(all, f) = Sum(T, f) + Sum(rest, f)
  BY <1>1, <1>2, SumUnion
<1>4. Sum(rest, f) = 0 /\ Sum(T, f) \in Int
  BY <1>1, <1>2, SumZeros, SumInt
<1> HIDE DEF all
<1> QED
  BY <1>2, <1>3, <1>4

\* One value, as often as there are elements
LEMMA SumConstant ==
  ASSUME NEW S, IsFiniteSet(S), NEW f, NEW r \in Int, \A x \in S : f[x] = r
  PROVE  Sum(S, f) = r * Cardinality(S)
<1> DEFINE Good == {s \in SUBSET S : Sum(s, f) = r * Cardinality(s)}
<1>1. ASSUME NEW s \in SUBSET S, \A t \in SUBSET s : t # s => t \in Good
      PROVE  s \in Good
  <2>1. IsFiniteSet(s)
    BY FS_Subset
  <2>2. CASE s = {}
    <3>1. Sum(s, f) = 0 /\ Cardinality(s) = 0
      BY <2>1, <2>2, SumPick, FS_EmptySet
    <3>2. r * 0 = 0
      OBVIOUS
    <3> QED
      BY <3>1, <3>2
  <2>3. CASE s # {}
    <3> DEFINE p == Pick(s)
               t == s \ {p}
               m == Cardinality(t)
    <3>1. /\ p \in s /\ Sum(s, f) = f[p] + Sum(t, f)
          /\ Cardinality(s) \in Nat /\ m = Cardinality(s) - 1
      BY <2>1, <2>3, SumPick, PickOne
    <3>2. Sum(t, f) = r * m /\ f[p] = r
      BY <1>1, <3>1
    <3> HIDE DEF p, t, m
    <3>3. m \in Int /\ Cardinality(s) = m + 1
      BY <3>1
    <3>4. r + r * m = r * (m + 1)
      BY <3>3
    <3>5. Sum(s, f) = r * Cardinality(s)
      BY <3>1, <3>2, <3>3, <3>4
    <3> QED
      BY <3>5
  <2> QED
    BY <2>2, <2>3
<1>2. S \in Good
  <2> HIDE DEF Good
  <2> QED
    BY <1>1, PartsInduction
<1> QED
  BY <1>2

-----------------------------------------------------------------------------
(* Folds that take numbers from the least to the greatest.                  *)

\* A finite set of numbers has a greatest one.
LEMMA Greatest ==
  ASSUME NEW S, IsFiniteSet(S), S \subseteq Int, S # {}
  PROVE  \E x \in S : \A y \in S : x >= y
<1> DEFINE Good == {s \in SUBSET S : s # {} => \E x \in s : \A y \in s : x >= y}
<1>1. ASSUME NEW s \in SUBSET S, \A t \in SUBSET s : t # s => t \in Good
      PROVE  s \in Good
  <2> SUFFICES ASSUME s # {} PROVE \E x \in s : \A y \in s : x >= y
    OBVIOUS
  <2>1. PICK p \in s : TRUE
    OBVIOUS
  <2> DEFINE t == s \ {p}
  <2>2. t # {} => \E x \in t : \A y \in t : x >= y
    <3>1. t \in SUBSET s /\ t # s
      BY <2>1
    <3> HIDE DEF t
    <3> QED
      BY <1>1, <3>1
  <2>3. CASE t = {}
    BY <2>1, <2>3
  <2>4. CASE t # {}
    <3>1. PICK x \in t : \A y \in t : x >= y
      BY <2>2, <2>4
    <3>2. x \in Int /\ p \in Int /\ \A y \in t : y \in Int
      BY <2>1
    <3>3. CASE x >= p
      BY <3>1, <3>3
    <3>4. CASE p >= x
      BY <2>1, <3>1, <3>2, <3>4
    <3> QED
      BY <3>2, <3>3, <3>4
  <2> QED
    BY <2>3, <2>4
<1>2. S \in Good
  <2> HIDE DEF Good
  <2> QED
    BY <1>1, PartsInduction
<1> QED
  BY <1>2

\* Without its greatest element a set is smaller by one.
LEMMA WithoutGreatest ==
  ASSUME NEW s, IsFiniteSet(s), s \subseteq Int, s # {}
  PROVE  /\ Max(s) \in s /\ \A y \in s : y <= Max(s)
         /\ IsFiniteSet(s \ {Max(s)}) /\ Cardinality(s \ {Max(s)}) = Cardinality(s) - 1
<1>1. PICK x \in s : \A y \in s : x >= y
  BY Greatest
<1>2. Max(s) \in s /\ \A y \in s : Max(s) >= y
  BY <1>1 DEF Max
<1>3. \A y \in s : y \in Int
  OBVIOUS
<1> QED
  BY <1>2, <1>3, FS_RemoveElement

\* g has the results of the fold for every set of D.
Ascends(D, base, step, g) ==
  \A s \in D : g[s] = IF s = {} THEN base ELSE step[<<g[s \ {Max(s)}], Max(s)>>]

\* There is such a function.
LEMMA AscentExists ==
  ASSUME NEW S, IsFiniteSet(S), S \subseteq Int,
         NEW X, NEW base \in X, NEW step \in [X \X S -> X]
  PROVE  \E g \in [SUBSET S -> X] : Ascends(SUBSET S, base, step, g)
<1> DEFINE D(n) == {s \in SUBSET S : Cardinality(s) <= n}
           Good(n) == \E g \in [D(n) -> X] : Ascends(D(n), base, step, g)
           Bad == {n \in Nat : ~Good(n)}
<1>1. \A s \in SUBSET S : /\ IsFiniteSet(s) /\ s \subseteq Int
                          /\ Cardinality(s) \in Nat /\ Cardinality(s) <= Cardinality(S)
  BY FS_Subset, FS_CardinalityType
<1>2. ASSUME NEW n \in Nat, Good(n)
      PROVE  Good(n + 1)
  <2>1. PICK g \in [D(n) -> X] : Ascends(D(n), base, step, g)
    BY <1>2
  <2> DEFINE h == [s \in D(n + 1) |->
                     IF s = {} THEN base ELSE step[<<g[s \ {Max(s)}], Max(s)>>]]
  <2>2. ASSUME NEW s \in D(n)
        PROVE  s \in D(n + 1) /\ h[s] = g[s]
    <3>1. s \in D(n + 1)
      BY <1>1
    <3>2. g[s] = IF s = {} THEN base ELSE step[<<g[s \ {Max(s)}], Max(s)>>]
      <4> HIDE DEF D
      <4> QED
        BY <2>1 DEF Ascends
    <3> HIDE DEF D
    <3> QED
      BY <3>1, <3>2
  <2>3. ASSUME NEW s \in D(n + 1), s # {}
        PROVE  Max(s) \in S /\ s \ {Max(s)} \in D(n)
    <3>1. /\ Max(s) \in s /\ Cardinality(s \ {Max(s)}) = Cardinality(s) - 1
      BY <1>1, <2>3, WithoutGreatest
    <3>2. Cardinality(s) \in Nat /\ Cardinality(s) <= n + 1 /\ s \in SUBSET S
      BY <1>1
    <3>3. s \ {Max(s)} \in SUBSET S /\ Max(s) \in S
      BY <3>1, <3>2
    <3> DEFINE c == Cardinality(s)
               k == Cardinality(s \ {Max(s)})
    <3>4. k = c - 1 /\ c \in Nat /\ c <= n + 1
      BY <3>1, <3>2
    <3> HIDE DEF c, k
    <3>5. k <= n
      BY <3>4
    <3> QED
      BY <3>3, <3>5 DEF k
  <2>4. h \in [D(n + 1) -> X]
    <3> HIDE DEF D
    <3> QED
      BY <2>1, <2>3
  <2>5. Ascends(D(n + 1), base, step, h)
    <3> HIDE DEF D
    <3>1. \A s \in D(n + 1) : s # {} => h[s \ {Max(s)}] = g[s \ {Max(s)}]
      <4> HIDE DEF h
      <4> QED
        BY <2>2, <2>3
    <3> QED
      BY <3>1 DEF Ascends
  <2> HIDE DEF D, h
  <2> QED
    BY <2>4, <2>5
<1>3. Good(0)
  <2>1. D(0) = {{}}
    <3>1. \A s \in SUBSET S : IsFiniteSet(s) /\ Cardinality(s) \in Nat
      BY <1>1
    <3>2. \A s \in SUBSET S : Cardinality(s) <= 0 <=> s = {}
      <4> TAKE s \in SUBSET S
      <4> DEFINE c == Cardinality(s)
      <4>1. c \in Nat /\ (c = 0 <=> s = {})
        BY <3>1, FS_EmptySet
      <4> HIDE DEF c
      <4>2. c <= 0 <=> s = {}
        BY <4>1
      <4> QED
        BY <4>2 DEF c
    <3> QED
      BY <3>2
  <2> DEFINE g == [s \in {{}} |-> base]
  <2>2. g \in [{{}} -> X] /\ Ascends({{}}, base, step, g)
    BY DEF Ascends
  <2> HIDE DEF D, g
  <2> QED
    BY <2>1, <2>2
<1>4. Bad = {}
  <2> SUFFICES ASSUME Bad # {} PROVE FALSE
    OBVIOUS
  <2>1. PICK n \in Bad : \A k \in Bad : n <= k
    BY Least
  <2>2. n \in Nat /\ ~Good(n) /\ \A k \in Nat : ~Good(k) => n <= k
    BY <2>1
  <2> HIDE DEF Good, Bad
  <2>3. n # 0
    BY <1>3, <2>2
  <2>4. n - 1 \in Nat /\ ~(n <= n - 1) /\ n = (n - 1) + 1
    BY <2>2, <2>3
  <2>5. Good(n - 1)
    BY <2>2, <2>4
  <2> QED
    BY <1>2, <2>2, <2>4, <2>5
<1>5. D(Cardinality(S)) = SUBSET S
  BY <1>1
<1>6. Cardinality(S) \in Nat
  BY FS_CardinalityType
<1>7. Good(Cardinality(S))
  BY <1>4, <1>6
<1> HIDE DEF D
<1> QED
  BY <1>5, <1>7

\* Induction along such a fold
LEMMA AscentInduction ==
  ASSUME NEW S, IsFiniteSet(S), S \subseteq Int, NEW Good, {} \in Good,
         \A s \in SUBSET S : s # {} /\ s \ {Max(s)} \in Good => s \in Good
  PROVE  S \in Good
<1>1. ASSUME NEW s \in SUBSET S, \A t \in SUBSET s : t # s => t \in Good
      PROVE  s \in Good
  <2>1. CASE s = {}
    BY <2>1
  <2>2. CASE s # {}
    <3>1. IsFiniteSet(s) /\ s \subseteq Int
      BY FS_Subset
    <3>2. Max(s) \in s
      BY <2>2, <3>1, WithoutGreatest
    <3>3. s \ {Max(s)} \in SUBSET s /\ s \ {Max(s)} # s
      BY <3>2
    <3> QED
      BY <1>1, <2>2, <3>3
  <2> QED
    BY <2>1, <2>2
<1> QED
  BY <1>1, PartsInduction

-----------------------------------------------------------------------------
(* Recursion and induction over an interval.                                *)

\* What follows for a number from all smaller ones holds of all.
LEMMA Upward ==
  ASSUME NEW T, T \subseteq Nat, NEW Good,
         \A j \in T : (\A k \in T : k < j => k \in Good) => j \in Good
  PROVE  T \subseteq Good
<1> DEFINE Bad == T \ Good
<1> SUFFICES ASSUME Bad # {} PROVE FALSE
  OBVIOUS
<1>1. PICK j \in Bad : \A k \in Bad : j <= k
  BY Least
<1>2. j \in T /\ j \notin Good /\ j \in Nat
  BY <1>1
<1>3. ASSUME NEW k \in T, k < j
      PROVE  k \in Good
  <2>1. k \in Nat /\ ~(j <= k)
    BY <1>2, <1>3
  <2> QED
    BY <1>1, <2>1
<1> QED
  BY <1>2, <1>3

\* And from all greater ones, in an interval
LEMMA Downward ==
  ASSUME NEW N \in Nat, NEW Good,
         \A j \in 1..N : (\A k \in 1..N : k > j => k \in Good) => j \in Good
  PROVE  1..N \subseteq Good
<1> DEFINE Late == {m \in 0..N : m = N \/ N - m \in Good}
           T == 0..N
<1>1. ASSUME NEW m \in T, \A k \in T : k < m => k \in Late
      PROVE  m \in Late
  <2>1. CASE m = N
    BY <2>1
  <2>2. CASE m # N
    <3>1. N - m \in 1..N
      BY <2>2
    <3>2. ASSUME NEW k \in 1..N, k > N - m
          PROVE  k \in Good
      <4>1. N - k \in T /\ N - k < m /\ N - k # N /\ N - (N - k) = k
        BY <3>2
      <4> QED
        BY <1>1, <4>1
    <3> QED
      BY <3>1, <3>2
  <2> QED
    BY <2>1, <2>2
<1>2. T \subseteq Nat
  OBVIOUS
<1>3. T \subseteq Late
  <2> HIDE DEF T, Late
  <2> QED
    BY <1>1, <1>2, Upward
<1>4. ASSUME NEW j \in 1..N
      PROVE  j \in Good
  <2>1. N - j \in T /\ N - j # N /\ N - (N - j) = j
    OBVIOUS
  <2> QED
    BY <1>3, <2>1
<1> QED
  BY <1>4

\* A step of a recursion that needs what is known of smaller ranks only
Local(D, X, r, step) ==
  \A j \in D, f \in [D -> X], g \in [D -> X] :
    (\A k \in D : r[k] < r[j] => f[k] = g[k]) => step[<<j, f>>] = step[<<j, g>>]

\* What such a recursion computes
Computes(D, X, step, f) == f \in [D -> X] /\ \A j \in D : f[j] = step[<<j, f>>]

\* It can be run.
LEMMA Recursion ==
  ASSUME NEW D, NEW X, X # {}, NEW M \in Nat, NEW r \in [D -> 0..M],
         NEW step \in [D \X [D -> X] -> X], Local(D, X, r, step)
  PROVE  \E f : Computes(D, X, step, f)
<1> DEFINE Run(n, f) == \A j \in D : r[j] < n => f[j] = step[<<j, f>>]
           Good(n) == \E f \in [D -> X] : Run(n, f)
           Bad == {n \in Nat : ~Good(n)}
<1>1. Good(0)
  <2>1. PICK x \in X : TRUE
    OBVIOUS
  <2>2. [j \in D |-> x] \in [D -> X]
    OBVIOUS
  <2>3. \A j \in D : ~(r[j] < 0)
    OBVIOUS
  <2> QED
    BY <2>2, <2>3
<1>2. ASSUME NEW n \in Nat, Good(n)
      PROVE  Good(n + 1)
  <2>1. PICK f \in [D -> X] : Run(n, f)
    BY <1>2
  <2> DEFINE h == [j \in D |-> IF r[j] = n THEN step[<<j, f>>] ELSE f[j]]
  <2>2. h \in [D -> X]
    OBVIOUS
  <2>3. ASSUME NEW j \in D, r[j] < n + 1
        PROVE  h[j] = step[<<j, h>>]
    <3>1. \A k \in D : r[k] < r[j] => f[k] = h[k]
      <4>1. \A k \in D : r[k] < r[j] => r[k] # n
        BY <2>3
      <4> QED
        BY <4>1
    <3>2. step[<<j, f>>] = step[<<j, h>>]
      <4> HIDE DEF h
      <4> QED
        BY <2>2, <3>1 DEF Local
    <3>3. h[j] = step[<<j, f>>]
      <4>1. r[j] = n \/ (r[j] # n /\ r[j] < n)
        <5>1. r[j] \in Int
          OBVIOUS
        <5> HIDE DEF h
        <5> QED
          BY <2>3, <5>1
      <4> QED
        BY <2>1, <4>1
    <3> QED
      BY <3>2, <3>3
  <2> HIDE DEF h
  <2> QED
    BY <2>2, <2>3
<1>3. Bad = {}
  <2> SUFFICES ASSUME Bad # {} PROVE FALSE
    OBVIOUS
  <2>1. PICK n \in Bad : \A k \in Bad : n <= k
    BY Least
  <2>2. n \in Nat /\ ~Good(n) /\ \A k \in Nat : ~Good(k) => n <= k
    BY <2>1
  <2> HIDE DEF Good, Bad
  <2>3. n # 0
    BY <1>1, <2>2
  <2>4. n - 1 \in Nat /\ ~(n <= n - 1) /\ n = (n - 1) + 1
    BY <2>2, <2>3
  <2>5. Good(n - 1)
    BY <2>2, <2>4
  <2> QED
    BY <1>2, <2>2, <2>4, <2>5
<1>4. Good(M + 1)
  <2> HIDE DEF Good
  <2> QED
    BY <1>3
<1>5. \A j \in D : r[j] < M + 1
  OBVIOUS
<1> QED
  BY <1>4, <1>5 DEF Computes
=============================================================================
