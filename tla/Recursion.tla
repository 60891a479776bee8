------------------------------ MODULE Recursion ------------------------------
(***************************************************************************)
(* Induction and recursion without operators as parameters: a predicate is *)
(* the set of the numbers that have it, the step of a recursion a function *)
(* on a set of results.  The other proof modules take the equations of     *)
(* their recursive functions and folds from here.                          *)
(***************************************************************************)
EXTENDS Integers, FiniteSets, Functions, NaturalsInduction, WellFoundedInduction, FiniteSetTheorems, TLAPS

\* A nonempty set of naturals has a least element.
LEMMA LeastNatural ==
  ASSUME NEW T, T \subseteq Nat, T # {}
  PROVE  \E x \in T : \A y \in T : x <= y
<1>1. PICK x \in T : \A y \in T : ~ (<<y, x>> \in OpToRel(<, Nat))
  BY NatLessThanWellFounded, WFMin
<1>2. \A y \in T : ~ (y < x)
  BY <1>1 DEF OpToRel
<1> QED
  BY <1>2

\* Induction: a set of naturals with 0 and all successors has every natural.
THEOREM SetInduction ==
  ASSUME NEW H, 0 \in H, \A n \in Nat : n \in H => n + 1 \in H
  PROVE  \A n \in Nat : n \in H
<1> SUFFICES ASSUME NEW k \in Nat, k \notin H PROVE FALSE
  OBVIOUS
<1> DEFINE T == {n \in Nat : n \notin H}
<1>1. PICK x \in T : \A y \in T : x <= y
  <2>1. T \subseteq Nat /\ T # {}
    OBVIOUS
  <2> HIDE DEF T
  <2> QED BY <2>1, LeastNatural
<1>2. x \in Nat /\ x # 0 /\ x - 1 \in Nat
  OBVIOUS
<1>3. x - 1 \in H
  BY <1>1, <1>2
<1> QED BY <1>2, <1>3, x = (x - 1) + 1

\* The first n values of a recursion: b, and step after each.
Approximates(g, b, step, n) ==
  g[0] = b /\ \A i \in 0 .. n - 1 : g[i + 1] = step[<<g[i], i>>]

\* There are such functions for every n.
LEMMA ApproximationsExist ==
  ASSUME NEW T, NEW b \in T, NEW step \in [T \X Nat -> T], NEW n \in Nat
  PROVE  \E g \in [Nat -> T] : Approximates(g, b, step, n)
<1> DEFINE H == {k \in Nat : \E g \in [Nat -> T] : Approximates(g, b, step, k)}
<1>1. 0 \in H
  <2> DEFINE g == [i \in Nat |-> b]
  <2>1. g \in [Nat -> T] /\ Approximates(g, b, step, 0)
    BY DEF Approximates
  <2> QED BY <2>1
<1>2. ASSUME NEW k \in Nat, k \in H PROVE k + 1 \in H
  <2>1. PICK g \in [Nat -> T] : Approximates(g, b, step, k)
    BY <1>2
  <2> DEFINE h == [g EXCEPT ![k + 1] = step[<<g[k], k>>]]
  <2>2. h \in [Nat -> T]
    BY <1>2
  <2>3. h[0] = b
    BY <2>1 DEF Approximates
  <2>4. ASSUME NEW i \in 0 .. k PROVE h[i + 1] = step[<<h[i], i>>]
    <3>1. h[i] = g[i]
      BY <2>4
    <3>2. CASE i = k
      BY <3>1, <3>2
    <3>3. CASE i < k
      BY <2>1, <3>1, <3>3 DEF Approximates
    <3> QED BY <3>2, <3>3
  <2>5. Approximates(h, b, step, k + 1)
    <3> HIDE DEF h
    <3> QED BY <2>3, <2>4 DEF Approximates
  <2> HIDE DEF h
  <2> QED BY <2>2, <2>5
<1>3. \A k \in Nat : k \in H
  <2> HIDE DEF H
  <2> QED BY <1>1, <1>2, SetInduction
<1> QED BY <1>3

\* Two of them have the same values, as far as both go.
LEMMA ApproximationsAgree ==
  ASSUME NEW T, NEW b \in T, NEW step \in [T \X Nat -> T], NEW n \in Nat, NEW k \in 0 .. n,
         NEW g, NEW h, Approximates(g, b, step, k), Approximates(h, b, step, n)
  PROVE  g[k] = h[k]
<1> DEFINE H == {i \in Nat : i <= k => g[i] = h[i]}
<1>1. 0 \in H
  BY DEF Approximates
<1>2. ASSUME NEW i \in Nat, i \in H PROVE i + 1 \in H
  <2> SUFFICES ASSUME i + 1 <= k PROVE g[i + 1] = h[i + 1]
    OBVIOUS
  <2>1. g[i] = h[i]
    BY <1>2
  <2>2. i \in 0 .. k - 1 /\ i \in 0 .. n - 1
    OBVIOUS
  <2>3. g[i + 1] = step[<<g[i], i>>]
    BY <2>2 DEF Approximates
  <2>4. h[i + 1] = step[<<h[i], i>>]
    BY <2>2 DEF Approximates
  <2> QED BY <2>1, <2>3, <2>4
<1>3. \A i \in Nat : i \in H
  <2> HIDE DEF H
  <2> QED BY <1>1, <1>2, SetInduction
<1> QED BY <1>3

\* f is the function with base b and step on the naturals.
IsRecursion(f, T, b, step) ==
  f \in [Nat -> T] /\ f[0] = b /\ \A n \in Nat : f[n + 1] = step[<<f[n], n>>]

\* Recursion on the naturals defines a function.
THEOREM NatRecursion ==
  ASSUME NEW T, NEW b \in T, NEW step \in [T \X Nat -> T]
  PROVE  \E f : IsRecursion(f, T, b, step)
<1> DEFINE Approx(n) == CHOOSE g \in [Nat -> T] : Approximates(g, b, step, n)
           f == [n \in Nat |-> Approx(n)[n]]
<1>1. ASSUME NEW n \in Nat
      PROVE  Approx(n) \in [Nat -> T] /\ Approximates(Approx(n), b, step, n)
  BY ApproximationsExist
<1> HIDE DEF Approx
<1>2. f \in [Nat -> T]
  BY <1>1
<1>3. f[0] = b
  BY <1>1 DEF Approximates
<1>4. ASSUME NEW n \in Nat PROVE f[n + 1] = step[<<f[n], n>>]
  <2>1. Approx(n + 1)[n + 1] = step[<<Approx(n + 1)[n], n>>]
    BY <1>1 DEF Approximates
  <2>2. Approx(n)[n] = Approx(n + 1)[n]
    <3>1. n \in 0 .. n + 1 /\ n + 1 \in Nat
      OBVIOUS
    <3> DEFINE g == Approx(n)
               h == Approx(n + 1)
    <3>2. Approximates(g, b, step, n) /\ Approximates(h, b, step, n + 1)
      BY <1>1, <3>1
    <3> HIDE DEF g, h
    <3>3. g[n] = h[n]
      BY <3>1, <3>2, ApproximationsAgree
    <3> QED BY <3>3 DEF g, h
  <2> QED BY <2>1, <2>2
<1> HIDE DEF f
<1> QED BY <1>2, <1>3, <1>4 DEF IsRecursion

\* f is the function on the subsets of S that takes out an element at a time, in
\* the order of pick.
IsSetRecursion(f, S, T, b, step, pick) ==
  /\ f \in [SUBSET S -> T]
  /\ f = [s \in SUBSET S |-> IF s = {} THEN b ELSE step[<<f[s \ {pick[s]}], pick[s]>>]]

\* Recursion on the subsets of a finite set, an element at a time: the function
\* that the folds of the community modules define.
THEOREM SetRecursion ==
  ASSUME NEW S, IsFiniteSet(S), NEW T, NEW b \in T, NEW step \in [T \X S -> T],
         NEW pick \in [SUBSET S -> S \cup {S}], \A s \in SUBSET S : s # {} => pick[s] \in s
  PROVE  \E f : IsSetRecursion(f, S, T, b, step, pick)
<1> DEFINE F == [SUBSET S -> T]
           base == [s \in SUBSET S |-> b]
           Longer(f) == [s \in SUBSET S |-> IF s = {} THEN b ELSE step[<<f[s \ {pick[s]}], pick[s]>>]]
           longer == [p \in F \X Nat |-> Longer(p[1])]
<1>1. base \in F
  OBVIOUS
<1>2. ASSUME NEW f \in F PROVE Longer(f) \in F
  <2> SUFFICES ASSUME NEW s \in SUBSET S, s # {} PROVE step[<<f[s \ {pick[s]}], pick[s]>>] \in T
    OBVIOUS
  <2>1. s \ {pick[s]} \in SUBSET S /\ pick[s] \in S
    OBVIOUS
  <2>2. f[s \ {pick[s]}] \in T
    BY <2>1
  <2> QED BY <2>1, <2>2
<1>3. longer \in [F \X Nat -> F]
  <2> HIDE DEF F, Longer
  <2> QED BY <1>2
<1>4. PICK g : IsRecursion(g, F, base, longer)
  <2> HIDE DEF F, base, longer
  <2> QED BY <1>1, <1>3, NatRecursion
<1>5. ASSUME NEW n \in Nat PROVE g[n + 1] = Longer(g[n])
  <2>1. g[n] \in F /\ g[n + 1] = longer[<<g[n], n>>]
    BY <1>4 DEF IsRecursion
  <2> HIDE DEF F, Longer
  <2> QED BY <2>1
<1>10. g \in [Nat -> F] /\ g[0] = base
  BY <1>4 DEF IsRecursion
<1> DEFINE f == [s \in SUBSET S |-> g[Cardinality(s)][s]]
<1>6. ASSUME NEW s \in SUBSET S PROVE Cardinality(s) \in Nat /\ IsFiniteSet(s)
  BY FS_Subset, FS_CardinalityType
<1>7. f \in [SUBSET S -> T]
  <2> SUFFICES ASSUME NEW s \in SUBSET S PROVE g[Cardinality(s)][s] \in T
    OBVIOUS
  <2>1. g[Cardinality(s)] \in F
    BY <1>6, <1>10
  <2> QED BY <2>1
<1>8. ASSUME NEW s \in SUBSET S
      PROVE  f[s] = IF s = {} THEN b ELSE step[<<f[s \ {pick[s]}], pick[s]>>]
  <2>1. CASE s = {}
    BY <2>1, <1>10, FS_EmptySet
  <2>2. CASE s # {}
    <3> DEFINE r == s \ {pick[s]}
               n == Cardinality(r)
    <3>1. pick[s] \in s /\ r \in SUBSET S
      BY <2>2
    <3>2. n \in Nat /\ Cardinality(s) = n + 1
      <4>1. Cardinality(r) = Cardinality(s) - 1
        BY <3>1, <1>6, FS_RemoveElement
      <4> QED BY <4>1, <3>1, <1>6
    <3>3. f[s] = Longer(g[n])[s]
      BY <3>2, <1>5
    <3>4. Longer(g[n])[s] = step[<<g[n][r], pick[s]>>]
      BY <2>2
    <3>5. f[r] = g[n][r]
      BY <3>1
    <3> QED BY <2>2, <3>3, <3>4, <3>5
  <2> QED BY <2>1, <2>2
<1>9. f = [s \in SUBSET S |-> IF s = {} THEN b ELSE step[<<f[s \ {pick[s]}], pick[s]>>]]
  <2> DEFINE h == [s \in SUBSET S |-> IF s = {} THEN b ELSE step[<<f[s \ {pick[s]}], pick[s]>>]]
  <2>1. \A s \in SUBSET S : f[s] = h[s]
    BY <1>8
  <2>2. f \in [SUBSET S -> T] /\ h \in [SUBSET S -> T]
    <3>1. \A s \in SUBSET S : h[s] \in T
      BY <2>1, <1>7
    <3> QED BY <1>7, <3>1
  <2> HIDE DEF f, h
  <2>3. f = h
    BY <2>1, <2>2
  <2> QED BY <2>3 DEF h
<1> HIDE DEF f
<1> QED BY <1>7, <1>9 DEF IsSetRecursion

-----------------------------------------------------------------------------
(* Sums, as SumFunction defines them.                                      *)

Picked(s) == CHOOSE x \in s : TRUE

\* f has the sums of v over the subsets of D.
IsSum(f, v, D) ==
  \A s \in SUBSET D : f[s] = IF s = {} THEN 0 ELSE v[Picked(s)] + f[s \ {Picked(s)}]

\* Sums of the same numbers are the same.
LEMMA SumsAgree ==
  ASSUME NEW D, IsFiniteSet(D), NEW E, NEW v, NEW w, NEW f, NEW g, IsSum(f, v, D), IsSum(g, w, E),
         NEW a \in SUBSET D, a \subseteq E, \A x \in a : v[x] = w[x]
  PROVE  f[a] = g[a]
<1> DEFINE H == {n \in Nat : \A s \in SUBSET a : Cardinality(s) = n => f[s] = g[s]}
<1>1. \A s \in SUBSET a : IsFiniteSet(s) /\ Cardinality(s) \in Nat
  BY FS_Subset, FS_CardinalityType
<1>2. 0 \in H
  BY <1>1, FS_EmptySet DEF IsSum
<1>3. ASSUME NEW n \in Nat, n \in H PROVE n + 1 \in H
  <2> SUFFICES ASSUME NEW s \in SUBSET a, Cardinality(s) = n + 1 PROVE f[s] = g[s]
    OBVIOUS
  <2>1. s # {}
    BY <1>1, FS_EmptySet
  <2>2. PICK c : c = Picked(s)
    OBVIOUS
  <2>3. c \in s
    BY <2>1, <2>2 DEF Picked
  <2>4. Cardinality(s \ {c}) = n /\ s \ {c} \in SUBSET a
    BY <1>1, <2>3, FS_RemoveElement
  <2>5. f[s \ {c}] = g[s \ {c}]
    BY <1>3, <2>4
  <2>6. f[s] = v[c] + f[s \ {c}] /\ g[s] = w[c] + g[s \ {c}]
    BY <2>1, <2>2 DEF IsSum
  <2>7. v[c] = w[c]
    BY <2>3
  <2> QED BY <2>5, <2>6, <2>7
<1>4. \A n \in Nat : n \in H
  <2> HIDE DEF H
  <2> QED BY <1>2, <1>3, SetInduction
<1>5. Cardinality(a) \in H /\ a \in SUBSET a
  BY <1>1, <1>4
<1> QED BY <1>5

\* The equation by which SumFunction chooses its function.
IsSumFunction(f, v, D) ==
  f = [s \in SUBSET D |-> IF s = {} THEN 0 ELSE v[Picked(s)] + f[s \ {Picked(s)}]]

\* Sums exist, and are integers.
LEMMA SumsExist ==
  ASSUME NEW D, IsFiniteSet(D), NEW v \in [D -> Int]
  PROVE  \E f \in [SUBSET D -> Int] : IsSumFunction(f, v, D)
<1> DEFINE step == [p \in Int \X D |-> v[p[2]] + p[1]]
           pick == [s \in SUBSET D |-> IF s = {} THEN D ELSE Picked(s)]
<1>1. step \in [Int \X D -> Int]
  OBVIOUS
<1>2. \A s \in SUBSET D : s # {} => Picked(s) \in s
  BY DEF Picked
<1>3. pick \in [SUBSET D -> D \cup {D}] /\ \A s \in SUBSET D : s # {} => pick[s] \in s /\ pick[s] = Picked(s)
  BY <1>2
<1>4. PICK f \in [SUBSET D -> Int] :
        f = [s \in SUBSET D |-> IF s = {} THEN 0 ELSE step[<<f[s \ {pick[s]}], pick[s]>>]]
  <2> HIDE DEF step, pick
  <2>0. PICK T, b : T = Int /\ b = 0
    OBVIOUS
  <2>1. b \in T /\ step \in [T \X D -> T]
    BY <1>1, <2>0
  <2>2. PICK f : IsSetRecursion(f, D, T, b, step, pick)
    BY <1>3, <2>1, SetRecursion
  <2> QED BY <2>0, <2>2 DEF IsSetRecursion
<1>5. ASSUME NEW s \in SUBSET D, s # {}
      PROVE  step[<<f[s \ {pick[s]}], pick[s]>>] = v[Picked(s)] + f[s \ {Picked(s)}]
  <2>1. pick[s] = Picked(s) /\ Picked(s) \in D /\ s \ {Picked(s)} \in SUBSET D
    BY <1>3, <1>5
  <2>2. f[s \ {Picked(s)}] \in Int
    BY <2>1
  <2> HIDE DEF pick
  <2>3. PICK c, r : c = Picked(s) /\ r = f[s \ {c}]
    OBVIOUS
  <2>4. c \in D /\ r \in Int /\ step[<<r, c>>] = v[c] + r
    BY <2>1, <2>2, <2>3
  <2> QED BY <2>1, <2>3, <2>4
<1> HIDE DEF step, pick
<1>6. [s \in SUBSET D |-> IF s = {} THEN 0 ELSE step[<<f[s \ {pick[s]}], pick[s]>>]]
      = [s \in SUBSET D |-> IF s = {} THEN 0 ELSE v[Picked(s)] + f[s \ {Picked(s)}]]
  BY <1>5
<1> QED BY <1>4, <1>6 DEF IsSumFunction

\* SumFunction is the sum over the whole domain.
LEMMA SumFunctionIs ==
  ASSUME NEW D, IsFiniteSet(D), NEW v \in [D -> Int]
  PROVE  \E f \in [SUBSET D -> Int] : IsSum(f, v, D) /\ SumFunction(v) = f[D]
<1> DEFINE It(f) == [s \in SUBSET D |-> IF s = {} THEN 0 ELSE v[Picked(s)] + f[s \ {Picked(s)}]]
           g == CHOOSE f : f = It(f)
<1>0. PICK f \in [SUBSET D -> Int] : IsSumFunction(f, v, D)
  BY SumsExist
<1>1. f = It(f)
  BY <1>0 DEF IsSumFunction
<1>2. g = It(g)
  BY <1>1
<1>3. DOMAIN v = D
  OBVIOUS
<1>4. SumFunction(v) = g[D]
  BY <1>3 DEF SumFunction, SumFunctionOnSet, FoldFunctionOnSet, MapThenFoldSet, Picked
<1> HIDE DEF g
<1>5. IsSum(f, v, D) /\ IsSum(g, v, D)
  BY <1>1, <1>2 DEF IsSum
<1> HIDE DEF It
<1>6. f[D] = g[D]
  BY <1>5, SumsAgree
<1> QED BY <1>1, <1>4, <1>5, <1>6

\* f and v with x taken out of a.
TakenOut(f, v, a, x) == f[a] = v[x] + f[a \ {x}]

\* Any element may be taken out first.
LEMMA SumWithout ==
  ASSUME NEW D, IsFiniteSet(D), NEW v, NEW f, v \in [D -> Int], f \in [SUBSET D -> Int], IsSum(f, v, D),
         NEW a, NEW x, a \in SUBSET D, x \in a
  PROVE  TakenOut(f, v, a, x)
<1> DEFINE H == {n \in Nat : \A s \in SUBSET D : \A y \in s : Cardinality(s) = n => f[s] = v[y] + f[s \ {y}]}
<1>1. \A s \in SUBSET D : IsFiniteSet(s) /\ Cardinality(s) \in Nat
  BY FS_Subset, FS_CardinalityType
<1>2. 0 \in H
  BY <1>1, FS_EmptySet
<1>3. ASSUME NEW n \in Nat, n \in H PROVE n + 1 \in H
  <2> SUFFICES ASSUME NEW s \in SUBSET D, NEW y \in s, Cardinality(s) = n + 1 PROVE f[s] = v[y] + f[s \ {y}]
    OBVIOUS
  <2>2. PICK c : c = Picked(s)
    OBVIOUS
  <2>3. c \in s
    BY <2>2 DEF Picked
  <2>4. f[s] = v[c] + f[s \ {c}]
    BY <2>2 DEF IsSum
  <2>5. CASE c = y
    BY <2>4, <2>5
  <2>6. CASE c # y
    <3> DEFINE r == (s \ {c}) \ {y}
    <3>1. r = (s \ {y}) \ {c} /\ r \in SUBSET D /\ s \ {c} \in SUBSET D /\ s \ {y} \in SUBSET D
      OBVIOUS
    <3>2. Cardinality(s \ {c}) = n /\ Cardinality(s \ {y}) = n
      <4>1. IsFiniteSet(s)
        BY <1>1
      <4>2. Cardinality(s \ {c}) = Cardinality(s) - 1 /\ Cardinality(s \ {y}) = Cardinality(s) - 1
        BY <2>3, <4>1, FS_RemoveElement
      <4> QED BY <4>2
    <3>3. f[s \ {c}] = v[y] + f[r]
      BY <1>3, <2>6, <3>1, <3>2
    <3>4. f[s \ {y}] = v[c] + f[r]
      <4>1. c \in s \ {y}
        BY <2>3, <2>6
      <4> QED BY <1>3, <3>1, <3>2, <4>1
    <3>5. f[r] \in Int /\ v[c] \in Int /\ v[y] \in Int
      BY <2>3, <3>1
    <3> HIDE DEF r
    <3> QED BY <2>4, <3>3, <3>4, <3>5
  <2> QED BY <2>5, <2>6
<1>4. \A n \in Nat : n \in H
  <2> HIDE DEF H
  <2> QED BY <1>2, <1>3, SetInduction
<1>5. Cardinality(a) \in H
  BY <1>1, <1>4
<1> QED BY <1>5 DEF TakenOut

\* The sum of no numbers.
THEOREM SumOfNone == ASSUME NEW v \in [1 .. 0 -> Int] PROVE SumFunction(v) = 0
<1>1. IsFiniteSet(1 .. 0) /\ 1 .. 0 = {}
  BY FS_EmptySet, 1 .. 0 = {}
<1>2. PICK f \in [SUBSET (1 .. 0) -> Int] : IsSum(f, v, 1 .. 0) /\ SumFunction(v) = f[1 .. 0]
  BY <1>1, SumFunctionIs
<1> QED BY <1>1, <1>2 DEF IsSum

\* One number more.
THEOREM SumOfOneMore ==
  ASSUME NEW n \in Nat, NEW v \in [1 .. n -> Int], NEW w \in [1 .. n + 1 -> Int], \A i \in 1 .. n : w[i] = v[i]
  PROVE  SumFunction(w) = SumFunction(v) + w[n + 1] /\ SumFunction(v) \in Int
<1>0. PICK D, E, a, x : D = 1 .. n /\ E = 1 .. n + 1 /\ a = D /\ x = n + 1
  OBVIOUS
<1>1. IsFiniteSet(D) /\ IsFiniteSet(E) /\ v \in [D -> Int] /\ w \in [E -> Int]
  <2>1. IsFiniteSet(1 .. n) /\ IsFiniteSet(1 .. n + 1)
    BY FS_Interval, 1 \in Int, n \in Int, n + 1 \in Int
  <2> QED BY <1>0, <2>1
<1>2. PICK f \in [SUBSET D -> Int] : IsSum(f, v, D) /\ SumFunction(v) = f[D]
  BY <1>1, SumFunctionIs
<1>3. PICK g \in [SUBSET E -> Int] : IsSum(g, w, E) /\ SumFunction(w) = g[E]
  BY <1>1, SumFunctionIs
<1>4. x \in E /\ E \ {x} = a /\ a \in SUBSET D /\ a \subseteq E
  BY <1>0
<1>5. g[E] = w[x] + g[a]
  <2>1. PICK b : b = E
    OBVIOUS
  <2>2. b \in SUBSET E /\ x \in b /\ b \ {x} = a
    BY <1>4, <2>1
  <2>3. g[b] = w[x] + g[b \ {x}]
    <3>1. IsSum(g, w, E)
      BY <1>3
    <3>2. IsFiniteSet(E) /\ w \in [E -> Int] /\ g \in [SUBSET E -> Int]
      BY <1>1
    <3>3. b \in SUBSET E /\ x \in b
      BY <2>2
    <3> HIDE <1>0
    <3>4. TakenOut(g, w, b, x)
      BY <3>1, <3>2, <3>3, SumWithout
    <3> QED BY <3>4 DEF TakenOut
  <2> QED BY <2>1, <2>2, <2>3
<1>6. \A y \in a : v[y] = w[y]
  BY <1>0
<1>7. f[a] = g[a]
  BY <1>1, <1>2, <1>3, <1>4, <1>6, SumsAgree
<1>8. f[D] \in Int /\ w[x] \in Int
  BY <1>2, <1>1, <1>4
<1> QED BY <1>0, <1>2, <1>3, <1>5, <1>7, <1>8
=============================================================================
