---- MODULE NumberFacts ----
(***************************************************************************)
(* Facts about numbers that the libraries do not have, or have as          *)
(* induction over a predicate.  The least-number principle and its like    *)
(* for finite sets stand in for induction in all the proofs: of the cases  *)
(* in which something fails, take a smallest one.  With it: what Min, Max  *)
(* and sums over a set are, ranks in an order, and powers.                 *)
(***************************************************************************)
EXTENDS Integers, FiniteSetsExt, FiniteSetTheorems, WellFoundedInduction, TLAPS

\* Every nonempty set of natural numbers has a least element: order its members k
\* by strict inclusion of 1..k, which is well-founded on finite sets.
LEMMA LeastNumberExists ==
    ASSUME NEW K \in SUBSET Nat, K # {}
    PROVE  \E k \in K : \A j \in K : k <= j
<1> DEFINE Below == {1..k : k \in K}
<1>1. Below \subseteq FiniteSubsetsOf(Nat)
  <2>1. ASSUME NEW k \in K
        PROVE  IsFiniteSet(1..k) /\ 1..k \in SUBSET Nat
    BY FS_Interval
  <2> QED
    BY <2>1 DEF FiniteSubsetsOf
<1>2. Below # {}
  OBVIOUS
<1>3. IsWellFoundedOn(StrictSubsetOrdering(Nat), FiniteSubsetsOf(Nat))
  BY FS_StrictSubsetOrderingWellFounded
<1>4. PICK b \in Below : \A c \in Below : <<c, b>> \notin StrictSubsetOrdering(Nat)
  <2> HIDE DEF Below
  <2> QED
    BY <1>1, <1>2, <1>3, WFMin
<1>5. PICK k \in K : b = 1..k
  OBVIOUS
<1>6. ASSUME NEW j \in K, j < k
      PROVE  FALSE
  <2>1. 1..j \subseteq 1..k /\ 1..j # 1..k
    <3>1. k \in 1..k /\ k \notin 1..j
      BY <1>6
    <3> QED
      BY <1>6, <3>1
  <2>2. <<1..j, 1..k>> \in StrictSubsetOrdering(Nat)
    BY <2>1 DEF StrictSubsetOrdering
  <2> QED
    BY <1>4, <1>5, <2>2
<1> QED
  BY <1>6

\* Min of some numbers is one of them.
LEMMA MinIsMember ==
    ASSUME NEW S \in SUBSET Nat, S # {}
    PROVE  Min(S) \in S /\ \A d \in S : Min(S) <= d
BY LeastNumberExists DEF Min

\* Of some finite sets there is one that contains none of the others.
LEMMA SmallestSetExists ==
    ASSUME NEW F, F # {}, \A A \in F : IsFiniteSet(A)
    PROVE  \E A \in F : \A B \in F : B \subseteq A => B = A
<1> DEFINE S == UNION F
<1>1. F \subseteq FiniteSubsetsOf(S)
  BY DEF FiniteSubsetsOf
<1>2. PICK A \in F : \A B \in F : <<B, A>> \notin StrictSubsetOrdering(S)
  BY <1>1, FS_StrictSubsetOrderingWellFounded, WFMin
<1>3. ASSUME NEW B \in F, B \subseteq A, B # A
      PROVE  FALSE
  <2>1. <<B, A>> \in StrictSubsetOrdering(S)
    BY <1>3 DEF StrictSubsetOrdering
  <2> QED
    BY <1>2, <2>1
<1> QED
  BY <1>3

\* Max of finitely many numbers is one of them: of the sets of those that are not
\* less than one of the numbers, take the smallest.
LEMMA MaxIsMember ==
    ASSUME NEW S \in SUBSET Int, IsFiniteSet(S), S # {}
    PROVE  Max(S) \in S /\ \A d \in S : Max(S) >= d
<1> DEFINE Above(k) == {d \in S : d >= k}
           Aboves == {Above(k) : k \in S}
<1>1. \A A \in Aboves : IsFiniteSet(A)
  BY FS_Subset
<1>2. Aboves # {}
  OBVIOUS
<1>3. PICK A \in Aboves : \A B \in Aboves : B \subseteq A => B = A
  <2> HIDE DEF Aboves
  <2> QED
    BY <1>1, <1>2, SmallestSetExists
<1>4. PICK m \in S : A = Above(m)
  OBVIOUS
<1>5. ASSUME NEW d \in S, d > m
      PROVE  FALSE
  <2>1. \A x \in S : x \in Int
    OBVIOUS
  <2>2. \A x \in S : x >= d => x >= m
    BY <1>5, <2>1
  <2>3. m \in Above(m) /\ m \notin Above(d)
    BY <1>5, <2>1
  <2>4. Above(d) \subseteq Above(m) /\ Above(d) \in Aboves
    BY <2>2
  <2>5. Above(d) = Above(m)
    BY <1>3, <1>4, <2>4
  <2> QED
    BY <2>3, <2>5
<1>6. \A d \in S : m >= d
  BY <1>5
<1> QED
  BY <1>6 DEF Max

----------------------------------------------------------------------------
(* Sums.                                                                   *)

SumOver(w, S) == MapThenSumSet(LAMBDA x : w[x], S)

Some(S) == CHOOSE x \in S : TRUE

\* g is the sum of w over each subset of S, one element after another.
IsSum(g, w, S) ==
    g = [s \in SUBSET S |-> IF s = {} THEN 0 ELSE w[Some(s)] + g[s \ {Some(s)}]]

\* The community module's sum is the value of that function.
LEMMA SumOverIs ==
    ASSUME NEW w, NEW S
    PROVE  SumOver(w, S) = (CHOOSE g : IsSum(g, w, S))[S]
BY DEF SumOver, MapThenSumSet, MapThenFoldSet, IsSum, Some

\* Sums over different sets agree on what these have in common.
LEMMA SumsAgree ==
    ASSUME NEW w, NEW S, NEW T, NEW g, NEW h,
           IsSum(g, w, S), IsSum(h, w, T), NEW U \in SUBSET (S \cap T), IsFiniteSet(U)
    PROVE  g[U] = h[U]
<1> DEFINE Bad == {u \in SUBSET U : g[u] # h[u]}
<1> SUFFICES ASSUME Bad # {} PROVE FALSE
  OBVIOUS
<1>1. Bad # {}
  OBVIOUS
<1>2. \A u \in Bad : IsFiniteSet(u)
  BY FS_Subset
<1>3. PICK u \in Bad : \A v \in Bad : v \subseteq u => v = u
  <2> HIDE DEF Bad
  <2> QED
    BY <1>1, <1>2, SmallestSetExists
<1>4. u \in SUBSET S /\ u \in SUBSET T
  OBVIOUS
<1>5. /\ g[u] = IF u = {} THEN 0 ELSE w[Some(u)] + g[u \ {Some(u)}]
      /\ h[u] = IF u = {} THEN 0 ELSE w[Some(u)] + h[u \ {Some(u)}]
  BY <1>4 DEF IsSum
<1>6. u # {}
  BY <1>5
<1>7. Some(u) \in u
  BY <1>6 DEF Some
<1>8. u \ {Some(u)} \notin Bad
  BY <1>3, <1>7
<1>9. g[u \ {Some(u)}] = h[u \ {Some(u)}]
  BY <1>8
<1> QED
  BY <1>5, <1>6, <1>9

\* There is such a function for every finite set, or CHOOSE would find none.
LEMMA SumExists ==
    ASSUME NEW w, NEW S, IsFiniteSet(S)
    PROVE  \E g : IsSum(g, w, S)
<1> DEFINE Bad == {s \in SUBSET S : ~\E g : IsSum(g, w, s)}
<1> SUFFICES ASSUME Bad # {} PROVE FALSE
  OBVIOUS
<1>1. Bad # {}
  OBVIOUS
<1>2. \A s \in Bad : IsFiniteSet(s)
  BY FS_Subset
<1>3. PICK T \in Bad : \A s \in Bad : s \subseteq T => s = T
  <2> HIDE DEF Bad
  <2> QED
    BY <1>1, <1>2, SmallestSetExists
<1> DEFINE G(u) == (CHOOSE g : IsSum(g, w, u))[u]
           H == [s \in SUBSET T |-> IF s = {} THEN 0 ELSE w[Some(s)] + G(s \ {Some(s)})]
<1>4. ASSUME NEW u \in SUBSET T, u # T
      PROVE  IsSum(CHOOSE g : IsSum(g, w, u), w, u)
  <2>1. \E g : IsSum(g, w, u)
    BY <1>3, <1>4
  <2> QED
    BY <2>1
<1>5. ASSUME NEW u \in SUBSET T, u # T
      PROVE  G(u) = IF u = {} THEN 0 ELSE w[Some(u)] + G(u \ {Some(u)})
  <2>1. PICK g : g = CHOOSE x : IsSum(x, w, u)
    OBVIOUS
  <2>2. IsSum(g, w, u) /\ G(u) = g[u]
    BY <1>4, <1>5, <2>1
  <2>3. g[u] = IF u = {} THEN 0 ELSE w[Some(u)] + g[u \ {Some(u)}]
    BY <2>2 DEF IsSum
  <2>4. ASSUME u # {}
        PROVE  g[u \ {Some(u)}] = G(u \ {Some(u)})
    <3>1. PICK v : v = u \ {Some(u)}
      OBVIOUS
    <3>2. Some(u) \in u
      BY <2>4 DEF Some
    <3>3. v \in SUBSET T /\ v # T /\ v \subseteq u
      BY <3>1, <3>2
    <3>4. PICK h : h = CHOOSE x : IsSum(x, w, v)
      OBVIOUS
    <3>5. IsSum(h, w, v)
      BY <1>4, <3>3, <3>4
    <3>6. IsFiniteSet(v)
      BY <1>2, <3>3, FS_Subset
    <3>7. g[v] = h[v]
      BY <2>2, <3>3, <3>5, <3>6, SumsAgree
    <3> QED
      BY <3>1, <3>4, <3>7
  <2> QED
    BY <2>2, <2>3, <2>4
<1>6. ASSUME NEW s \in SUBSET T, s # {}
      PROVE  H[s \ {Some(s)}] = G(s \ {Some(s)})
  <2>1. Some(s) \in s
    BY <1>6 DEF Some
  <2>2. s \ {Some(s)} \in SUBSET T /\ s \ {Some(s)} # T
    BY <2>1
  <2>3. H[s \ {Some(s)}] = IF s \ {Some(s)} = {} THEN 0 ELSE
            w[Some(s \ {Some(s)})] + G((s \ {Some(s)}) \ {Some(s \ {Some(s)})})
    BY <2>2
  <2> HIDE DEF G
  <2> QED
    BY <1>5, <2>2, <2>3
<1>7. IsSum(H, w, T)
  <2> HIDE DEF G
  <2>1. H = [s \in SUBSET T |-> IF s = {} THEN 0 ELSE w[Some(s)] + G(s \ {Some(s)})]
    OBVIOUS
  <2> HIDE DEF H
  <2>2. [s \in SUBSET T |-> IF s = {} THEN 0 ELSE w[Some(s)] + G(s \ {Some(s)})]
        = [s \in SUBSET T |-> IF s = {} THEN 0 ELSE w[Some(s)] + H[s \ {Some(s)}]]
    BY <1>6
  <2> QED
    BY <2>1, <2>2 DEF IsSum
<1> QED
  BY <1>7

\* A sum is the amount of one element, and the sum over the others.
LEMMA SumUnfolds ==
    ASSUME NEW w, NEW S, IsFiniteSet(S)
    PROVE  SumOver(w, S) = IF S = {} THEN 0 ELSE w[Some(S)] + SumOver(w, S \ {Some(S)})
<1>1. PICK g : g = CHOOSE x : IsSum(x, w, S)
  OBVIOUS
<1>2. IsSum(g, w, S) /\ SumOver(w, S) = g[S]
  BY <1>1, SumExists, SumOverIs
<1>3. g[S] = IF S = {} THEN 0 ELSE w[Some(S)] + g[S \ {Some(S)}]
  BY <1>2 DEF IsSum
<1>4. g[S \ {Some(S)}] = SumOver(w, S \ {Some(S)})
  <2>1. PICK T : T = S \ {Some(S)}
    OBVIOUS
  <2>2. T \subseteq S /\ IsFiniteSet(T)
    BY <2>1, FS_Subset
  <2>3. PICK h : h = CHOOSE x : IsSum(x, w, T)
    OBVIOUS
  <2>4. IsSum(h, w, T) /\ SumOver(w, T) = h[T]
    BY <2>2, <2>3, SumExists, SumOverIs
  <2>5. g[T] = h[T]
    BY <1>2, <2>2, <2>4, SumsAgree
  <2> QED
    BY <2>1, <2>4, <2>5
<1> QED
  BY <1>2, <1>3, <1>4

\* A sum of natural numbers is one.
LEMMA SumIsNatural ==
    ASSUME NEW w, NEW S, IsFiniteSet(S), \A x \in S : w[x] \in Nat
    PROVE  SumOver(w, S) \in Nat
<1> DEFINE Bad == {s \in SUBSET S : SumOver(w, s) \notin Nat}
<1> SUFFICES ASSUME Bad # {} PROVE FALSE
  OBVIOUS
<1>1. Bad # {}
  OBVIOUS
<1>2. \A s \in Bad : IsFiniteSet(s)
  BY FS_Subset
<1>3. PICK s \in Bad : \A u \in Bad : u \subseteq s => u = s
  <2> HIDE DEF Bad
  <2> QED
    BY <1>1, <1>2, SmallestSetExists
<1>4. SumOver(w, s) = IF s = {} THEN 0 ELSE w[Some(s)] + SumOver(w, s \ {Some(s)})
  BY <1>2, SumUnfolds
<1>5. s # {}
  BY <1>4
<1>6. Some(s) \in s
  BY <1>5 DEF Some
<1>7. s \ {Some(s)} \notin Bad
  BY <1>3, <1>6
<1>8. SumOver(w, s \ {Some(s)}) \in Nat /\ w[Some(s)] \in Nat
  BY <1>6, <1>7
<1> QED
  BY <1>4, <1>5, <1>8

\* Any element may come first.
LEMMA SumTakesAny ==
    ASSUME NEW w, NEW S, IsFiniteSet(S), \A x \in S : w[x] \in Nat, NEW e \in S
    PROVE  SumOver(w, S) = w[e] + SumOver(w, S \ {e})
<1> DEFINE Fails(s) == \E x \in s : SumOver(w, s) # w[x] + SumOver(w, s \ {x})
           Bad == {s \in SUBSET S : Fails(s)}
<1> SUFFICES ASSUME Bad # {} PROVE FALSE
  OBVIOUS
<1>1. Bad # {}
  OBVIOUS
<1>2. \A s \in Bad : IsFiniteSet(s)
  BY FS_Subset
<1>3. PICK s \in Bad : \A u \in Bad : u \subseteq s => u = s
  <2> HIDE DEF Bad
  <2> QED
    BY <1>1, <1>2, SmallestSetExists
<1>4. PICK x \in s : SumOver(w, s) # w[x] + SumOver(w, s \ {x})
  OBVIOUS
<1>5. PICK c : c = Some(s)
  OBVIOUS
<1>6. c \in s
  BY <1>4, <1>5 DEF Some
<1>7. SumOver(w, s) = w[c] + SumOver(w, s \ {c})
  BY <1>2, <1>4, <1>5, SumUnfolds
<1>8. x # c
  BY <1>4, <1>7
<1>9. SumOver(w, s \ {c}) = w[x] + SumOver(w, (s \ {c}) \ {x})
  <2>1. s \ {c} \notin Bad
    BY <1>3, <1>6
  <2> QED
    BY <1>8, <2>1
<1>10. SumOver(w, s \ {x}) = w[c] + SumOver(w, (s \ {x}) \ {c})
  <2>1. s \ {x} \notin Bad
    BY <1>3
  <2> QED
    BY <1>6, <1>8, <2>1
<1>11. PICK rest : rest = (s \ {x}) \ {c} /\ rest = (s \ {c}) \ {x}
  OBVIOUS
<1>12. /\ w[x] \in Nat /\ w[c] \in Nat
       /\ SumOver(w, rest) \in Nat
  <2>1. rest \subseteq S /\ IsFiniteSet(rest)
    BY <1>2, <1>11, FS_Subset
  <2> QED
    BY <1>6, <2>1, SumIsNatural
<1>13. SumOver(w, s \ {c}) = w[x] + SumOver(w, rest)
  BY <1>9, <1>11
<1>14. SumOver(w, s \ {x}) = w[c] + SumOver(w, rest)
  BY <1>10, <1>11
<1>15. SumOver(w, s) = w[c] + (w[x] + SumOver(w, rest))
  BY <1>7, <1>13
<1>16. SumOver(w, s) # w[x] + (w[c] + SumOver(w, rest))
  BY <1>4, <1>14
<1> QED
  <2> HIDE DEF Bad
  <2> QED
    BY <1>12, <1>15, <1>16

\* Amounts that find room in others, each in one of its own, sum to no more.
LEMMA SumInjects ==
    ASSUME NEW S, IsFiniteSet(S), NEW T, IsFiniteSet(T), NEW w, NEW v,
           \A x \in S : w[x] \in Nat, \A y \in T : v[y] \in Nat,
           NEW g, \A x \in S : g[x] \in T, \A x, y \in S : g[x] = g[y] => x = y,
           \A x \in S : w[x] <= v[g[x]]
    PROVE  SumOver(w, S) <= SumOver(v, T)
<1> DEFINE Fails(s, t) == (\A x \in s : g[x] \in t) /\ ~(SumOver(w, s) <= SumOver(v, t))
           Bad == {s \in SUBSET S : \E t \in SUBSET T : Fails(s, t)}
<1> SUFFICES ASSUME Bad # {} PROVE FALSE
  <2>1. ~Fails(S, T) => SumOver(w, S) <= SumOver(v, T)
    OBVIOUS
  <2>2. Fails(S, T) => S \in Bad
    OBVIOUS
  <2> QED
    BY <2>1, <2>2
<1>1. Bad # {}
  OBVIOUS
<1>2. \A s \in Bad : IsFiniteSet(s)
  BY FS_Subset
<1>3. PICK s \in Bad : \A u \in Bad : u \subseteq s => u = s
  <2> HIDE DEF Bad
  <2> QED
    BY <1>1, <1>2, SmallestSetExists
<1>4. PICK t \in SUBSET T : Fails(s, t)
  OBVIOUS
<1>5. IsFiniteSet(s) /\ s \subseteq S /\ IsFiniteSet(t)
  BY FS_Subset
<1>6. SumOver(w, s) \in Nat /\ SumOver(v, t) \in Nat
  <2>1. (\A x \in s : w[x] \in Nat) /\ (\A y \in t : v[y] \in Nat)
    BY <1>5
  <2> QED
    BY <1>5, <2>1, SumIsNatural
<1>7. s # {}
  <2>1. s = {} => SumOver(w, s) = 0
    BY <1>5, SumUnfolds
  <2> QED
    BY <1>4, <1>6, <2>1
<1>8. PICK x \in s : TRUE
  BY <1>7
<1>9. PICK y \in t : y = g[x]
  BY <1>4
<1>10. SumOver(w, s \ {x}) <= SumOver(v, t \ {y})
  <2>1. \A z \in s \ {x} : g[z] \in t \ {y}
    BY <1>4, <1>5, <1>9
  <2>2. s \ {x} \notin Bad
    BY <1>3
  <2>3. s \ {x} \in SUBSET S /\ t \ {y} \in SUBSET T
    OBVIOUS
  <2>4. ~Fails(s \ {x}, t \ {y})
    BY <2>2, <2>3
  <2> QED
    BY <2>1, <2>4
<1>11. SumOver(w, s) = w[x] + SumOver(w, s \ {x}) /\ SumOver(v, t) = v[y] + SumOver(v, t \ {y})
  <2>1. (\A z \in s : w[z] \in Nat) /\ (\A z \in t : v[z] \in Nat)
    BY <1>5
  <2> QED
    BY <1>5, <2>1, SumTakesAny
<1>12. SumOver(w, s \ {x}) \in Nat /\ SumOver(v, t \ {y}) \in Nat
  <2>1. IsFiniteSet(s \ {x}) /\ IsFiniteSet(t \ {y})
    BY <1>5, FS_Subset
  <2>2. (\A z \in s \ {x} : w[z] \in Nat) /\ (\A z \in t \ {y} : v[z] \in Nat)
    BY <1>5
  <2> QED
    BY <2>1, <2>2, SumIsNatural
<1>13. w[x] \in Nat /\ v[y] \in Nat /\ w[x] <= v[y]
  BY <1>5, <1>9
<1>14. SumOver(w, s) <= SumOver(v, t)
  BY <1>10, <1>11, <1>12, <1>13
<1> QED
  BY <1>4, <1>14

\* What bounds each amount bounds the sum.
LEMMA SumsScale ==
    ASSUME NEW S, IsFiniteSet(S), NEW w, NEW v, NEW a \in Nat, NEW b \in Nat, NEW c \in Nat,
           \A x \in S : w[x] \in Nat /\ v[x] \in Nat /\ a * w[x] <= b * v[x] + c
    PROVE  a * SumOver(w, S) <= b * SumOver(v, S) + c * Cardinality(S)
<1> DEFINE Fails(s) == ~(a * SumOver(w, s) <= b * SumOver(v, s) + c * Cardinality(s))
           Bad == {s \in SUBSET S : Fails(s)}
<1> SUFFICES ASSUME Bad # {} PROVE FALSE
  OBVIOUS
<1>1. Bad # {}
  OBVIOUS
<1>2. \A s \in Bad : IsFiniteSet(s)
  BY FS_Subset
<1>3. PICK s \in Bad : \A u \in Bad : u \subseteq s => u = s
  <2> HIDE DEF Bad
  <2> QED
    BY <1>1, <1>2, SmallestSetExists
<1>4. IsFiniteSet(s) /\ s \in SUBSET S /\ Fails(s)
  BY <1>2
<1>5. s # {}
  <2>1. ASSUME s = {}
        PROVE  FALSE
    <3>1. SumOver(w, s) = 0 /\ SumOver(v, s) = 0
      BY <1>4, <2>1, SumUnfolds
    <3>2. Cardinality(s) = 0
      BY <2>1, FS_EmptySet
    <3>3. a * 0 = 0 /\ b * 0 = 0 /\ c * 0 = 0
      OBVIOUS
    <3> QED
      BY <1>4, <3>1, <3>2, <3>3
  <2> QED
    BY <2>1
<1>6. PICK x \in s : TRUE
  BY <1>5
<1>7. PICK rest \in SUBSET S : rest = s \ {x}
  BY <1>4
<1>8. IsFiniteSet(rest) /\ Cardinality(s) = Cardinality(rest) + 1
  <2>1. IsFiniteSet(s) /\ x \in s
    BY <1>4
  <2>2. IsFiniteSet(s \ {x}) /\ Cardinality(s \ {x}) = Cardinality(s) - 1
    BY <2>1, FS_RemoveElement
  <2>3. Cardinality(s) \in Nat
    BY <2>1, FS_CardinalityType
  <2> HIDE DEF Bad
  <2> QED
    BY <1>7, <2>2, <2>3
<1>9. ~Fails(rest)
  <2>1. rest \notin Bad
    BY <1>3, <1>6, <1>7
  <2> QED
    BY <2>1
<1>10. PICK sum \in Nat, other \in Nat, n \in Nat :
           sum = SumOver(w, rest) /\ other = SumOver(v, rest) /\ n = Cardinality(rest)
  <2>1. (\A z \in rest : w[z] \in Nat) /\ (\A z \in rest : v[z] \in Nat)
    BY <1>7
  <2>2. SumOver(w, rest) \in Nat /\ SumOver(v, rest) \in Nat /\ Cardinality(rest) \in Nat
    BY <1>8, <2>1, SumIsNatural, FS_CardinalityType
  <2> QED
    BY <2>2
<1>11. PICK one \in Nat, uno \in Nat : one = w[x] /\ uno = v[x] /\ a * one <= b * uno + c
  BY <1>4, <1>6
<1>12. SumOver(w, s) = one + sum /\ SumOver(v, s) = uno + other
  <2>1. (\A z \in s : w[z] \in Nat) /\ (\A z \in s : v[z] \in Nat)
    BY <1>4
  <2> QED
    BY <1>4, <1>6, <1>7, <1>10, <1>11, <2>1, SumTakesAny
<1>13. a * sum <= b * other + c * n
  BY <1>9, <1>10
<1>14. a * (one + sum) <= b * (uno + other) + c * (n + 1)
  <2>1. a * (one + sum) = a * one + a * sum
    OBVIOUS
  <2>2. b * (uno + other) = b * uno + b * other
    OBVIOUS
  <2>3. c * (n + 1) = c * n + c
    OBVIOUS
  <2> QED
    BY <1>11, <1>13, <2>1, <2>2, <2>3
<1>15. ~Fails(s)
  <2>1. Cardinality(s) = n + 1
    BY <1>8, <1>10
  <2> HIDE DEF Bad
  <2> QED
    BY <1>12, <1>14, <2>1, Zenon
<1> QED
  BY <1>4, <1>15

----------------------------------------------------------------------------
(* Ranks.                                                                  *)

\* S is strictly ordered: before[x] is what comes before x.
IsOrder(before, S) ==
    /\ before \in [S -> SUBSET S]
    /\ \A x \in S : x \notin before[x]
    /\ \A x, y \in S : x = y \/ x \in before[y] \/ y \in before[x]
    /\ \A x, y \in S : x \in before[y] => before[x] \subseteq before[y]

LEMMA RanksAscend ==
    ASSUME NEW S, IsFiniteSet(S), NEW before, IsOrder(before, S),
           NEW x \in S, NEW y \in S, x \in before[y]
    PROVE  /\ Cardinality(before[x]) \in Nat /\ Cardinality(before[y]) \in Nat
           /\ Cardinality(before[x]) < Cardinality(before[y])
<1>1. PICK A : A = before[x]
  OBVIOUS
<1>2. PICK B : B = before[y]
  OBVIOUS
<1>3. A \subseteq B /\ A # B /\ B \subseteq S
  BY <1>1, <1>2 DEF IsOrder
<1>4. IsFiniteSet(B) /\ Cardinality(B) \in Nat
  BY <1>3, FS_Subset, FS_CardinalityType
<1>5. IsFiniteSet(A) /\ Cardinality(A) \in Nat
  BY <1>3, <1>4, FS_Subset, FS_CardinalityType
<1>6. Cardinality(A) <= Cardinality(B) /\ Cardinality(A) # Cardinality(B)
  BY <1>3, <1>4, FS_Subset
<1> QED
  BY <1>1, <1>2, <1>4, <1>5, <1>6

\* As many things as there are take every rank there is.
LEMMA EveryRankIsTaken ==
    ASSUME NEW S, IsFiniteSet(S), NEW before, IsOrder(before, S),
           NEW n \in Nat, n < Cardinality(S)
    PROVE  \E x \in S : Cardinality(before[x]) = n
<1>1. PICK size \in Nat : size = Cardinality(S)
  BY FS_CardinalityType
<1>2. PICK zero \in Int, last \in Int : zero = 0 /\ last = size - 1
  OBVIOUS
<1> DEFINE rank == [x \in S |-> Cardinality(before[x])]
<1>3. IsFiniteSet(zero..last) /\ Cardinality(zero..last) = size
  BY <1>1, <1>2, FS_Interval
<1>4. ASSUME NEW x \in S
      PROVE  rank[x] \in zero..last
  <2>1. before[x] \subseteq S \ {x}
    BY DEF IsOrder
  <2>2. IsFiniteSet(S \ {x}) /\ Cardinality(S \ {x}) = size - 1
    BY <1>1, FS_RemoveElement
  <2>3. IsFiniteSet(before[x]) /\ Cardinality(before[x]) <= Cardinality(S \ {x})
    BY <2>1, <2>2, FS_Subset
  <2>4. Cardinality(before[x]) \in Nat
    BY <2>3, FS_CardinalityType
  <2> QED
    BY <1>2, <2>2, <2>3, <2>4
<1>5. ASSUME NEW x \in S, NEW y \in S, rank[x] = rank[y]
      PROVE  x = y
  <2>1. x \in before[y] => FALSE
    BY <1>5, RanksAscend
  <2>2. y \in before[x] => FALSE
    BY <1>5, RanksAscend
  <2> QED
    BY <2>1, <2>2 DEF IsOrder
<1>6. rank \in Injection(S, zero..last)
  BY <1>4, <1>5 DEF Injection, IsInjective
<1>7. rank \in Surjection(S, zero..last)
  <2> HIDE DEF rank
  <2> QED
    BY <1>1, <1>3, <1>6, FS_Injection
<1>8. n \in zero..last
  BY <1>1, <1>2
<1>9. PICK x \in S : rank[x] = n
  <2> HIDE DEF rank
  <2> QED
    BY <1>7, <1>8 DEF Surjection
<1> QED
  BY <1>9

\* Of things in order, those with fewer than n before them are n, or all of them.
LEMMA FirstFew ==
    ASSUME NEW S, IsFiniteSet(S), NEW before, IsOrder(before, S), NEW n \in Nat,
           NEW first, first = {x \in S : Cardinality(before[x]) < n}
    PROVE  /\ IsFiniteSet(first)
           /\ Cardinality(first) = IF n <= Cardinality(S) THEN n ELSE Cardinality(S)
<1>1. PICK size \in Nat : size = Cardinality(S)
  BY FS_CardinalityType
<1>2. PICK m \in Nat : m = IF n <= size THEN n ELSE size
  OBVIOUS
<1>3. PICK zero \in Int, last \in Int : zero = 0 /\ last = m - 1
  OBVIOUS
<1> DEFINE rank == [x \in first |-> Cardinality(before[x])]
<1>4. IsFiniteSet(zero..last) /\ Cardinality(zero..last) = m
  BY <1>2, <1>3, FS_Interval
<1>5. ASSUME NEW x \in S
      PROVE  Cardinality(before[x]) \in 0..(size - 1)
  <2>1. before[x] \subseteq S \ {x}
    BY DEF IsOrder
  <2>2. IsFiniteSet(S \ {x}) /\ Cardinality(S \ {x}) = size - 1
    BY <1>1, FS_RemoveElement
  <2>3. IsFiniteSet(before[x]) /\ Cardinality(before[x]) <= Cardinality(S \ {x})
    BY <2>1, <2>2, FS_Subset
  <2>4. Cardinality(before[x]) \in Nat
    BY <2>3, FS_CardinalityType
  <2> QED
    BY <2>2, <2>3, <2>4
<1>6. \A x \in first : rank[x] \in zero..last
  BY <1>2, <1>3, <1>5
<1>7. ASSUME NEW x \in first, NEW y \in first, rank[x] = rank[y]
      PROVE  x = y
  <2>1. x \in S /\ y \in S
    OBVIOUS
  <2>2. x \in before[y] => FALSE
    BY <1>7, <2>1, RanksAscend
  <2>3. y \in before[x] => FALSE
    BY <1>7, <2>1, RanksAscend
  <2> QED
    BY <2>1, <2>2, <2>3 DEF IsOrder
<1>8. ASSUME NEW k \in zero..last
      PROVE  \E x \in first : rank[x] = k
  <2>1. k \in Nat /\ k < size /\ k < n
    BY <1>2, <1>3
  <2>2. PICK x \in S : Cardinality(before[x]) = k
    BY <1>1, <2>1, EveryRankIsTaken
  <2> QED
    BY <2>1, <2>2
<1>9. rank \in Bijection(first, zero..last)
  <2>1. rank \in Injection(first, zero..last)
    BY <1>6, <1>7 DEF Injection, IsInjective
  <2>2. rank \in Surjection(first, zero..last)
    BY <1>6, <1>8 DEF Surjection
  <2> QED
    BY <2>1, <2>2 DEF Bijection
<1>10. IsFiniteSet(first)
  BY FS_Subset
<1>11. Cardinality(first) = m
  <2> HIDE DEF rank
  <2>1. ExistsBijection(first, zero..last)
    BY <1>9 DEF ExistsBijection
  <2>2. Cardinality(first) = Cardinality(zero..last)
    BY <1>10, <2>1, FS_Bijection
  <2> QED
    BY <1>4, <2>2
<1> QED
  BY <1>1, <1>2, <1>10, <1>11

----------------------------------------------------------------------------
(* Division.                                                               *)

\* What a quotient rounded down is.
LEMMA QuotientIs ==
    ASSUME NEW a \in Nat, NEW b \in Nat, b > 0
    PROVE  \E k \in Nat, i \in Nat : k = a \div b /\ a = b * k + i /\ i < b
<1>1. PICK k \in Int, i \in 0..(b - 1) : k = a \div b /\ a = b * k + i
  OBVIOUS
<1>2. k >= 0
  <2>1. k <= -1 => b * k <= -b
    OBVIOUS
  <2> QED
    BY <1>1, <2>1
<1> QED
  BY <1>1, <1>2

\* The order of fractions is kept when they are rounded down.
LEMMA FractionGrows ==
    ASSUME NEW a \in Nat, NEW b \in Nat, b > 0, NEW c \in Nat, NEW d \in Nat, d > 0,
           a * d <= c * b
    PROVE  a \div b <= c \div d
<1>1. PICK k \in Int : k = a \div b /\ b * k <= a /\ a < b * (k + 1)
  OBVIOUS
<1>2. PICK l \in Int : l = c \div d /\ d * l <= c /\ c < d * (l + 1)
  OBVIOUS
<1> SUFFICES ASSUME k > l PROVE FALSE
  BY <1>1, <1>2
<1>3. PICK m \in Int : m = l + 1 /\ k >= m
  BY <1>1
<1>4. (c * b) < (d * m) * b
  BY <1>2, <1>3
<1>5. (b * k) * d <= a * d
  BY <1>1
<1>6. (b * m) * d <= (b * k) * d
  <2>1. b * m <= b * k
    BY <1>3
  <2> QED
    BY <2>1
<1>7. (b * m) * d = (d * m) * b
  OBVIOUS
<1> QED
  BY <1>4, <1>5, <1>6, <1>7

LEMMA QuotientGrows ==
    ASSUME NEW a \in Nat, NEW b \in Nat, a <= b, NEW n \in Nat, NEW m \in Nat, m > 0, m <= n
    PROVE  a \div n <= b \div m
<1>1. a * m <= b * n
  <2>1. a * m <= b * m
    OBVIOUS
  <2>2. b * m <= b * n
    OBVIOUS
  <2> QED
    BY <2>1, <2>2
<1>2. n > 0
  OBVIOUS
<1> QED
  BY <1>1, <1>2, FractionGrows

----------------------------------------------------------------------------
(* Powers, as a recursive function.                                        *)

ArePowers(p, b, n) == p = [i \in 0..n |-> IF i = 0 THEN 1 ELSE b * p[i - 1]]

LEMMA FewPowersExist ==
    ASSUME NEW b, NEW n \in Nat
    PROVE  \E p : ArePowers(p, b, n)
<1> DEFINE Bad == {m \in Nat : ~\E p : ArePowers(p, b, m)}
<1> SUFFICES ASSUME Bad # {} PROVE FALSE
  OBVIOUS
<1>1. PICK m \in Bad : \A k \in Bad : m <= k
  <2>1. Bad \in SUBSET Nat /\ Bad # {}
    OBVIOUS
  <2> HIDE DEF Bad
  <2> QED
    BY <2>1, LeastNumberExists
<1>2. CASE m = 0
  <2>1. ArePowers([i \in 0..0 |-> 1], b, 0)
    BY DEF ArePowers
  <2> QED
    BY <1>2, <2>1
<1>3. CASE m # 0
  <2>1. m - 1 \in Nat /\ m - 1 \notin Bad
    BY <1>1, <1>3
  <2>2. PICK p : ArePowers(p, b, m - 1)
    BY <2>1
  <2> DEFINE q == [i \in 0..m |-> IF i = m THEN b * p[m - 1] ELSE p[i]]
  <2>3. ASSUME NEW i \in 0..m
        PROVE  q[i] = IF i = 0 THEN 1 ELSE b * q[i - 1]
    <3>1. CASE i = m
      BY <1>3, <3>1
    <3>2. CASE i # m
      <4>1. i \in 0..(m - 1)
        BY <3>2
      <4>2. p[i] = IF i = 0 THEN 1 ELSE b * p[i - 1]
        BY <2>2, <4>1 DEF ArePowers
      <4> QED
        BY <3>2, <4>1, <4>2
    <3> QED
      BY <3>1, <3>2
  <2>4. q = [i \in 0..m |-> IF i = 0 THEN 1 ELSE b * q[i - 1]]
    <3>1. DOMAIN q = 0..m /\ q = [i \in 0..m |-> q[i]]
      OBVIOUS
    <3> HIDE DEF q
    <3> QED
      BY <2>3, <3>1
  <2>5. ArePowers(q, b, m)
    <3> HIDE DEF q
    <3> QED
      BY <2>4 DEF ArePowers
  <2> QED
    BY <2>5
<1> QED
  BY <1>2, <1>3

LEMMA PowersAgree ==
    ASSUME NEW b, NEW n \in Nat, NEW m \in Nat, NEW p, NEW q,
           ArePowers(p, b, n), ArePowers(q, b, m), NEW i \in Nat, i <= n, i <= m
    PROVE  p[i] = q[i]
<1> DEFINE Bad == {k \in Nat : k <= n /\ k <= m /\ p[k] # q[k]}
<1> SUFFICES ASSUME Bad # {} PROVE FALSE
  OBVIOUS
<1>1. PICK k \in Bad : \A j \in Bad : k <= j
  <2>1. Bad \in SUBSET Nat /\ Bad # {}
    OBVIOUS
  <2> HIDE DEF Bad
  <2> QED
    BY <2>1, LeastNumberExists
<1>2. /\ p[k] = IF k = 0 THEN 1 ELSE b * p[k - 1]
      /\ q[k] = IF k = 0 THEN 1 ELSE b * q[k - 1]
  BY DEF ArePowers
<1>3. k # 0
  BY <1>2
<1>4. k - 1 \in Nat /\ k - 1 \notin Bad
  BY <1>1, <1>3
<1>5. p[k - 1] = q[k - 1]
  BY <1>4
<1> QED
  BY <1>2, <1>3, <1>5

\* The recursive function of the powers of a number exists, or CHOOSE would find none.
LEMMA PowersExist ==
    ASSUME NEW b
    PROVE  \E f : f = [i \in Nat |-> IF i = 0 THEN 1 ELSE b * f[i - 1]]
<1> DEFINE P(n) == CHOOSE p : ArePowers(p, b, n)
           f == [n \in Nat |-> P(n)[n]]
<1>1. ASSUME NEW n \in Nat
      PROVE  ArePowers(P(n), b, n)
  BY FewPowersExist
<1>2. ASSUME NEW i \in Nat
      PROVE  f[i] = IF i = 0 THEN 1 ELSE b * f[i - 1]
  <2>1. PICK p : p = P(i)
    OBVIOUS
  <2>2. ArePowers(p, b, i) /\ f[i] = p[i]
    BY <1>1, <2>1
  <2>3. p[i] = IF i = 0 THEN 1 ELSE b * p[i - 1]
    BY <2>2 DEF ArePowers
  <2>4. ASSUME i # 0
        PROVE  p[i - 1] = f[i - 1]
    <3>1. PICK j \in Nat : j = i - 1
      BY <2>4
    <3>2. PICK q : q = P(j)
      OBVIOUS
    <3>3. ArePowers(q, b, j) /\ f[j] = q[j]
      BY <1>1, <3>2
    <3>4. p[j] = q[j]
      BY <2>2, <3>1, <3>3, PowersAgree
    <3> QED
      BY <3>1, <3>3, <3>4
  <2> HIDE DEF f
  <2> QED
    BY <2>2, <2>3, <2>4
<1>3. f = [i \in Nat |-> f[i]]
  OBVIOUS
<1> HIDE DEF f
<1>4. f = [i \in Nat |-> IF i = 0 THEN 1 ELSE b * f[i - 1]]
  BY <1>2, <1>3
<1> QED
  BY <1>4
====
