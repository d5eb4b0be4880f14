---- MODULE DatasetProofs ----
(***************************************************************************)
(* Proofs about the dataset, for any commands, any extracts of HR and any  *)
(* policy: what selecting, flattening and sorting sequences does; what the *)
(* mappers and the policy make of a row; what a command writes; and what a *)
(* run that no command overlaps reads.                                     *)
(***************************************************************************)
EXTENDS Dataset, NumberFacts, SequenceTheorems

----------------------------------------------------------------------------
(* FlattenSeq, the community module's recursive function.                  *)

\* flat[i] is the first i sequences of ss, one after another.
IsFlat(flat, ss, n) ==
    flat = [i \in 1..n |-> IF i = 1 THEN ss[i] ELSE flat[i - 1] \o ss[i]]

LEMMA FlattenIs ==
    ASSUME NEW ss, Len(ss) # 0
    PROVE  FlattenSeq(ss) = (CHOOSE flat : IsFlat(flat, ss, Len(ss)))[Len(ss)]
BY DEF FlattenSeq, IsFlat

LEMMA FlatStep ==
    ASSUME NEW flat, NEW ss, NEW n \in Nat, IsFlat(flat, ss, n), NEW i \in 1..n
    PROVE  flat[i] = IF i = 1 THEN ss[i] ELSE flat[i - 1] \o ss[i]
BY DEF IsFlat

LEMMA FlatExists ==
    ASSUME NEW ss, NEW n \in Nat
    PROVE  \E flat : IsFlat(flat, ss, n)
<1> DEFINE Bad == {m \in Nat : ~\E flat : IsFlat(flat, ss, m)}
<1> SUFFICES ASSUME Bad # {} PROVE FALSE
  OBVIOUS
<1>1. PICK m \in Bad : \A k \in Bad : m <= k
  <2>1. Bad \in SUBSET Nat /\ Bad # {}
    OBVIOUS
  <2> HIDE DEF Bad
  <2> QED
    BY <2>1, LeastNumberExists
<1>2. CASE m = 0
  <2>1. IsFlat([i \in 1..0 |-> ss[i]], ss, 0)
    BY DEF IsFlat
  <2> QED
    BY <1>2, <2>1
<1>3. CASE m # 0
  <2>1. m - 1 \in Nat /\ m - 1 \notin Bad
    BY <1>1, <1>3
  <2>2. PICK flat : IsFlat(flat, ss, m - 1)
    BY <2>1
  <2> DEFINE more == [i \in 1..m |-> IF i = m
                        THEN IF m = 1 THEN ss[m] ELSE flat[m - 1] \o ss[m] ELSE flat[i]]
  <2>3. ASSUME NEW i \in 1..m
        PROVE  more[i] = IF i = 1 THEN ss[i] ELSE more[i - 1] \o ss[i]
    <3>1. CASE i = m
      BY <1>3, <3>1
    <3>2. CASE i # m
      <4>1. i \in 1..(m - 1)
        BY <3>2
      <4>2. flat[i] = IF i = 1 THEN ss[i] ELSE flat[i - 1] \o ss[i]
        BY <1>3, <2>1, <2>2, <4>1, FlatStep
      <4> QED
        BY <3>2, <4>1, <4>2
    <3> QED
      BY <3>1, <3>2
  <2>4. IsFlat(more, ss, m)
    <3>1. more = [i \in 1..m |-> more[i]]
      OBVIOUS
    <3> HIDE DEF more
    <3> QED
      BY <2>3, <3>1 DEF IsFlat
  <2> QED
    BY <2>4
<1> QED
  BY <1>2, <1>3

Agree(f, g, n) == \A i \in 1..n : f[i] = g[i]

\* Of sequences that begin alike, the beginnings are flattened alike.
LEMMA FlatsAgree ==
    ASSUME NEW ss, NEW tt, NEW n \in Nat, NEW m \in Nat, NEW f, NEW g,
           IsFlat(f, ss, n), IsFlat(g, tt, m), n <= m, Agree(ss, tt, n)
    PROVE  Agree(f, g, n)
<1> DEFINE Bad == {k \in 1..n : f[k] # g[k]}
<1> SUFFICES ASSUME Bad # {} PROVE FALSE
  BY DEF Agree
<1>1. PICK k \in Bad : \A j \in Bad : k <= j
  <2>1. Bad \in SUBSET Nat /\ Bad # {}
    OBVIOUS
  <2> HIDE DEF Bad
  <2> QED
    BY <2>1, LeastNumberExists
<1>2. /\ f[k] = IF k = 1 THEN ss[k] ELSE f[k - 1] \o ss[k]
      /\ g[k] = IF k = 1 THEN tt[k] ELSE g[k - 1] \o tt[k]
  <2>1. k \in 1..n /\ k \in 1..m
    OBVIOUS
  <2> QED
    BY <2>1, FlatStep
<1>3. k # 1 /\ ss[k] = tt[k]
  BY <1>2 DEF Agree
<1>4. k - 1 \in 1..n /\ k - 1 \notin Bad
  BY <1>1, <1>3
<1>5. f[k - 1] = g[k - 1]
  BY <1>4
<1> QED
  BY <1>2, <1>3, <1>5

LEMMA FlattenIsLast ==
    ASSUME NEW S, NEW ss \in Seq(S), ss # <<>>
    PROVE  \E flat : IsFlat(flat, ss, Len(ss)) /\ FlattenSeq(ss) = flat[Len(ss)]
<1>1. Len(ss) \in Nat /\ Len(ss) # 0
  BY EmptySeq
<1>2. PICK flat : flat = CHOOSE f : IsFlat(f, ss, Len(ss))
  OBVIOUS
<1>3. IsFlat(flat, ss, Len(ss))
  BY <1>1, <1>2, FlatExists
<1> QED
  BY <1>1, <1>2, <1>3, FlattenIs

LEMMA FlattenNothing == FlattenSeq(<<>>) = <<>>
BY DEF FlattenSeq

LEMMA FlatTyped ==
    ASSUME NEW S, NEW ss \in Seq(Seq(S)), NEW flat, IsFlat(flat, ss, Len(ss)),
           NEW i \in 1..Len(ss)
    PROVE  flat[i] \in Seq(S)
<1> DEFINE Bad == {k \in 1..Len(ss) : flat[k] \notin Seq(S)}
<1> SUFFICES ASSUME Bad # {} PROVE FALSE
  OBVIOUS
<1>1. PICK k \in Bad : \A j \in Bad : k <= j
  <2>1. Bad \in SUBSET Nat /\ Bad # {}
    BY LenProperties
  <2> HIDE DEF Bad
  <2> QED
    BY <2>1, LeastNumberExists
<1>2. k \in 1..Len(ss) /\ Len(ss) \in Nat /\ ss[k] \in Seq(S)
  BY LenProperties, ElementOfSeq
<1>3. flat[k] = IF k = 1 THEN ss[k] ELSE flat[k - 1] \o ss[k]
  BY <1>2, FlatStep
<1>4. k # 1
  BY <1>2, <1>3
<1>5. k - 1 \in 1..Len(ss) /\ k - 1 \notin Bad
  BY <1>1, <1>2, <1>4
<1>6. flat[k - 1] \in Seq(S)
  BY <1>5
<1>7. flat[k - 1] \o ss[k] \in Seq(S)
  BY <1>2, <1>6, ConcatProperties
<1> QED
  BY <1>3, <1>4, <1>7

LEMMA FlattenTyped ==
    ASSUME NEW S, NEW ss \in Seq(Seq(S))
    PROVE  FlattenSeq(ss) \in Seq(S)
<1>1. CASE ss = <<>>
  BY <1>1, FlattenNothing, EmptySeq
<1>2. CASE ss # <<>>
  <2>1. PICK flat : IsFlat(flat, ss, Len(ss)) /\ FlattenSeq(ss) = flat[Len(ss)]
    BY <1>2, FlattenIsLast
  <2>2. Len(ss) \in 1..Len(ss)
    BY <1>2, EmptySeq
  <2> QED
    BY <2>1, <2>2, FlatTyped
<1> QED
  BY <1>1, <1>2

LEMMA FlattenAppends ==
    ASSUME NEW S, NEW ss \in Seq(Seq(S)), NEW s \in Seq(S)
    PROVE  FlattenSeq(Append(ss, s)) = FlattenSeq(ss) \o s
<1>1. PICK n \in Nat : n = Len(ss)
  BY LenProperties
<1>2. PICK tt \in Seq(Seq(S)) : tt = Append(ss, s)
  BY AppendProperties
<1>3. Len(tt) = n + 1 /\ tt # <<>> /\ (\A i \in 1..n : tt[i] = ss[i]) /\ tt[n + 1] = s
  BY <1>1, <1>2, AppendProperties
<1>4. PICK g : IsFlat(g, tt, n + 1) /\ FlattenSeq(tt) = g[n + 1]
  BY <1>3, FlattenIsLast
<1>5. g[n + 1] = IF n + 1 = 1 THEN tt[n + 1] ELSE g[n] \o tt[n + 1]
  <2>1. n + 1 \in Nat /\ n + 1 \in 1..(n + 1) /\ n + 1 - 1 = n
    OBVIOUS
  <2>2. g[n + 1] = IF n + 1 = 1 THEN tt[n + 1] ELSE g[n + 1 - 1] \o tt[n + 1]
    BY <1>4, <2>1, FlatStep
  <2> QED
    BY <2>1, <2>2
<1>6. CASE ss = <<>>
  <2>1. n = 0
    BY <1>1, <1>6
  <2> QED
    BY <1>2, <1>3, <1>4, <1>5, <1>6, <2>1, FlattenNothing, ConcatEmptySeq
<1>7. CASE ss # <<>>
  <2>1. n # 0 /\ n \in 1..n
    BY <1>1, <1>7, EmptySeq
  <2>2. PICK f : IsFlat(f, ss, n) /\ FlattenSeq(ss) = f[n]
    BY <1>1, <1>7, FlattenIsLast
  <2>3. f[n] = g[n]
    <3>1. PICK m \in Nat : m = n + 1
      OBVIOUS
    <3>2. IsFlat(g, tt, m) /\ n <= m
      BY <1>4, <3>1
    <3>3. Agree(ss, tt, n)
      BY <1>3 DEF Agree
    <3>4. Agree(f, g, n)
      BY <2>2, <3>2, <3>3, FlatsAgree
    <3> QED
      BY <2>1, <3>4 DEF Agree
  <2> QED
    BY <1>2, <1>3, <1>4, <1>5, <2>1, <2>2, <2>3
<1> QED
  BY <1>6, <1>7

LEMMA FlattenOne ==
    ASSUME NEW S, NEW s \in Seq(S)
    PROVE  FlattenSeq(<<s>>) = s
<1>1. <<s>> = Append(<<>>, s) /\ <<>> \in Seq(Seq(S))
  BY EmptySeq
<1>2. FlattenSeq(<<s>>) = FlattenSeq(<<>>) \o s
  BY <1>1, FlattenAppends
<1>3. <<>> \o s = s
  BY ConcatEmptySeq
<1> QED
  BY <1>2, <1>3, FlattenNothing

\* u and v are the sequences ss and tt one after another, n of each: at each
\* place p is one element, the col[p]-th of the row[p]-th sequence.
LaidOut(u, v, ss, tt, n, row, col) ==
    /\ Len(u) = Len(v)
    /\ \A p \in 1..Len(u) :
           /\ row[p] \in 1..n /\ col[p] \in 1..Len(ss[row[p]])
           /\ u[p] = ss[row[p]][col[p]] /\ v[p] = tt[row[p]][col[p]]
    /\ \A p, q \in 1..Len(u) : row[p] = row[q] /\ col[p] = col[q] => p = q
    /\ \A a \in 1..n : \A b \in 1..Len(ss[a]) : \E p \in 1..Len(u) : row[p] = a /\ col[p] = b

LEMMA OneMoreLaidOut ==
    ASSUME NEW S, NEW u \in Seq(S), NEW v \in Seq(S), NEW s \in Seq(S), NEW t \in Seq(S),
           Len(s) = Len(t), NEW ss, NEW tt, NEW n \in Nat, NEW row, NEW col,
           LaidOut(u, v, ss, tt, n, row, col), ss[n + 1] = s, tt[n + 1] = t
    PROVE  \E r, c : LaidOut(u \o s, v \o t, ss, tt, n + 1, r, c)
<1> DEFINE r == [p \in 1..(Len(u) + Len(s)) |-> IF p <= Len(u) THEN row[p] ELSE n + 1]
           c == [p \in 1..(Len(u) + Len(s)) |-> IF p <= Len(u) THEN col[p] ELSE p - Len(u)]
<1>1. PICK k \in Nat, l \in Nat, m \in Nat : k = Len(u) /\ l = Len(s) /\ m = n + 1
  BY LenProperties
<1>2. Len(v) = k /\ Len(t) = l
  BY <1>1 DEF LaidOut
<1>3. PICK w : w = u \o s
  OBVIOUS
<1>4. PICK x : x = v \o t
  OBVIOUS
<1>5. /\ Len(w) = k + l /\ Len(x) = k + l
      /\ \A p \in 1..(k + l) : w[p] = IF p <= k THEN u[p] ELSE s[p - k]
      /\ \A p \in 1..(k + l) : x[p] = IF p <= k THEN v[p] ELSE t[p - k]
  BY <1>1, <1>2, <1>3, <1>4, ConcatProperties
<1>6. /\ \A p \in 1..(k + l) : r[p] = IF p <= k THEN row[p] ELSE m
      /\ \A p \in 1..(k + l) : c[p] = IF p <= k THEN col[p] ELSE p - k
  BY <1>1
<1>7. /\ \A p \in 1..k : /\ row[p] \in 1..n /\ col[p] \in 1..Len(ss[row[p]])
                         /\ u[p] = ss[row[p]][col[p]] /\ v[p] = tt[row[p]][col[p]]
      /\ \A p, q \in 1..k : row[p] = row[q] /\ col[p] = col[q] => p = q
      /\ \A a \in 1..n : \A b \in 1..Len(ss[a]) : \E p \in 1..k : row[p] = a /\ col[p] = b
  BY <1>1 DEF LaidOut
<1> HIDE DEF r, c
<1>8. ASSUME NEW p \in 1..(k + l)
      PROVE  /\ r[p] \in 1..m /\ c[p] \in 1..Len(ss[r[p]])
             /\ w[p] = ss[r[p]][c[p]] /\ x[p] = tt[r[p]][c[p]]
  <2>1. CASE p <= k
    <3>1. p \in 1..k /\ r[p] = row[p] /\ c[p] = col[p] /\ w[p] = u[p] /\ x[p] = v[p]
      BY <1>5, <1>6, <2>1
    <3> QED
      BY <1>1, <1>7, <3>1
  <2>2. CASE ~(p <= k)
    <3>1. r[p] = m /\ c[p] = p - k /\ w[p] = s[p - k] /\ x[p] = t[p - k]
      BY <1>5, <1>6, <2>2
    <3>2. p - k \in 1..l /\ ss[m] = s /\ tt[m] = t /\ m \in 1..m
      BY <1>1, <2>2
    <3> QED
      BY <1>1, <3>1, <3>2
  <2> QED
    BY <2>1, <2>2
<1>9. ASSUME NEW p \in 1..(k + l), NEW q \in 1..(k + l), r[p] = r[q], c[p] = c[q]
      PROVE  p = q
  <2>1. CASE p <= k /\ q <= k
    BY <1>6, <1>7, <1>9, <2>1
  <2>2. CASE ~(p <= k) /\ ~(q <= k)
    BY <1>6, <1>9, <2>2
  <2>3. CASE p <= k /\ ~(q <= k)
    <3>1. p \in 1..k /\ r[p] = row[p] /\ r[q] = m
      BY <1>6, <2>3
    <3>2. row[p] \in 1..n
      BY <1>7, <3>1
    <3>3. row[p] = m
      BY <1>9, <3>1
    <3> QED
      BY <1>1, <3>2, <3>3
  <2>4. CASE ~(p <= k) /\ q <= k
    <3>1. q \in 1..k /\ r[q] = row[q] /\ r[p] = m
      BY <1>6, <2>4
    <3>2. row[q] \in 1..n
      BY <1>7, <3>1
    <3>3. row[q] = m
      BY <1>9, <3>1
    <3> QED
      BY <1>1, <3>2, <3>3
  <2> QED
    BY <2>1, <2>2, <2>3, <2>4
<1>10. ASSUME NEW a \in 1..m, NEW b \in 1..Len(ss[a])
       PROVE  \E p \in 1..(k + l) : r[p] = a /\ c[p] = b
  <2>1. CASE a \in 1..n
    <3>1. PICK p \in 1..k : row[p] = a /\ col[p] = b
      BY <1>7, <2>1
    <3>2. p \in 1..(k + l) /\ r[p] = a /\ c[p] = b
      BY <1>6, <3>1
    <3> QED
      BY <3>2
  <2>2. CASE a = m
    <3>1. b \in 1..l
      BY <1>1, <2>2
    <3>2. k + b \in 1..(k + l) /\ ~(k + b <= k) /\ k + b - k = b
      BY <3>1
    <3>3. r[k + b] = m /\ c[k + b] = b
      BY <1>6, <3>2
    <3> QED
      BY <2>2, <3>2, <3>3
  <2> QED
    BY <1>1, <2>1, <2>2
<1>11. LaidOut(w, x, ss, tt, m, r, c)
  BY <1>5, <1>8, <1>9, <1>10 DEF LaidOut
<1> QED
  BY <1>1, <1>3, <1>4, <1>11

\* A lay-out knows nothing of the sequences to come.
LEMMA LaidOutAnyway ==
    ASSUME NEW u, NEW v, NEW ss, NEW tt, NEW n \in Nat, NEW row, NEW col,
           LaidOut(u, v, ss, tt, n, row, col),
           NEW ss2, NEW tt2, Agree(ss, ss2, n), Agree(tt, tt2, n)
    PROVE  LaidOut(u, v, ss2, tt2, n, row, col)
<1>1. ASSUME NEW p \in 1..Len(u)
      PROVE  /\ row[p] \in 1..n /\ col[p] \in 1..Len(ss2[row[p]])
             /\ u[p] = ss2[row[p]][col[p]] /\ v[p] = tt2[row[p]][col[p]]
  <2>1. /\ row[p] \in 1..n /\ col[p] \in 1..Len(ss[row[p]])
        /\ u[p] = ss[row[p]][col[p]] /\ v[p] = tt[row[p]][col[p]]
    BY Zenon DEF LaidOut
  <2>2. ss2[row[p]] = ss[row[p]] /\ tt2[row[p]] = tt[row[p]]
    BY <2>1 DEF Agree
  <2> QED
    BY <2>1, <2>2
<1>2. ASSUME NEW a \in 1..n, NEW b \in 1..Len(ss2[a])
      PROVE  \E p \in 1..Len(u) : row[p] = a /\ col[p] = b
  <2>1. b \in 1..Len(ss[a])
    BY DEF Agree
  <2>2. \A i \in 1..n : \A j \in 1..Len(ss[i]) : \E p \in 1..Len(u) : row[p] = i /\ col[p] = j
    BY Zenon DEF LaidOut
  <2> QED
    BY <2>1, <2>2, Zenon
<1> QED
  BY <1>1, <1>2 DEF LaidOut

SameLengths(ss, tt, n) == \A i \in 1..n : Len(ss[i]) = Len(tt[i])

\* Sequences of the same lengths are flattened in the same way.
LEMMA FlattenLaysOut ==
    ASSUME NEW S, NEW n \in Nat, NEW ss \in Seq(Seq(S)), NEW tt \in Seq(Seq(S)),
           Len(ss) = n, Len(tt) = n, SameLengths(ss, tt, n)
    PROVE  \E row, col : LaidOut(FlattenSeq(ss), FlattenSeq(tt), ss, tt, n, row, col)
<1> DEFINE Laid(s, t, m) ==
               \E row, col : LaidOut(FlattenSeq(s), FlattenSeq(t), s, t, m, row, col)
           Fails(s, t, m) ==
               Len(s) = m /\ Len(t) = m /\ SameLengths(s, t, m) /\ ~Laid(s, t, m)
           Bad == {m \in Nat : \E s, t \in Seq(Seq(S)) : Fails(s, t, m)}
<1> SUFFICES ASSUME Bad # {} PROVE FALSE
  OBVIOUS
<1>1. PICK m \in Bad : \A j \in Bad : m <= j
  <2>1. Bad \in SUBSET Nat /\ Bad # {}
    OBVIOUS
  <2> HIDE DEF Bad
  <2> QED
    BY <2>1, LeastNumberExists
<1>2. PICK s \in Seq(Seq(S)), t \in Seq(Seq(S)) : Fails(s, t, m)
  BY <1>1
<1>3. m \in Nat
  BY <1>1
<1>4. CASE m = 0
  <2>1. s = <<>> /\ t = <<>>
    BY <1>2, <1>4, EmptySeq
  <2>2. LaidOut(<<>>, <<>>, s, t, 0, <<>>, <<>>)
    BY <2>1 DEF LaidOut
  <2> QED
    BY <1>2, <1>4, <2>1, <2>2, FlattenNothing
<1>5. CASE m # 0
  <2>1. PICK k \in Nat : k = m - 1 /\ m = k + 1
    BY <1>3, <1>5
  <2>2. s # <<>> /\ t # <<>>
    BY <1>2, <1>5
  <2>3. PICK s1 \in Seq(Seq(S)), e \in Seq(S) : s = Append(s1, e)
    BY <2>2, SequenceEmptyOrAppend
  <2>4. PICK t1 \in Seq(Seq(S)), f \in Seq(S) : t = Append(t1, f)
    BY <2>2, SequenceEmptyOrAppend
  <2>5. /\ Len(s1) = k /\ s[k + 1] = e /\ \A i \in 1..k : s[i] = s1[i]
        /\ Len(t1) = k /\ t[k + 1] = f /\ \A i \in 1..k : t[i] = t1[i]
    <3>1. Len(s) = Len(s1) + 1 /\ (\A i \in 1..Len(s1) : s[i] = s1[i]) /\ s[Len(s1) + 1] = e
      BY <2>3, AppendProperties
    <3>2. Len(t) = Len(t1) + 1 /\ (\A i \in 1..Len(t1) : t[i] = t1[i]) /\ t[Len(t1) + 1] = f
      BY <2>4, AppendProperties
    <3>3. Len(s1) = k /\ Len(t1) = k
      <4>1. Len(s1) \in Nat /\ Len(t1) \in Nat
        BY LenProperties
      <4> QED
        BY <1>2, <2>1, <3>1, <3>2, <4>1
    <3> QED
      BY <3>1, <3>2, <3>3
  <2>6. SameLengths(s1, t1, k) /\ Len(e) = Len(f)
    <3>1. \A i \in 1..(k + 1) : Len(s[i]) = Len(t[i])
      BY <1>2, <2>1 DEF SameLengths
    <3>2. ASSUME NEW i \in 1..k
          PROVE  Len(s1[i]) = Len(t1[i])
      <4>1. Len(s[i]) = Len(t[i])
        BY <3>1
      <4>2. s1[i] = s[i] /\ t1[i] = t[i]
        BY <2>5
      <4> QED
        BY <4>1, <4>2
    <3>3. k + 1 \in 1..(k + 1)
      OBVIOUS
    <3> QED
      BY <2>5, <3>1, <3>2, <3>3 DEF SameLengths
  <2>7. Laid(s1, t1, k)
    <3>1. k \notin Bad
      BY <1>1, <2>1
    <3> QED
      BY <2>5, <2>6, <3>1
  <2>8. PICK row, col : LaidOut(FlattenSeq(s1), FlattenSeq(t1), s1, t1, k, row, col)
    BY <2>7
  <2>9. Agree(s1, s, k) /\ Agree(t1, t, k)
    BY <2>5 DEF Agree
  <2>10. LaidOut(FlattenSeq(s1), FlattenSeq(t1), s, t, k, row, col)
    BY <2>8, <2>9, LaidOutAnyway
  <2>11. FlattenSeq(s1) \in Seq(S) /\ FlattenSeq(t1) \in Seq(S)
    BY FlattenTyped
  <2>12. \E r, c : LaidOut(FlattenSeq(s1) \o e, FlattenSeq(t1) \o f, s, t, k + 1, r, c)
    BY <2>5, <2>6, <2>10, <2>11, OneMoreLaidOut
  <2>13. FlattenSeq(s) = FlattenSeq(s1) \o e /\ FlattenSeq(t) = FlattenSeq(t1) \o f
    BY <2>3, <2>4, FlattenAppends
  <2>14. Laid(s, t, m)
    BY <2>1, <2>12, <2>13
  <2> QED
    BY <1>2, <2>14
<1> QED
  BY <1>4, <1>5

----------------------------------------------------------------------------
(* Members in order, selections, sorting.                                  *)

\* o[1], ..., o[n] are the members of S, each of them once.
Enumerates(o, S, n) ==
    /\ o \in [1..n -> S]
    /\ \A p, q \in 1..n : o[p] = o[q] => p = q
    /\ \A x \in S : \E p \in 1..n : o[p] = x

LEMMA InOrderEnumerates ==
    ASSUME NEW S, IsFiniteSet(S), NEW before, IsOrder(before, S),
           NEW n \in Nat, n = Cardinality(S), NEW o, o = InOrder(S, before)
    PROVE  /\ Enumerates(o, S, n)
           /\ \A p \in 1..n : Cardinality(before[o[p]]) = p - 1
<1>1. ASSUME NEW p \in 1..n
      PROVE  o[p] \in S /\ Cardinality(before[o[p]]) = p - 1
  <2>1. p - 1 \in Nat /\ p - 1 < n
    OBVIOUS
  <2>2. \E x \in S : Cardinality(before[x]) = p - 1
    BY <2>1, EveryRankIsTaken
  <2>3. o[p] = CHOOSE x \in S : Cardinality(before[x]) = p - 1
    BY DEF InOrder
  <2> QED
    BY <2>2, <2>3
<1>2. o \in [1..n -> S]
  <2>1. o = [p \in 1..n |-> o[p]]
    BY DEF InOrder
  <2> QED
    BY <1>1, <2>1
<1>3. ASSUME NEW p \in 1..n, NEW q \in 1..n, o[p] = o[q]
      PROVE  p = q
  <2>1. p - 1 = q - 1
    BY <1>1, <1>3
  <2> QED
    BY <2>1
<1>4. ASSUME NEW x \in S
      PROVE  \E p \in 1..n : o[p] = x
  <2>1. IsFiniteSet(S \ {x}) /\ Cardinality(S \ {x}) = n - 1
    BY FS_RemoveElement
  <2>2. before[x] \subseteq S \ {x}
    BY DEF IsOrder
  <2>3. PICK k \in Nat : k = Cardinality(before[x])
    BY <2>1, <2>2, FS_Subset, FS_CardinalityType
  <2>4. k <= n - 1
    BY <2>1, <2>2, <2>3, FS_Subset
  <2>5. k + 1 \in 1..n /\ k + 1 - 1 = k
    BY <2>4
  <2>6. o[k + 1] \in S /\ Cardinality(before[o[k + 1]]) = k
    BY <1>1, <2>5
  <2>7. PICK y \in S : y = o[k + 1]
    BY <2>6
  <2>8. Cardinality(before[y]) = k
    BY <2>6, <2>7
  <2>9. x \notin before[y] /\ y \notin before[x]
    <3>1. ~(k < k)
      OBVIOUS
    <3>2. ASSUME x \in before[y] PROVE FALSE
      BY <2>3, <2>8, <3>1, <3>2, RanksAscend
    <3>3. ASSUME y \in before[x] PROVE FALSE
      BY <2>3, <2>8, <3>1, <3>3, RanksAscend
    <3> QED
      BY <3>2, <3>3
  <2>10. x = y
    BY <2>9 DEF IsOrder
  <2> QED
    BY <2>5, <2>7, <2>10
<1> QED
  BY <1>1, <1>2, <1>3, <1>4 DEF Enumerates

\* Places come before others by a number of theirs, and by themselves.
LEMMA OrderedByNumber ==
    ASSUME NEW P \in SUBSET Nat, NEW at \in [P -> Nat], NEW before,
           before = [i \in P |-> {j \in P : at[j] < at[i] \/ (at[j] = at[i] /\ j < i)}]
    PROVE  IsOrder(before, P)
<1>1. \A i \in P : i \in Nat /\ at[i] \in Nat
  OBVIOUS
<1>2. \A i, j \in P : j \in before[i] <=> at[j] < at[i] \/ (at[j] = at[i] /\ j < i)
  OBVIOUS
<1>3. before \in [P -> SUBSET P]
  OBVIOUS
<1>4. \A i \in P : before[i] \subseteq P
  BY <1>3
<1>5. \A i \in P : i \notin before[i]
  BY <1>1, <1>2
<1>6. \A i, j \in P : i = j \/ i \in before[j] \/ j \in before[i]
  BY <1>1, <1>2
<1>7. \A i, j \in P : i \in before[j] => before[i] \subseteq before[j]
  <2> SUFFICES ASSUME NEW i \in P, NEW j \in P, i \in before[j], NEW k \in before[i]
               PROVE  k \in before[j]
    OBVIOUS
  <2>1. k \in P
    BY <1>4
  <2> QED
    BY <1>1, <1>2, <2>1
<1> QED
  BY <1>3, <1>5, <1>6, <1>7 DEF IsOrder

LEMMA SmallerBefore ==
    ASSUME NEW P \in SUBSET Nat
    PROVE  IsOrder([i \in P |-> {j \in P : j < i}], P)
<1>1. PICK at : at = [i \in P |-> 0]
  OBVIOUS
<1>2. [i \in P |-> {j \in P : j < i}]
      = [i \in P |-> {j \in P : at[j] < at[i] \/ (at[j] = at[i] /\ j < i)}]
  BY <1>1
<1>3. at \in [P -> Nat]
  BY <1>1
<1>4. PICK before :
          before = [i \in P |-> {j \in P : at[j] < at[i] \/ (at[j] = at[i] /\ j < i)}]
  OBVIOUS
<1>5. IsOrder(before, P)
  BY <1>3, <1>4, OrderedByNumber
<1> QED
  BY <1>2, <1>4, <1>5

LEMMA PlacesAreFinite ==
    ASSUME NEW S, NEW s \in Seq(S), NEW P \in SUBSET DOMAIN s
    PROVE  IsFiniteSet(P) /\ Cardinality(P) \in Nat /\ P \subseteq Nat
<1>1. DOMAIN s = 1..Len(s) /\ Len(s) \in Nat
  BY LenProperties
<1>2. IsFiniteSet(1..Len(s))
  BY <1>1, FS_Interval
<1>3. P \subseteq 1..Len(s)
  BY <1>1
<1>4. IsFiniteSet(P)
  BY <1>2, <1>3, FS_Subset
<1> QED
  BY <1>3, <1>4, FS_CardinalityType

LEMMA SelectedIs ==
    ASSUME NEW S, NEW s \in Seq(S), NEW P \in SUBSET DOMAIN s
    PROVE  \E o, n : /\ n \in Nat /\ n = Cardinality(P)
                     /\ Enumerates(o, P, n)
                     /\ Selected(s, P) = [p \in 1..n |-> s[o[p]]]
<1>1. IsFiniteSet(P) /\ Cardinality(P) \in Nat /\ P \subseteq Nat
  BY PlacesAreFinite
<1>2. PICK before : before = [i \in P |-> {j \in P : j < i}]
  OBVIOUS
<1>3. IsOrder(before, P)
  BY <1>1, <1>2, SmallerBefore
<1>4. PICK o : o = InOrder(P, before)
  OBVIOUS
<1>5. PICK n \in Nat : n = Cardinality(P)
  BY <1>1
<1>6. Enumerates(o, P, n)
  BY <1>1, <1>3, <1>4, <1>5, InOrderEnumerates
<1>7. Selected(s, P) = [p \in 1..n |-> s[o[p]]]
  BY <1>2, <1>4, <1>5 DEF Selected
<1> QED
  BY <1>5, <1>6, <1>7

LEMMA SelectedTyped ==
    ASSUME NEW S, NEW s \in Seq(S), NEW P \in SUBSET DOMAIN s
    PROVE  Selected(s, P) \in Seq(S) /\ Len(Selected(s, P)) = Cardinality(P)
<1>1. PICK o, n : /\ n \in Nat /\ n = Cardinality(P) /\ Enumerates(o, P, n)
                  /\ Selected(s, P) = [p \in 1..n |-> s[o[p]]]
  BY SelectedIs
<1>2. \A i \in DOMAIN s : s[i] \in S
  BY LenProperties
<1>3. \A p \in 1..n : s[o[p]] \in S
  BY <1>1, <1>2 DEF Enumerates
<1>4. [p \in 1..n |-> s[o[p]]] \in Seq(S)
  BY <1>1, <1>3
<1> QED
  BY <1>1, <1>4

LEMMA NothingSelected ==
    ASSUME NEW S, NEW s \in Seq(S)
    PROVE  Selected(s, {}) = <<>>
<1>1. Selected(s, {}) \in Seq(S) /\ Len(Selected(s, {})) = 0
  BY SelectedTyped, FS_EmptySet
<1> QED
  BY <1>1, EmptySeq

LEMMA OneSelected ==
    ASSUME NEW S, NEW s \in Seq(S), NEW i \in DOMAIN s
    PROVE  Selected(s, {i}) = <<s[i]>>
<1>1. PICK P : P = {i}
  OBVIOUS
<1>2. P \in SUBSET DOMAIN s /\ Cardinality(P) = 1
  BY <1>1, FS_Singleton
<1>3. PICK o, n : /\ n \in Nat /\ n = Cardinality(P) /\ Enumerates(o, P, n)
                  /\ Selected(s, P) = [p \in 1..n |-> s[o[p]]]
  BY <1>2, SelectedIs
<1>4. n = 1 /\ o[1] = i
  BY <1>1, <1>2, <1>3 DEF Enumerates
<1>5. [p \in 1..n |-> s[o[p]]] = [p \in 1..1 |-> s[i]]
  BY <1>4
<1>6. <<s[i]>> = [p \in 1..1 |-> s[i]]
  OBVIOUS
<1> QED
  BY <1>1, <1>3, <1>5, <1>6

LEMMA AllSelected ==
    ASSUME NEW S, NEW s \in Seq(S)
    PROVE  Selected(s, DOMAIN s) = s
<1>1. PICK n \in Nat : n = Len(s)
  BY LenProperties
<1>2. PICK P : P = 1..n
  OBVIOUS
<1>3. DOMAIN s = P /\ P \subseteq Nat
  BY <1>1, <1>2, LenProperties
<1>4. IsFiniteSet(P) /\ Cardinality(P) = n
  BY <1>2, FS_Interval
<1>5. PICK before : before = [i \in P |-> {j \in P : j < i}]
  OBVIOUS
<1>6. PICK o : o = InOrder(P, before)
  OBVIOUS
<1>7. IsOrder(before, P)
  BY <1>3, <1>5, SmallerBefore
<1>8. /\ o \in [1..n -> P]
      /\ \A p \in 1..n : Cardinality(before[o[p]]) = p - 1
  BY <1>4, <1>6, <1>7, InOrderEnumerates DEF Enumerates
<1>9. ASSUME NEW p \in 1..n
      PROVE  o[p] = p
  <2>1. PICK q \in 1..n : q = o[p]
    BY <1>2, <1>8
  <2>2. before[q] = 1..(q - 1)
    BY <1>2, <1>5
  <2>3. Cardinality(1..(q - 1)) = q - 1
    BY FS_Interval
  <2> QED
    BY <1>8, <2>1, <2>2, <2>3
<1>10. Selected(s, P) = [p \in 1..n |-> s[o[p]]]
  BY <1>4, <1>5, <1>6 DEF Selected
<1>11. [p \in 1..n |-> s[o[p]]] = [p \in 1..n |-> s[p]]
  BY <1>9
<1>12. s = [p \in 1..n |-> s[p]]
  BY <1>1, LenProperties
<1> QED
  BY <1>3, <1>10, <1>11, <1>12

Earlier(s) ==
    [i \in DOMAIN s |-> {j \in DOMAIN s : \/ s[j].at < s[i].at
                                          \/ s[j].at = s[i].at /\ j < i}]

LEMMA EarlierIsOrder ==
    ASSUME NEW S, NEW s \in Seq(S), \A e \in S : e.at \in Nat
    PROVE  IsOrder(Earlier(s), DOMAIN s)
<1>1. PICK D : D = DOMAIN s /\ D \subseteq Nat
  BY LenProperties
<1>2. \A i \in D : s[i].at \in Nat
  BY <1>1, LenProperties
<1>3. PICK at : at = [i \in D |-> s[i].at]
  OBVIOUS
<1>4. at \in [D -> Nat]
  BY <1>2, <1>3
<1>5. PICK before : before = [i \in D |-> {j \in D : at[j] < at[i] \/ (at[j] = at[i] /\ j < i)}]
  OBVIOUS
<1>6. IsOrder(before, D)
  BY <1>1, <1>4, <1>5, OrderedByNumber
<1>7. \A i, j \in D : (at[j] < at[i] \/ (at[j] = at[i] /\ j < i)) <=>
                       (s[j].at < s[i].at \/ (s[j].at = s[i].at /\ j < i))
  BY <1>3
<1>8. [i \in D |-> {j \in D : s[j].at < s[i].at \/ (s[j].at = s[i].at /\ j < i)}] = before
  BY <1>5, <1>7
<1>9. Earlier(s) = [i \in D |-> {j \in D : s[j].at < s[i].at \/ (s[j].at = s[i].at /\ j < i)}]
  BY <1>1 DEF Earlier
<1> QED
  BY <1>1, <1>6, <1>8, <1>9

\* u is s in another order.
Shuffled(u, s, o, n) == Enumerates(o, 1..n, n) /\ u = [p \in 1..n |-> s[o[p]]]

Timed(S) == \A e \in S : e.at \in Nat

SameTimes(s, t, n) == \A i \in 1..n : s[i].at = t[i].at

\* Sorting shuffles, and in the same way what has the same times.
LEMMA SortShuffles ==
    ASSUME NEW S, Timed(S), NEW n \in Nat,
           NEW s \in Seq(S), NEW t \in Seq(S), Len(s) = n, Len(t) = n,
           SameTimes(s, t, n)
    PROVE  \E o : Shuffled(SortedByTime(s), s, o, n) /\ Shuffled(SortedByTime(t), t, o, n)
<1>1. DOMAIN s = 1..n /\ DOMAIN t = 1..n
  BY LenProperties
<1>2. Earlier(s) = Earlier(t)
  BY <1>1 DEF Earlier, SameTimes
<1>3. PICK D : D = 1..n
  OBVIOUS
<1>4. PICK before : before = Earlier(s)
  OBVIOUS
<1>5. IsOrder(before, D)
  BY <1>1, <1>3, <1>4, EarlierIsOrder DEF Timed
<1>6. IsFiniteSet(D) /\ Cardinality(D) = n
  BY <1>3, FS_Interval
<1>7. PICK o : o = InOrder(D, before)
  OBVIOUS
<1>8. Enumerates(o, D, n)
  BY <1>5, <1>6, <1>7, InOrderEnumerates
<1>9. SortedByTime(s) = [p \in 1..n |-> s[o[p]]]
  BY <1>1, <1>3, <1>4, <1>7 DEF SortedByTime, Earlier
<1>10. SortedByTime(t) = [p \in 1..n |-> t[o[p]]]
  BY <1>1, <1>2, <1>3, <1>4, <1>7 DEF SortedByTime, Earlier
<1>11. Shuffled(SortedByTime(s), s, o, n) /\ Shuffled(SortedByTime(t), t, o, n)
  BY <1>3, <1>8, <1>9, <1>10 DEF Shuffled
<1> QED
  BY <1>11

----------------------------------------------------------------------------
(* What a mapper makes of a row, or of the lines of a kernel event.        *)

Extracts == DOMAIN hr_csv \cup {None}

\* Somebody's event, by the name that an extract gives the user of the row.
IsGiven(e, path) == IsEvent(e) /\ e.path = path /\ e.actor = resolve(path, e.user)

LEMMA NewEventIsGiven ==
    ASSUME NEW path \in Extracts, NEW user, NEW at \in Nat, NEW action, NEW extra \in Fields,
           NEW of
    PROVE  /\ IsGiven(NewEvent(path, user, at, action, extra, of), path)
           /\ NewEvent(path, user, at, action, extra, of).of = of
BY DEF IsGiven, NewEvent, IsEvent, Fields, Extracts

OneGiven(s, path) == s = <<>> \/ \E e : s = <<e>> /\ IsGiven(e, path)

LEMMA WindowsGives ==
    ASSUME NEW path \in Extracts, NEW rec \in WindowsRecord
    PROVE  OneGiven(WindowsSecurityMapper(path, rec), path)
<1>1. WindowsExtra(rec) \in Fields
  BY SourcesAssumption DEF WindowsExtra, OwnFields, Fields
<1>2. rec.at # None => rec.at \in Nat
  BY DEF WindowsRecord, Time
<1> QED
  BY <1>1, <1>2, NewEventIsGiven DEF OneGiven, WindowsSecurityMapper

LEMMA M365Gives ==
    ASSUME NEW path \in Extracts, NEW internal, NEW row \in M365Row
    PROVE  OneGiven(M365Mapper(path, internal, row), path)
<1>1. /\ {"rule"} \in Fields /\ row.label \in Fields
      /\ row.label \cup {"target"} \in Fields
  BY SourcesAssumption DEF M365Row, OwnFields, Fields
<1>2. row.at # None => row.at \in Nat
  BY DEF M365Row, Time
<1> QED
  BY <1>1, <1>2, NewEventIsGiven DEF OneGiven, M365Mapper

LEMMA CertGives ==
    ASSUME NEW path \in Extracts, NEW row \in CertRow
    PROVE  OneGiven(map_cert(path, row), path)
<1>1. CertExtra(row) \in Fields
  BY SourcesAssumption DEF CertExtra, OwnFields, Fields
<1>2. row.at # None => row.at \in Nat
  BY DEF CertRow, Time
<1> QED
  BY <1>1, <1>2, NewEventIsGiven DEF OneGiven, map_cert

LEMMA GenericGives ==
    ASSUME NEW path \in Extracts, NEW row \in GenericRow
    PROVE  OneGiven(map_generic(path, row), path)
<1>1. row.extra \cup row.fields \in Fields
  BY DEF GenericRow, Fields
<1>2. row.at # None => row.at \in Nat
  BY DEF GenericRow, Time
<1> QED
  BY <1>1, <1>2, NewEventIsGiven DEF OneGiven, map_generic

LEMMA AuditGives ==
    ASSUME NEW path \in Extracts, NEW lines, Len(lines) # 0, lines[1] \in AuditLine
    PROVE  AuditEvent(path, lines) = <<>> \/
               \E e : AuditEvent(path, lines) = <<e>> /\ IsGiven(e, path)
                                                      /\ e.of = EventKey(lines[1])
<1>1. PICK meaning : meaning = AuditMeaning(lines)
  OBVIOUS
<1>2. meaning # None => meaning.extra \in Fields
  BY <1>1, SourcesAssumption DEF AuditMeaning, OwnFields, Fields
<1>3. meaning # None => scrub([fields |-> meaning.extra]).fields \in Fields
  BY <1>2 DEF scrub, Fields
<1>4. lines[1].at \in Nat
  BY DEF AuditLine
<1> QED
  BY <1>1, <1>3, <1>4, NewEventIsGiven DEF AuditEvent

LEMMA Given ==
    ASSUME NEW format \in Formats, format # "auditd", NEW cmd \in Imports(format),
           NEW row \in Row(format)
    PROVE  OneGiven(Mapper(cmd, row), cmd.identities)
<1>1. cmd.format = format /\ cmd.identities \in Extracts
  BY DEF Imports, Extracts
<1>2. CASE format = "windows"
  <2>1. row \in WindowsRecord /\ Mapper(cmd, row) = WindowsSecurityMapper(cmd.identities, row)
    BY <1>1, <1>2 DEF Row, Mapper
  <2> QED
    BY <1>1, <2>1, WindowsGives
<1>3. CASE format = "m365"
  <2>1. row \in M365Row /\ Mapper(cmd, row) = M365Mapper(cmd.identities, cmd.internal, row)
    BY <1>1, <1>3 DEF Row, Mapper
  <2> QED
    BY <1>1, <2>1, M365Gives
<1>4. CASE format = "cert"
  <2>1. row \in CertRow /\ Mapper(cmd, row) = map_cert(cmd.identities, row)
    BY <1>1, <1>4 DEF Row, Mapper
  <2> QED
    BY <1>1, <2>1, CertGives
<1>5. CASE format \in {"jsonl", "csv"}
  <2>1. row \in GenericRow /\ Mapper(cmd, row) = map_generic(cmd.identities, row)
    BY <1>1, <1>5 DEF Row, Mapper
  <2> QED
    BY <1>1, <2>1, GenericGives
<1> QED
  BY <1>2, <1>3, <1>4, <1>5 DEF Formats

----------------------------------------------------------------------------
(* What the gate takes.                                                    *)

\* d is e with the gate: it misses none but forbidden fields, and has no forbidden
\* one that the row of e had at the top and nowhere else.
Stripped(d, e) ==
    /\ <<d.at, d.actor, d.action>> = <<e.at, e.actor, e.action>>
    /\ d.extra \subseteq e.extra
    /\ \A f \in e.extra \ d.extra : lower[f] \in forbidden_fields
    /\ \A f \in e.of \cap d.extra : lower[f] \notin forbidden_fields

BothGiven(s, t) ==
    (s = <<>> /\ t = <<>>) \/ \E d, e : s = <<d>> /\ t = <<e>> /\ Stripped(d, e)

\* What a mapper writes of its own stays.
LEMMA OwnFieldsStay ==
    ASSUME NEW path, NEW user, NEW at, NEW action, NEW extra \in SUBSET OwnFields, NEW of1,
           NEW of2
    PROVE  Stripped(NewEvent(path, user, at, action, extra, of1),
                    NewEvent(path, user, at, action, extra, of2))
<1>1. \A f \in extra : lower[f] \notin forbidden_fields
  BY SourcesAssumption
<1> QED
  BY <1>1 DEF Stripped, NewEvent

LEMMA WindowsGated ==
    ASSUME NEW path, NEW rec \in WindowsRecord
    PROVE  BothGiven(WindowsSecurityMapper(path, scrub(rec)), WindowsSecurityMapper(path, rec))
<1>1. PICK r : r = scrub(rec)
  OBVIOUS
<1>2. /\ r.id = rec.id /\ r.at = rec.at /\ r.subject = rec.subject /\ r.target = rec.target
      /\ r.elevated = rec.elevated /\ r.access = rec.access
  BY <1>1 DEF scrub, WindowsRecord
<1>3. WindowsUser(r) = WindowsUser(rec)
  BY <1>2 DEF WindowsUser
<1>4. WindowsAction(r) = WindowsAction(rec)
  BY <1>2 DEF WindowsAction
<1>5. WindowsExtra(r) = WindowsExtra(rec)
  BY <1>2 DEF WindowsExtra
<1>6. WindowsExtra(rec) \in SUBSET OwnFields
  BY DEF WindowsExtra, OwnFields
<1>7. Stripped(NewEvent(path, WindowsUser(rec), rec.at, WindowsAction(rec), WindowsExtra(rec),
                        r.fields),
               NewEvent(path, WindowsUser(rec), rec.at, WindowsAction(rec), WindowsExtra(rec),
                        rec.fields))
  BY <1>6, OwnFieldsStay
<1> QED
  BY <1>1, <1>2, <1>3, <1>4, <1>5, <1>7 DEF BothGiven, WindowsSecurityMapper

LEMMA M365Gated ==
    ASSUME NEW path, NEW internal, NEW row \in M365Row
    PROVE  BothGiven(M365Mapper(path, internal, scrub(row)), M365Mapper(path, internal, row))
<1>1. PICK r : r = scrub(row)
  OBVIOUS
<1>2. /\ r.op = row.op /\ r.user = row.user /\ r.data_user = row.data_user /\ r.at = row.at
      /\ r.domains = row.domains /\ r.label = row.label
  BY <1>1 DEF scrub, M365Row
<1>3. M365Action(r, internal) = M365Action(row, internal)
  BY <1>2 DEF M365Action
<1> DEFINE user == RealUser(IF row.user # None THEN row.user ELSE row.data_user)
           action == M365Action(row, internal)
           extra == CASE action = "mail_forward_rule_external" -> {"rule"}
                      [] action = "external_share" -> row.label \cup {"target"}
                      [] OTHER -> row.label
<1>4. extra \in SUBSET OwnFields
  BY DEF M365Row, OwnFields
<1>5. M365Mapper(path, internal, row) =
          IF None \in {row.at, user, action} THEN <<>>
          ELSE <<NewEvent(path, user, row.at, action, extra, row.fields)>>
  BY DEF M365Mapper
<1>6. M365Mapper(path, internal, r) =
          IF None \in {row.at, user, action} THEN <<>>
          ELSE <<NewEvent(path, user, row.at, action, extra, r.fields)>>
  BY <1>2, <1>3 DEF M365Mapper
<1> HIDE DEF user, action, extra
<1>7. Stripped(NewEvent(path, user, row.at, action, extra, r.fields),
               NewEvent(path, user, row.at, action, extra, row.fields))
  BY <1>4, OwnFieldsStay
<1> QED
  BY <1>1, <1>5, <1>6, <1>7 DEF BothGiven

LEMMA CertGated ==
    ASSUME NEW path, NEW row \in CertRow
    PROVE  BothGiven(map_cert(path, scrub(row)), map_cert(path, row))
<1>1. PICK r : r = scrub(row)
  OBVIOUS
<1>2. /\ r.file = row.file /\ r.at = row.at /\ r.user = row.user /\ r.activity = row.activity
      /\ r.removable = row.removable /\ r.domains = row.domains /\ r.size = row.size
  BY <1>1 DEF scrub, CertRow
<1>3. CertAction(r) = CertAction(row)
  BY <1>2 DEF CertAction
<1>4. CertExtra(r) = CertExtra(row)
  BY <1>2 DEF CertExtra
<1>5. CertExtra(row) \in SUBSET OwnFields
  BY DEF CertExtra, OwnFields
<1>6. Stripped(NewEvent(path, row.user, row.at, CertAction(row), CertExtra(row), r.fields),
               NewEvent(path, row.user, row.at, CertAction(row), CertExtra(row), row.fields))
  BY <1>5, OwnFieldsStay
<1> QED
  BY <1>1, <1>2, <1>3, <1>4, <1>6 DEF BothGiven, map_cert

LEMMA GenericGated ==
    ASSUME NEW path, NEW row \in GenericRow
    PROVE  BothGiven(map_generic(path, scrub(row)), map_generic(path, row))
<1>1. PICK r : r = scrub(row)
  OBVIOUS
<1>2. /\ r.at = row.at /\ r.user = row.user /\ r.category = row.category
      /\ r.action = row.action /\ r.bytes = row.bytes /\ r.extra = row.extra
      /\ r.fields = {f \in row.fields : lower[f] \notin forbidden_fields}
  BY <1>1 DEF scrub, GenericRow
<1>3. /\ row.extra \cup r.fields \subseteq row.extra \cup row.fields
      /\ \A f \in (row.extra \cup row.fields) \ (row.extra \cup r.fields) :
             lower[f] \in forbidden_fields
      /\ \A f \in (row.fields \ row.extra) \cap (row.extra \cup r.fields) :
             lower[f] \notin forbidden_fields
  BY <1>2
<1>4. Stripped(NewEvent(path, row.user, row.at, row.action, row.extra \cup r.fields,
                        r.fields \ row.extra),
               NewEvent(path, row.user, row.at, row.action, row.extra \cup row.fields,
                        row.fields \ row.extra))
  BY <1>3 DEF Stripped, NewEvent
<1> QED
  BY <1>1, <1>2, <1>4 DEF BothGiven, map_generic

LEMMA Gated ==
    ASSUME NEW format \in Formats, format # "auditd", NEW cmd \in Imports(format),
           NEW row \in Row(format)
    PROVE  BothGiven(Mapper(cmd, scrub(row)), Mapper(cmd, row))
<1>1. cmd.format = format
  BY DEF Imports
<1>2. CASE format = "windows"
  BY <1>1, <1>2, WindowsGated DEF Row, Mapper
<1>3. CASE format = "m365"
  BY <1>1, <1>3, M365Gated DEF Row, Mapper
<1>4. CASE format = "cert"
  BY <1>1, <1>4, CertGated DEF Row, Mapper
<1>5. CASE format \in {"jsonl", "csv"}
  BY <1>1, <1>5, GenericGated DEF Row, Mapper
<1> QED
  BY <1>2, <1>3, <1>4, <1>5 DEF Formats

\* The gate makes rows of rows.
LEMMA ScrubbedIsRow ==
    ASSUME NEW format \in Formats, format # "auditd", NEW row \in Row(format)
    PROVE  scrub(row) \in Row(format)
<1>1. CASE format = "windows"
  BY <1>1 DEF Row, WindowsRecord, scrub, Fields
<1>2. CASE format = "m365"
  BY <1>2 DEF Row, M365Row, scrub, Fields
<1>3. CASE format = "cert"
  BY <1>3 DEF Row, CertRow, scrub, Fields
<1>4. CASE format \in {"jsonl", "csv"}
  BY <1>4 DEF Row, GenericRow, scrub, Fields
<1> QED
  BY <1>1, <1>2, <1>3, <1>4 DEF Formats

----------------------------------------------------------------------------
(* What an import writes, and what it would write without the gate.        *)

\* What its rows, or the lines of its kernel events, are mapped to.
Mapped(cmd) ==
    IF cmd.format = "auditd"
    THEN {AuditEvent(cmd.identities, lines) : lines \in Seq(AuditLine) \ {<<>>}}
    ELSE {Mapper(cmd, row) : row \in Row(cmd.format)}

GivenBy(cmd) == UNION {ToSet(s) : s \in Mapped(cmd)}

LEMMA MappedIsOne ==
    ASSUME NEW format \in Formats, NEW cmd \in Imports(format), NEW s \in Mapped(cmd)
    PROVE  OneGiven(s, cmd.identities)
<1>1. cmd.format = format /\ cmd.identities \in Extracts
  BY DEF Imports, Extracts
<1>2. CASE format = "auditd"
  <2>1. PICK lines \in Seq(AuditLine) \ {<<>>} : s = AuditEvent(cmd.identities, lines)
    BY <1>1, <1>2 DEF Mapped
  <2>2. Len(lines) # 0 /\ lines[1] \in AuditLine
    BY EmptySeq, LenProperties
  <2> QED
    BY <1>1, <2>1, <2>2, AuditGives DEF OneGiven
<1>3. CASE format # "auditd"
  <2>1. PICK row \in Row(format) : s = Mapper(cmd, row)
    BY <1>1, <1>3 DEF Mapped
  <2> QED
    BY <1>3, <2>1, Given
<1> QED
  BY <1>2, <1>3

LEMMA MappedTyped ==
    ASSUME NEW format \in Formats, NEW cmd \in Imports(format)
    PROVE  /\ Mapped(cmd) \subseteq Seq(GivenBy(cmd))
           /\ \A e \in GivenBy(cmd) : IsGiven(e, cmd.identities)
<1>1. ASSUME NEW s \in Mapped(cmd)
      PROVE  s \in Seq(GivenBy(cmd)) /\ \A e \in ToSet(s) : IsGiven(e, cmd.identities)
  <2>1. ToSet(s) \subseteq GivenBy(cmd)
    BY DEF GivenBy
  <2>2. CASE s = <<>>
    BY <2>2, EmptySeq DEF ToSet
  <2>3. ASSUME NEW e, s = <<e>>, IsGiven(e, cmd.identities)
        PROVE  s \in Seq(GivenBy(cmd)) /\ \A d \in ToSet(s) : IsGiven(d, cmd.identities)
    <3>1. ToSet(s) = {e}
      BY <2>3 DEF ToSet
    <3>2. e \in GivenBy(cmd)
      BY <2>1, <3>1
    <3>3. <<e>> \in Seq(GivenBy(cmd))
      BY <3>2
    <3> QED
      BY <2>3, <3>1, <3>3
  <2> QED
    BY <2>2, <2>3, MappedIsOne DEF OneGiven
<1> QED
  BY <1>1 DEF GivenBy

LEMMA SortedTyped ==
    ASSUME NEW S, Timed(S), NEW s \in Seq(S)
    PROVE  SortedByTime(s) \in Seq(S) /\ Len(SortedByTime(s)) = Len(s)
<1>1. PICK n \in Nat : n = Len(s)
  BY LenProperties
<1>2. PICK o : Shuffled(SortedByTime(s), s, o, n)
  <2>1. SameTimes(s, s, n)
    BY DEF SameTimes
  <2> QED
    BY <1>1, <2>1, SortShuffles
<1>3. \A i \in 1..n : s[i] \in S
  BY <1>1, LenProperties
<1>4. \A p \in 1..n : s[o[p]] \in S
  BY <1>2, <1>3 DEF Enumerates, Shuffled
<1>5. [p \in 1..n |-> s[o[p]]] \in Seq(S)
  BY <1>4
<1> QED
  BY <1>1, <1>2, <1>5 DEF Shuffled

LEMMA SequenceOf ==
    ASSUME NEW S, NEW n \in Nat, NEW s, s = [i \in 1..n |-> s[i]],
           \A i \in 1..n : s[i] \in S
    PROVE  s \in Seq(S) /\ Len(s) = n
OBVIOUS

----------------------------------------------------------------------------
(* The gate.                                                               *)

\* The same events, the first ones stripped.
Twins(u, v) == Len(u) = Len(v) /\ \A p \in 1..Len(u) : Stripped(u[p], v[p])

LEMMA TwinsFlattened ==
    ASSUME NEW S, NEW n \in Nat, NEW ss \in Seq(Seq(S)), NEW tt \in Seq(Seq(S)),
           Len(ss) = n, Len(tt) = n, \A i \in 1..n : Twins(ss[i], tt[i])
    PROVE  Twins(FlattenSeq(ss), FlattenSeq(tt))
<1>1. SameLengths(ss, tt, n)
  BY DEF SameLengths, Twins
<1>2. PICK row, col : LaidOut(FlattenSeq(ss), FlattenSeq(tt), ss, tt, n, row, col)
  BY <1>1, FlattenLaysOut
<1>3. PICK u, v : u = FlattenSeq(ss) /\ v = FlattenSeq(tt)
  OBVIOUS
<1>4. Len(u) = Len(v)
  BY <1>2, <1>3 DEF LaidOut
<1>5. ASSUME NEW p \in 1..Len(u)
      PROVE  Stripped(u[p], v[p])
  <2>1. PICK a, b : a = row[p] /\ b = col[p]
    OBVIOUS
  <2>2. /\ a \in 1..n /\ b \in 1..Len(ss[a]) /\ u[p] = ss[a][b] /\ v[p] = tt[a][b]
    BY <1>2, <1>3, <2>1 DEF LaidOut
  <2>3. Stripped(ss[a][b], tt[a][b])
    BY <2>2 DEF Twins
  <2> QED
    BY <2>2, <2>3
<1> QED
  BY <1>3, <1>4, <1>5 DEF Twins

LEMMA TwinsSorted ==
    ASSUME NEW S, Timed(S), NEW s \in Seq(S), NEW t \in Seq(S), Twins(s, t)
    PROVE  Twins(SortedByTime(s), SortedByTime(t))
<1>1. PICK n \in Nat : n = Len(s) /\ n = Len(t)
  BY LenProperties DEF Twins
<1>2. SameTimes(s, t, n)
  BY <1>1 DEF Twins, Stripped, SameTimes
<1>3. PICK o : Shuffled(SortedByTime(s), s, o, n) /\ Shuffled(SortedByTime(t), t, o, n)
  BY <1>1, <1>2, SortShuffles
<1>4. \A p \in 1..n : Stripped(s[o[p]], t[o[p]])
  BY <1>1, <1>3 DEF Twins, Enumerates, Shuffled
<1> QED
  BY <1>3, <1>4 DEF Twins, Shuffled

LEMMA BothAreTwins ==
    ASSUME NEW s, NEW t, BothGiven(s, t)
    PROVE  Twins(s, t)
BY DEF BothGiven, Twins

\* One file: with the gate and without it.
LEMMA FileGated ==
    ASSUME NEW format \in Formats, format # "auditd", NEW cmd \in Imports(format),
           NEW rows \in Seq(Row(format))
    PROVE  /\ normalize_many(cmd, rows) \in Seq(GivenBy(cmd))
           /\ Survivors([j \in DOMAIN rows |-> Mapper(cmd, rows[j])]) \in Seq(GivenBy(cmd))
           /\ Twins(normalize_many(cmd, rows),
                    Survivors([j \in DOMAIN rows |-> Mapper(cmd, rows[j])]))
<1>1. PICK n \in Nat : n = Len(rows) /\ DOMAIN rows = 1..n
  BY LenProperties
<1>2. cmd.format = format
  BY DEF Imports
<1>3. \A j \in 1..n : rows[j] \in Row(format)
  BY <1>1, LenProperties
<1>4. PICK x : x = [j \in 1..n |-> Mapper(cmd, scrub(rows[j]))]
  OBVIOUS
<1>5. PICK y : y = [j \in 1..n |-> Mapper(cmd, rows[j])]
  OBVIOUS
<1>6. ASSUME NEW j \in 1..n
      PROVE  /\ x[j] \in Seq(GivenBy(cmd)) /\ y[j] \in Seq(GivenBy(cmd))
             /\ Twins(x[j], y[j])
  <2>1. PICK row \in Row(format) : row = rows[j]
    BY <1>3
  <2>2. scrub(row) \in Row(format)
    BY ScrubbedIsRow
  <2>3. Mapper(cmd, scrub(row)) \in Mapped(cmd) /\ Mapper(cmd, row) \in Mapped(cmd)
    BY <1>2, <2>2 DEF Mapped
  <2>4. BothGiven(Mapper(cmd, scrub(row)), Mapper(cmd, row))
    BY Gated
  <2>5. x[j] = Mapper(cmd, scrub(row)) /\ y[j] = Mapper(cmd, row)
    BY <1>4, <1>5, <2>1
  <2> QED
    BY <2>3, <2>4, <2>5, MappedTyped, BothAreTwins
<1>7. x \in Seq(Seq(GivenBy(cmd))) /\ Len(x) = n
  <2>1. x = [i \in 1..n |-> x[i]]
    BY <1>4
  <2> QED
    BY <1>6, <2>1, SequenceOf
<1>8. y \in Seq(Seq(GivenBy(cmd))) /\ Len(y) = n
  <2>1. y = [i \in 1..n |-> y[i]]
    BY <1>5
  <2> QED
    BY <1>6, <2>1, SequenceOf
<1>9. Twins(FlattenSeq(x), FlattenSeq(y))
  BY <1>6, <1>7, <1>8, TwinsFlattened
<1>10. FlattenSeq(x) \in Seq(GivenBy(cmd)) /\ FlattenSeq(y) \in Seq(GivenBy(cmd))
  BY <1>7, <1>8, FlattenTyped
<1>11. /\ normalize_many(cmd, rows) = FlattenSeq(x)
       /\ Survivors([j \in DOMAIN rows |-> Mapper(cmd, rows[j])]) = FlattenSeq(y)
  BY <1>1, <1>4, <1>5 DEF normalize_many, Survivors
<1> QED
  BY <1>9, <1>10, <1>11

LEMMA ImportGated ==
    ASSUME NEW format \in Formats, format # "auditd", NEW cmd \in Imports(format)
    PROVE  /\ import_files(cmd) \in Seq(GivenBy(cmd)) /\ Ungated(cmd) \in Seq(GivenBy(cmd))
           /\ Twins(import_files(cmd), Ungated(cmd))
<1>1. cmd.format = format /\ cmd.paths \in Seq(Seq(Row(format)))
  BY DEF Imports
<1>2. PICK n \in Nat : n = Len(cmd.paths) /\ DOMAIN cmd.paths = 1..n
  BY <1>1, LenProperties
<1>3. \A i \in 1..n : cmd.paths[i] \in Seq(Row(format))
  BY <1>1, <1>2, LenProperties
<1>4. PICK x : x = [i \in 1..n |-> normalize_many(cmd, cmd.paths[i])]
  OBVIOUS
<1>5. PICK y : y = [i \in 1..n |-> Survivors([j \in DOMAIN cmd.paths[i] |->
                                                 Mapper(cmd, cmd.paths[i][j])])]
  OBVIOUS
<1>6. ASSUME NEW i \in 1..n
      PROVE  /\ x[i] \in Seq(GivenBy(cmd)) /\ y[i] \in Seq(GivenBy(cmd))
             /\ Twins(x[i], y[i])
  BY <1>3, <1>4, <1>5, FileGated
<1>7. x \in Seq(Seq(GivenBy(cmd))) /\ Len(x) = n
  <2>1. x = [i \in 1..n |-> x[i]]
    BY <1>4
  <2> QED
    BY <1>6, <2>1, SequenceOf
<1>8. y \in Seq(Seq(GivenBy(cmd))) /\ Len(y) = n
  <2>1. y = [i \in 1..n |-> y[i]]
    BY <1>5
  <2> QED
    BY <1>6, <2>1, SequenceOf
<1>9. Twins(FlattenSeq(x), FlattenSeq(y))
  BY <1>6, <1>7, <1>8, TwinsFlattened
<1>10. FlattenSeq(x) \in Seq(GivenBy(cmd)) /\ FlattenSeq(y) \in Seq(GivenBy(cmd))
  BY <1>7, <1>8, FlattenTyped
<1>11. Timed(GivenBy(cmd))
  BY MappedTyped DEF IsGiven, IsEvent, Timed
<1>12. import_files(cmd) = SortedByTime(FlattenSeq(x))
  <2>1. [i \in DOMAIN cmd.paths |->
            IF cmd.format = "auditd" THEN read_auditd(cmd.identities, cmd.paths[i])
            ELSE normalize_many(cmd, cmd.paths[i])] = x
    BY <1>1, <1>2, <1>4
  <2> QED
    BY <2>1 DEF import_files
<1>13. Ungated(cmd) = SortedByTime(FlattenSeq(y))
  <2>1. [i \in DOMAIN cmd.paths |->
            LET rows == cmd.paths[i] IN Survivors([j \in DOMAIN rows |-> Mapper(cmd, rows[j])])]
        = y
    BY <1>2, <1>5
  <2> QED
    BY <2>1 DEF Ungated
<1> QED
  BY <1>9, <1>10, <1>11, <1>12, <1>13, SortedTyped, TwinsSorted

----------------------------------------------------------------------------
(* Kernel events.                                                          *)

\* v is what s has of id: nothing, or the one event that is.
IsOwn(s, id, v) ==
    \/ v = <<>> /\ \A p \in 1..Len(s) : s[p].of # id
    \/ \E p \in 1..Len(s) : /\ v = <<s[p]>> /\ s[p].of = id
                            /\ \A q \in 1..Len(s) : s[q].of = id => q = p

\* Only the k-th of the sequences has something of id.
OnlyOwn(ss, n, k, id, v) ==
    /\ k \in 1..n
    /\ IsOwn(ss[k], id, v)
    /\ \A j \in 1..n : j # k => \A p \in 1..Len(ss[j]) : ss[j][p].of # id

LEMMA OwnFlattened ==
    ASSUME NEW S, NEW n \in Nat, NEW ss \in Seq(Seq(S)), Len(ss) = n,
           NEW k, NEW id, NEW v, OnlyOwn(ss, n, k, id, v)
    PROVE  IsOwn(FlattenSeq(ss), id, v)
<1>1. PICK u : u = FlattenSeq(ss)
  OBVIOUS
<1>2. PICK row, col : LaidOut(u, u, ss, ss, n, row, col)
  <2>1. SameLengths(ss, ss, n)
    BY DEF SameLengths
  <2> QED
    BY <1>1, <2>1, FlattenLaysOut
<1>3. \A p \in 1..Len(u) : /\ row[p] \in 1..n /\ col[p] \in 1..Len(ss[row[p]])
                           /\ u[p] = ss[row[p]][col[p]]
  BY <1>2 DEF LaidOut
<1>4. \A p, q \in 1..Len(u) : row[p] = row[q] /\ col[p] = col[q] => p = q
  BY <1>2 DEF LaidOut
<1>5. \A a \in 1..n : \A b \in 1..Len(ss[a]) : \E p \in 1..Len(u) : row[p] = a /\ col[p] = b
  BY <1>2 DEF LaidOut
<1>6. \A p \in 1..Len(u) : u[p].of = id => row[p] = k
  BY <1>3 DEF OnlyOwn
<1>7. CASE v = <<>> /\ \A b \in 1..Len(ss[k]) : ss[k][b].of # id
  <2>1. \A p \in 1..Len(u) : u[p].of # id
    BY <1>3, <1>6, <1>7
  <2> QED
    BY <1>1, <1>7, <2>1 DEF IsOwn
<1>8. ASSUME NEW b \in 1..Len(ss[k]), v = <<ss[k][b]>>, ss[k][b].of = id,
             \A c \in 1..Len(ss[k]) : ss[k][c].of = id => c = b
      PROVE  IsOwn(u, id, v)
  <2>1. k \in 1..n
    BY DEF OnlyOwn
  <2>2. PICK p \in 1..Len(u) : row[p] = k /\ col[p] = b
    BY <1>5, <2>1
  <2>3. u[p] = ss[k][b]
    BY <1>3, <2>2
  <2>4. ASSUME NEW q \in 1..Len(u), u[q].of = id
        PROVE  q = p
    <3>1. row[q] = k
      BY <1>6, <2>4
    <3>2. col[q] \in 1..Len(ss[k]) /\ u[q] = ss[k][col[q]]
      BY <1>3, <3>1
    <3>3. col[q] = b
      BY <1>8, <2>4, <3>2
    <3> QED
      BY <1>4, <2>2, <3>1, <3>3
  <2> QED
    BY <1>8, <2>3, <2>4 DEF IsOwn
<1> QED
  BY <1>1, <1>7, <1>8 DEF OnlyOwn, IsOwn

LEMMA OwnSorted ==
    ASSUME NEW S, Timed(S), NEW s \in Seq(S), NEW id, NEW v, IsOwn(s, id, v)
    PROVE  IsOwn(SortedByTime(s), id, v)
<1>1. PICK n \in Nat : n = Len(s)
  BY LenProperties
<1>2. PICK u : u = SortedByTime(s)
  OBVIOUS
<1>3. PICK o : Shuffled(u, s, o, n)
  <2>1. SameTimes(s, s, n)
    BY DEF SameTimes
  <2> QED
    BY <1>1, <1>2, <2>1, SortShuffles
<1>4. /\ \A p \in 1..n : o[p] \in 1..n
      /\ \A p, q \in 1..n : o[p] = o[q] => p = q
      /\ \A i \in 1..n : \E p \in 1..n : o[p] = i
  BY <1>3 DEF Shuffled, Enumerates
<1>5. u = [p \in 1..n |-> s[o[p]]]
  BY <1>3 DEF Shuffled
<1>6. Len(u) = n /\ \A p \in 1..n : u[p] = s[o[p]]
  BY <1>5
<1>7. CASE v = <<>> /\ \A p \in 1..n : s[p].of # id
  <2>1. ASSUME NEW p \in 1..Len(u)
        PROVE  u[p].of # id
    <3>1. p \in 1..n
      BY <1>6
    <3>2. o[p] \in 1..n /\ u[p] = s[o[p]]
      BY <1>4, <1>6, <3>1
    <3> QED
      BY <1>7, <3>2
  <2> QED
    BY <1>2, <1>7, <2>1 DEF IsOwn
<1>8. ASSUME NEW i \in 1..n, v = <<s[i]>>, s[i].of = id,
             \A j \in 1..n : s[j].of = id => j = i
      PROVE  IsOwn(u, id, v)
  <2>1. PICK p \in 1..n : o[p] = i
    BY <1>4
  <2>2. u[p] = s[i]
    BY <1>6, <2>1
  <2>3. ASSUME NEW q \in 1..n, u[q].of = id
        PROVE  q = p
    <3>1. o[q] \in 1..n /\ s[o[q]].of = id
      BY <1>4, <1>6, <2>3
    <3>2. o[q] = i
      BY <1>8, <3>1
    <3> QED
      BY <1>4, <2>1, <3>2
  <2>4. v = <<u[p]>> /\ u[p].of = id /\ p \in 1..Len(u)
    BY <1>6, <1>8, <2>2
  <2>5. \A q \in 1..Len(u) : u[q].of = id => q = p
    BY <1>6, <2>3
  <2> QED
    BY <2>4, <2>5 DEF IsOwn
<1> QED
  BY <1>1, <1>2, <1>7, <1>8 DEF IsOwn

LEMMA OwnSelected ==
    ASSUME NEW S, NEW s \in Seq(S), NEW id, NEW v, IsOwn(s, id, v)
    PROVE  Own(s, id) = v
<1>1. DOMAIN s = 1..Len(s)
  BY LenProperties
<1>2. PICK P : P = {i \in DOMAIN s : s[i].of = id}
  OBVIOUS
<1>3. Own(s, id) = Selected(s, P)
  BY <1>2 DEF Own
<1>4. CASE v = <<>> /\ \A p \in 1..Len(s) : s[p].of # id
  <2>1. P = {}
    BY <1>1, <1>2, <1>4
  <2> QED
    BY <1>3, <1>4, <2>1, NothingSelected
<1>5. ASSUME NEW p \in 1..Len(s), v = <<s[p]>>, s[p].of = id,
             \A q \in 1..Len(s) : s[q].of = id => q = p
      PROVE  Own(s, id) = v
  <2>1. P = {p} /\ p \in DOMAIN s
    BY <1>1, <1>2, <1>5
  <2> QED
    BY <1>3, <1>5, <2>1, OneSelected
<1> QED
  BY <1>4, <1>5 DEF IsOwn

\* The first lines of the kernel events of a file.
Firsts(file) ==
    {i \in DOMAIN file : \A j \in 1..(i - 1) : EventKey(file[j]) # EventKey(file[i])}

\* Each kernel event has one.
LEMMA FirstsAre ==
    ASSUME NEW S, NEW file \in Seq(S)
    PROVE  /\ \A i, j \in Firsts(file) : EventKey(file[i]) = EventKey(file[j]) => i = j
           /\ \A i \in DOMAIN file : \E j \in Firsts(file) :
                  EventKey(file[j]) = EventKey(file[i])
<1>1. PICK n \in Nat : n = Len(file) /\ DOMAIN file = 1..n
  BY LenProperties
<1>2. ASSUME NEW i \in Firsts(file), NEW j \in Firsts(file),
             EventKey(file[i]) = EventKey(file[j]), i < j
      PROVE  FALSE
  <2>1. i \in 1..n /\ j \in 1..n
    BY <1>1 DEF Firsts
  <2>2. i \in 1..(j - 1)
    BY <1>2, <2>1
  <2> QED
    BY <1>2, <2>2 DEF Firsts
<1>3. ASSUME NEW i \in Firsts(file), NEW j \in Firsts(file),
             EventKey(file[i]) = EventKey(file[j])
      PROVE  i = j
  <2>1. i \in 1..n /\ j \in 1..n
    BY <1>1 DEF Firsts
  <2>2. ~(i < j) /\ ~(j < i)
    BY <1>2, <1>3
  <2> QED
    BY <2>1, <2>2
<1>4. ASSUME NEW i \in DOMAIN file
      PROVE  \E j \in Firsts(file) : EventKey(file[j]) = EventKey(file[i])
  <2>1. PICK K : K = {j \in 1..n : EventKey(file[j]) = EventKey(file[i])}
    OBVIOUS
  <2>2. K \in SUBSET Nat /\ K # {}
    BY <1>1, <2>1
  <2>3. PICK j \in K : \A k \in K : j <= k
    BY <2>2, LeastNumberExists
  <2>4. j \in 1..n /\ EventKey(file[j]) = EventKey(file[i])
    BY <2>1
  <2>5. ASSUME NEW k \in 1..(j - 1)
        PROVE  EventKey(file[k]) # EventKey(file[j])
    <3>1. k \in 1..n /\ ~(j <= k)
      BY <2>4
    <3>2. k \notin K
      BY <2>3, <3>1
    <3> QED
      BY <2>1, <2>4, <3>1, <3>2
  <2>6. j \in Firsts(file)
    BY <1>1, <2>4, <2>5 DEF Firsts
  <2> QED
    BY <2>4, <2>6
<1> QED
  BY <1>3, <1>4

\* The lines of a kernel event, which there are.
LEMMA LinesAre ==
    ASSUME NEW file \in Seq(AuditLine), NEW i \in DOMAIN file, NEW id, id = EventKey(file[i]),
           NEW lines, lines = LinesOf(file, id)
    PROVE  /\ lines \in Seq(AuditLine) /\ lines # <<>>
           /\ \A k \in DOMAIN lines : EventKey(lines[k]) = id
<1>1. PICK P : P = {j \in DOMAIN file : EventKey(file[j]) = id}
  OBVIOUS
<1>2. P \in SUBSET DOMAIN file /\ i \in P
  BY <1>1
<1>3. lines = Selected(file, P)
  BY <1>1 DEF LinesOf
<1>4. PICK o, n : /\ n \in Nat /\ n = Cardinality(P) /\ Enumerates(o, P, n)
                  /\ Selected(file, P) = [p \in 1..n |-> file[o[p]]]
  BY <1>2, SelectedIs
<1>5. lines \in Seq(AuditLine)
  BY <1>2, <1>3, SelectedTyped
<1>6. lines = [p \in 1..n |-> file[o[p]]]
  BY <1>3, <1>4
<1>7. \A p \in 1..n : o[p] \in P
  BY <1>4 DEF Enumerates
<1>8. \A k \in DOMAIN lines : EventKey(lines[k]) = id
  BY <1>1, <1>6, <1>7
<1>9. lines # <<>>
  <2>1. PICK p \in 1..n : o[p] = i
    BY <1>2, <1>4 DEF Enumerates
  <2>2. p \in DOMAIN lines
    BY <1>6
  <2> QED
    BY <2>2
<1> QED
  BY <1>5, <1>8, <1>9

\* What read_auditd puts one after another: what each kernel event gives.
LEMMA ReadIs ==
    ASSUME NEW path, NEW file \in Seq(AuditLine)
    PROVE  \E o, n, x :
               /\ n \in Nat /\ Enumerates(o, Firsts(file), n)
               /\ x = [m \in 1..n |-> AuditEvent(path, LinesOf(file, EventKey(file[o[m]])))]
               /\ read_auditd(path, file) = FlattenSeq(x)
<1>1. PICK P : P = Firsts(file) /\ P \in SUBSET DOMAIN file
  BY DEF Firsts
<1>2. PICK o, n : /\ n \in Nat /\ n = Cardinality(P) /\ Enumerates(o, P, n)
                  /\ Selected(file, P) = [p \in 1..n |-> file[o[p]]]
  BY <1>1, SelectedIs
<1>3. PICK begin : begin = Selected(file, P)
  OBVIOUS
<1>4. DOMAIN begin = 1..n /\ \A m \in 1..n : begin[m] = file[o[m]]
  BY <1>2, <1>3
<1>5. PICK x : x = [m \in 1..n |-> AuditEvent(path, LinesOf(file, EventKey(file[o[m]])))]
  OBVIOUS
<1>6. [m \in DOMAIN begin |-> AuditEvent(path, LinesOf(file, EventKey(begin[m])))] = x
  BY <1>4, <1>5
<1>7. read_auditd(path, file) = FlattenSeq(x)
  BY <1>1, <1>3, <1>6 DEF read_auditd, Survivors, Firsts
<1> QED
  BY <1>1, <1>2, <1>5, <1>7

\* The lines of one kernel event, alone in a file, give its event.
LEMMA AloneGives ==
    ASSUME NEW path \in Extracts, NEW lines \in Seq(AuditLine), lines # <<>>, NEW id,
           \A k \in DOMAIN lines : EventKey(lines[k]) = id
    PROVE  read_auditd(path, lines) = AuditEvent(path, lines)
<1>1. PICK n \in Nat : n = Len(lines) /\ DOMAIN lines = 1..n /\ n # 0
  BY LenProperties, EmptySeq
<1>2. 1 \in DOMAIN lines /\ EventKey(lines[1]) = id
  BY <1>1
<1>3. Firsts(lines) = {1}
  <2>1. 1 \in Firsts(lines)
    BY <1>2 DEF Firsts
  <2>2. ASSUME NEW i \in Firsts(lines), i # 1
        PROVE  FALSE
    <3>1. i \in 1..n /\ EventKey(lines[i]) = id
      BY <1>1 DEF Firsts
    <3>2. 1 \in 1..(i - 1)
      BY <2>2, <3>1
    <3> QED
      BY <1>2, <3>1, <3>2 DEF Firsts
  <2> QED
    BY <2>1, <2>2
<1>4. PICK begin : begin = Selected(lines, {1})
  OBVIOUS
<1>5. begin = <<lines[1]>>
  BY <1>2, <1>4, OneSelected
<1>6. LinesOf(lines, id) = lines
  <2>1. {i \in DOMAIN lines : EventKey(lines[i]) = id} = DOMAIN lines
    OBVIOUS
  <2> QED
    BY <2>1, AllSelected DEF LinesOf
<1>7. PICK v : v = AuditEvent(path, lines)
  OBVIOUS
<1>8. DOMAIN begin = 1..1 /\ begin[1] = lines[1]
  BY <1>5
<1>9. [m \in DOMAIN begin |-> AuditEvent(path, LinesOf(lines, EventKey(begin[m])))]
      = [m \in 1..1 |-> v]
  BY <1>2, <1>6, <1>7, <1>8
<1>10. [m \in 1..1 |-> v] = <<v>>
  OBVIOUS
<1>11. read_auditd(path, lines) = FlattenSeq(<<v>>)
  BY <1>3, <1>4, <1>9, <1>10 DEF read_auditd, Survivors, Firsts
<1>12. \E S : v \in Seq(S)
  <2>1. lines[1] \in AuditLine /\ Len(lines) # 0
    BY <1>1, <1>2, LenProperties
  <2>2. v = <<>> \/ \E e : v = <<e>>
    BY <1>7, <2>1, AuditGives
  <2>3. ASSUME v = <<>> PROVE v \in Seq({})
    BY <2>3
  <2>4. ASSUME NEW e, v = <<e>> PROVE v \in Seq({e})
    BY <2>4
  <2> QED
    BY <2>2, <2>3, <2>4
<1> QED
  BY <1>7, <1>11, <1>12, FlattenOne

KeysOf(file) == {EventKey(file[i]) : i \in DOMAIN file}

\* A file gives each of its kernel events what its lines give, and nothing else.
LEMMA ReadOwn ==
    ASSUME NEW cmd \in Imports("auditd"), NEW file \in Seq(AuditLine)
    PROVE  /\ read_auditd(cmd.identities, file) \in Seq(GivenBy(cmd))
           /\ \A i \in DOMAIN file :
                  IsOwn(read_auditd(cmd.identities, file), EventKey(file[i]),
                        AuditEvent(cmd.identities, LinesOf(file, EventKey(file[i]))))
           /\ \A p \in 1..Len(read_auditd(cmd.identities, file)) :
                  read_auditd(cmd.identities, file)[p].of \in KeysOf(file)
<1>1. "auditd" \in Formats
  BY DEF Formats
<1>2. cmd.format = "auditd" /\ cmd.identities \in Extracts
  BY DEF Imports, Extracts
<1>3. PICK path \in Extracts : path = cmd.identities
  BY <1>2
<1>4. PICK o, n, x :
          /\ n \in Nat /\ Enumerates(o, Firsts(file), n)
          /\ x = [m \in 1..n |-> AuditEvent(path, LinesOf(file, EventKey(file[o[m]])))]
          /\ read_auditd(path, file) = FlattenSeq(x)
  BY ReadIs
<1> DEFINE key(m) == EventKey(file[o[m]])
<1>5. ASSUME NEW m \in 1..n
      PROVE  /\ o[m] \in Firsts(file) /\ o[m] \in DOMAIN file
             /\ x[m] = AuditEvent(path, LinesOf(file, key(m)))
             /\ x[m] \in Mapped(cmd)
             /\ x[m] = <<>> \/ \E e : x[m] = <<e>> /\ e.of = key(m)
  <2>1. o[m] \in Firsts(file) /\ o[m] \in DOMAIN file
    BY <1>4 DEF Enumerates, Firsts
  <2>2. x[m] = AuditEvent(path, LinesOf(file, key(m)))
    BY <1>4
  <2>3. PICK id : id = key(m)
    OBVIOUS
  <2>4. PICK lines : lines = LinesOf(file, id)
    OBVIOUS
  <2>5. /\ lines \in Seq(AuditLine) /\ lines # <<>>
        /\ \A k \in DOMAIN lines : EventKey(lines[k]) = id
    BY <2>1, <2>3, <2>4, LinesAre
  <2>6. 1 \in DOMAIN lines /\ Len(lines) # 0 /\ lines[1] \in AuditLine
    BY <2>5, LenProperties, EmptySeq
  <2>7. AuditEvent(path, lines) \in Mapped(cmd)
    BY <1>2, <1>3, <2>5 DEF Mapped
  <2>8. AuditEvent(path, lines) = <<>> \/
            \E e : AuditEvent(path, lines) = <<e>> /\ e.of = id
    BY <2>5, <2>6, AuditGives
  <2> QED
    BY <2>1, <2>2, <2>3, <2>4, <2>7, <2>8
<1>6. x \in Seq(Seq(GivenBy(cmd))) /\ Len(x) = n
  <2>1. \A m \in 1..n : x[m] \in Seq(GivenBy(cmd))
    BY <1>1, <1>5, MappedTyped
  <2>2. x = [m \in 1..n |-> x[m]]
    BY <1>4
  <2> QED
    BY <1>4, <2>1, <2>2, SequenceOf
<1>7. FlattenSeq(x) \in Seq(GivenBy(cmd))
  BY <1>6, FlattenTyped
<1>8. ASSUME NEW i \in DOMAIN file
      PROVE  IsOwn(FlattenSeq(x), EventKey(file[i]),
                   AuditEvent(path, LinesOf(file, EventKey(file[i]))))
  <2>1. PICK id : id = EventKey(file[i])
    OBVIOUS
  <2>2. PICK j \in Firsts(file) : EventKey(file[j]) = id
    BY <2>1, FirstsAre
  <2>3. PICK k \in 1..n : o[k] = j
    BY <1>4 DEF Enumerates
  <2>4. key(k) = id
    BY <2>2, <2>3
  <2>5. ASSUME NEW m \in 1..n, m # k
        PROVE  key(m) # id
    <3>1. o[m] \in Firsts(file) /\ o[k] \in Firsts(file) /\ o[m] # o[k]
      BY <1>4, <1>5, <2>5 DEF Enumerates
    <3> QED
      BY <2>4, <3>1, FirstsAre
  <2> HIDE DEF key
  <2>6. IsOwn(x[k], id, x[k])
    BY <1>5, <2>4 DEF IsOwn
  <2>7. ASSUME NEW m \in 1..n, m # k, NEW p \in 1..Len(x[m])
        PROVE  x[m][p].of # id
    <3>1. PICK e : x[m] = <<e>> /\ e.of = key(m)
      BY <1>5, <2>7
    <3>2. p = 1 /\ x[m][p] = e
      BY <2>7, <3>1
    <3> QED
      BY <2>5, <2>7, <3>1, <3>2
  <2>8. OnlyOwn(x, n, k, id, x[k])
    BY <2>6, <2>7 DEF OnlyOwn
  <2>9. IsOwn(FlattenSeq(x), id, x[k])
    BY <1>4, <1>6, <2>8, OwnFlattened
  <2>10. x[k] = AuditEvent(path, LinesOf(file, id))
    BY <1>5, <2>4
  <2> QED
    BY <2>1, <2>9, <2>10
<1>9. ASSUME NEW p \in 1..Len(FlattenSeq(x))
      PROVE  FlattenSeq(x)[p].of \in KeysOf(file)
  <2>1. SameLengths(x, x, n)
    BY DEF SameLengths
  <2>2. PICK row, col : LaidOut(FlattenSeq(x), FlattenSeq(x), x, x, n, row, col)
    BY <1>4, <1>6, <2>1, FlattenLaysOut
  <2>3. PICK a, b : a = row[p] /\ b = col[p]
    OBVIOUS
  <2>4. a \in 1..n /\ b \in 1..Len(x[a]) /\ FlattenSeq(x)[p] = x[a][b]
    BY <2>2, <2>3 DEF LaidOut
  <2>5. key(a) \in KeysOf(file)
    BY <1>5, <2>4 DEF KeysOf
  <2> HIDE DEF key
  <2>6. PICK e : x[a] = <<e>> /\ e.of = key(a)
    BY <1>5, <2>4
  <2>7. b = 1 /\ x[a][b] = e
    BY <2>4, <2>6
  <2> QED
    BY <2>4, <2>5, <2>6, <2>7
<1> QED
  BY <1>3, <1>4, <1>7, <1>8, <1>9

\* Files one after another, and sorted: of a kernel event that one file has, what
\* its lines give.
LEMMA AuditImported ==
    ASSUME NEW cmd \in Imports("auditd")
    PROVE  /\ import_files(cmd) \in Seq(GivenBy(cmd))
           /\ \A i \in DOMAIN cmd.paths : \A id \in KernelEvents(cmd.paths[i]) :
                  (\A j \in DOMAIN cmd.paths \ {i} : id \notin KernelEvents(cmd.paths[j])) =>
                      Own(import_files(cmd), id) =
                          read_auditd(cmd.identities, Alone(cmd.paths[i], id))
<1>1. "auditd" \in Formats
  BY DEF Formats
<1>2. /\ cmd.format = "auditd" /\ cmd.identities \in Extracts
      /\ cmd.paths \in Seq(Seq(AuditLine))
  BY DEF Imports, Extracts, Row
<1>3. PICK path \in Extracts : path = cmd.identities
  BY <1>2
<1>4. PICK logs \in Seq(Seq(AuditLine)) : logs = cmd.paths
  BY <1>2
<1>5. PICK n \in Nat : n = Len(logs) /\ DOMAIN logs = 1..n
  BY LenProperties
<1>6. \A i \in 1..n : logs[i] \in Seq(AuditLine)
  BY <1>5, LenProperties
<1>7. PICK ss : ss = [i \in 1..n |-> read_auditd(path, logs[i])]
  OBVIOUS
<1>8. ASSUME NEW i \in 1..n
      PROVE  /\ ss[i] \in Seq(GivenBy(cmd))
             /\ \A k \in DOMAIN logs[i] :
                    IsOwn(ss[i], EventKey(logs[i][k]),
                          AuditEvent(path, LinesOf(logs[i], EventKey(logs[i][k]))))
             /\ \A p \in 1..Len(ss[i]) : ss[i][p].of \in KeysOf(logs[i])
  <2>1. PICK file \in Seq(AuditLine) : file = logs[i]
    BY <1>6
  <2>2. ss[i] = read_auditd(cmd.identities, file)
    BY <1>3, <1>7, <2>1
  <2> QED
    BY <1>3, <2>1, <2>2, ReadOwn
<1>9. ss \in Seq(Seq(GivenBy(cmd))) /\ Len(ss) = n
  <2>1. ss = [i \in 1..n |-> ss[i]]
    BY <1>7
  <2> QED
    BY <1>8, <2>1, SequenceOf
<1>10. FlattenSeq(ss) \in Seq(GivenBy(cmd))
  BY <1>9, FlattenTyped
<1>11. Timed(GivenBy(cmd))
  BY <1>1, MappedTyped DEF IsGiven, IsEvent, Timed
<1>12. import_files(cmd) = SortedByTime(FlattenSeq(ss))
  <2>1. [i \in DOMAIN cmd.paths |->
            IF cmd.format = "auditd" THEN read_auditd(cmd.identities, cmd.paths[i])
            ELSE normalize_many(cmd, cmd.paths[i])] = ss
    BY <1>2, <1>3, <1>4, <1>5, <1>7
  <2> QED
    BY <2>1 DEF import_files
<1>13. import_files(cmd) \in Seq(GivenBy(cmd))
  BY <1>10, <1>11, <1>12, SortedTyped
<1>14. \A i \in 1..n : KernelEvents(logs[i]) = KeysOf(logs[i])
  <2> SUFFICES ASSUME NEW i \in 1..n PROVE KernelEvents(logs[i]) = KeysOf(logs[i])
    OBVIOUS
  <2> QED
    BY DEF KernelEvents, KeysOf, EventKey, ToSet
<1>15. ASSUME NEW i \in 1..n, NEW id \in KeysOf(logs[i]),
              \A j \in (1..n) \ {i} : id \notin KeysOf(logs[j])
       PROVE  Own(import_files(cmd), id) = read_auditd(path, Alone(logs[i], id))
  <2>1. PICK file \in Seq(AuditLine) : file = logs[i]
    BY <1>6
  <2>2. PICK k \in DOMAIN file : EventKey(file[k]) = id
    BY <2>1 DEF KeysOf
  <2>3. PICK lines : lines = LinesOf(file, id)
    OBVIOUS
  <2>4. IsOwn(ss[i], id, AuditEvent(path, lines))
    BY <1>8, <2>1, <2>2, <2>3
  <2>5. \A j \in 1..n : j # i => \A p \in 1..Len(ss[j]) : ss[j][p].of # id
    BY <1>8, <1>15
  <2>6. OnlyOwn(ss, n, i, id, AuditEvent(path, lines))
    BY <2>4, <2>5 DEF OnlyOwn
  <2>7. IsOwn(FlattenSeq(ss), id, AuditEvent(path, lines))
    BY <1>9, <2>6, OwnFlattened
  <2>8. IsOwn(import_files(cmd), id, AuditEvent(path, lines))
    BY <1>10, <1>11, <1>12, <2>7, OwnSorted
  <2>9. Own(import_files(cmd), id) = AuditEvent(path, lines)
    BY <1>13, <2>8, OwnSelected
  <2>10. Alone(file, id) = lines
    BY <2>3 DEF Alone, LinesOf, EventKey
  <2>11. read_auditd(path, lines) = AuditEvent(path, lines)
    <3>1. /\ lines \in Seq(AuditLine) /\ lines # <<>>
          /\ \A m \in DOMAIN lines : EventKey(lines[m]) = id
      BY <2>2, <2>3, LinesAre
    <3> QED
      BY <3>1, AloneGives
  <2> QED
    BY <2>1, <2>9, <2>10, <2>11
<1>16. ASSUME NEW i \in DOMAIN logs, NEW id \in KernelEvents(logs[i]),
              \A j \in DOMAIN logs \ {i} : id \notin KernelEvents(logs[j])
       PROVE  Own(import_files(cmd), id) = read_auditd(path, Alone(logs[i], id))
  <2>1. i \in 1..n /\ id \in KeysOf(logs[i])
    BY <1>5, <1>14, <1>16
  <2>2. \A j \in (1..n) \ {i} : id \notin KeysOf(logs[j])
    BY <1>5, <1>14, <1>16
  <2> QED
    BY <1>15, <2>1, <2>2
<1> QED
  BY <1>3, <1>4, <1>13, <1>16, Zenon

----------------------------------------------------------------------------
(* What the commands write.                                                *)

\* An event whose actor, if it was imported, is the one its extract gives.
IsAttributed(e) == IsEvent(e) /\ (e.user # None => e.actor = resolve(e.path, e.user))

LEMMA BatchTyped ==
    ASSUME NEW cmd \in Commands
    PROVE  /\ Batch[cmd] \in Seq(ToSet(Batch[cmd]))
           /\ \A e \in ToSet(Batch[cmd]) : IsAttributed(e)
<1>1. CASE IsGenerate(cmd)
  <2>1. PICK s : s = cmd.events
    OBVIOUS
  <2>2. Batch[cmd] = s
    BY <1>1, <2>1 DEF Batch, IsGenerate
  <2>3. PICK S : S = {e \in ToSet(s) : IsEvent(e) /\ e.user = None}
    OBVIOUS
  <2>4. s \in Seq(S)
    BY <1>1, <2>1, <2>3 DEF IsGenerate
  <2>5. ToSet(s) \subseteq S
    BY <2>4, LenProperties DEF ToSet
  <2>6. S = ToSet(s)
    BY <2>3, <2>5
  <2> QED
    BY <2>2, <2>3, <2>4, <2>6 DEF IsAttributed
<1>2. ASSUME NEW format \in Formats, cmd \in Imports(format)
      PROVE  /\ Batch[cmd] \in Seq(ToSet(Batch[cmd]))
             /\ \A e \in ToSet(Batch[cmd]) : IsAttributed(e)
  <2>1. cmd.name = "import"
    BY <1>2 DEF Imports
  <2>2. Batch[cmd] = import_files(cmd)
    BY <2>1 DEF Batch
  <2>3. import_files(cmd) \in Seq(GivenBy(cmd))
    BY <1>2, AuditImported, ImportGated
  <2>4. PICK s : s = import_files(cmd)
    OBVIOUS
  <2>5. ToSet(s) \subseteq GivenBy(cmd)
    BY <2>3, <2>4, LenProperties DEF ToSet
  <2>6. s \in Seq(ToSet(s))
    <3>1. PICK n \in Nat : n = Len(s) /\ DOMAIN s = 1..n
      BY <2>3, <2>4, LenProperties
    <3>2. s = [i \in 1..n |-> s[i]]
      BY <2>3, <2>4, <3>1, LenProperties
    <3>3. \A i \in 1..n : s[i] \in ToSet(s)
      BY <3>1 DEF ToSet
    <3> QED
      BY <3>2, <3>3, SequenceOf
  <2>7. \A e \in GivenBy(cmd) : IsAttributed(e)
    BY <1>2, MappedTyped DEF IsGiven, IsAttributed
  <2> QED
    BY <2>2, <2>4, <2>5, <2>6, <2>7
<1> QED
  BY <1>1, <1>2, DatasetAssumption

Written == UNION {ToSet(Batch[cmd]) : cmd \in Commands}

LEMMA BatchIsWritten ==
    ASSUME NEW cmd \in Commands
    PROVE  /\ Batch[cmd] \in Seq(Written) /\ Batch[cmd] \in Seq(FileLine)
<1>1. ToSet(Batch[cmd]) \subseteq Written /\ Written \subseteq FileLine
  BY DEF Written, FileLine
<1>2. \A i \in 1..Len(Batch[cmd]) : Batch[cmd][i] \in ToSet(Batch[cmd])
  BY BatchTyped, LenProperties
<1>3. PICK n \in Nat : n = Len(Batch[cmd])
  BY BatchTyped, LenProperties
<1>4. Batch[cmd] = [i \in 1..n |-> Batch[cmd][i]]
  BY <1>3, BatchTyped, LenProperties
<1>5. \A i \in 1..n : Batch[cmd][i] \in Written
  BY <1>1, <1>2, <1>3
<1>6. \A i \in 1..n : Batch[cmd][i] \in FileLine
  BY <1>1, <1>5
<1> QED
  BY <1>4, <1>5, <1>6, SequenceOf

LEMMA WrittenAttributed ==
    /\ \A e \in Written : IsAttributed(e)
    /\ FileLine = {Garbled} \cup Written
BY BatchTyped DEF Written, FileLine

----------------------------------------------------------------------------
(* Whom an extract names.                                                  *)

\* The last row that has the key is of the same person as any that lists the name.
LEMMA ListedIsResolved ==
    ASSUME NEW path \in Extracts, Unambiguous(path), NEW user, NEW row \in Listed(path, user)
    PROVE  resolve(path, user) = row.actor_id
<1>1. PICK extract : extract = Rows(path)
  OBVIOUS
<1>2. path # None
  <2>1. ASSUME path = None PROVE FALSE
    BY <2>1 DEF Listed, People, Rows, ToSet
  <2> QED
    BY <2>1
<1>3. extract \in Seq(ToSet(extract))
  <2>1. path \in DOMAIN hr_csv /\ extract = hr_csv[path]
    BY <1>1, <1>2 DEF Extracts, Rows
  <2> QED
    BY <2>1, NormalizerAssumption
<1>4. PICK n \in Nat : n = Len(extract) /\ DOMAIN extract = 1..n
  BY <1>3, LenProperties
<1>5. PICK key : key = canonical_key[user]
  OBVIOUS
<1>6. PICK registered :
          registered = {i \in 1..n : extract[i].actor_id # None /\ key \in Keys(extract[i])}
  OBVIOUS
<1>7. row \in People(path) /\ key \in Keys(row)
  BY <1>5 DEF Listed, Keys
<1>8. PICK i \in 1..n : row = extract[i] /\ extract[i].actor_id # None
  BY <1>1, <1>4, <1>7 DEF People, ToSet
<1>9. registered # {}
  BY <1>6, <1>7, <1>8
<1>10. IsFiniteSet(registered) /\ registered \in SUBSET Int
  <2>1. IsFiniteSet(1..n)
    BY FS_Interval
  <2>2. registered \subseteq 1..n
    BY <1>6
  <2>3. IsFiniteSet(registered)
    BY <2>1, <2>2, FS_Subset
  <2>4. \A j \in registered : j \in Int
    BY <2>2
  <2> QED
    BY <2>3, <2>4
<1>11. PICK m : m = Max(registered)
  OBVIOUS
<1>12. m \in registered
  BY <1>9, <1>10, <1>11, MaxIsMember
<1>13. extract[m] \in People(path) /\ key \in Keys(extract[m])
  BY <1>1, <1>4, <1>6, <1>12 DEF People, ToSet
<1>14. extract[m].actor_id = row.actor_id
  BY <1>7, <1>13 DEF Unambiguous
<1>15. resolve(path, user) = extract[m].actor_id
  BY <1>1, <1>4, <1>5, <1>6, <1>9, <1>11 DEF resolve
<1> QED
  BY <1>14, <1>15

----------------------------------------------------------------------------
(* The inductive invariant.                                                *)

Places == {"idle", "open", "lines", "half", "identities", "labels", "label text"}

IsDirectory(d) == d \in {Absent, Torn} \/ None \notin DOMAIN d

WriterTyped ==
    /\ writer \in [at : Places, cmd : Commands \cup {None}, left : Seq(FileLine)]
    /\ At("idle") <=> writer.cmd = None
    /\ ~At("idle") /\ ~At("open") => events # Absent
    /\ At("half") => events.tail # "ended" /\ writer.left # <<>>
    /\ At("identities") \/ At("labels") \/ At("label text") =>
           writer.left = <<>> /\ HasDirectory(writer.cmd)
    /\ At("label text") => writer.cmd.name = "generate"

ReaderTyped ==
    reader \in [at : {"idle", "identities", "labels", "loaded"}, events : Seq(Written),
                identities : {reader.identities}, labels : {reader.labels}, alone : BOOLEAN]

Typed ==
    /\ events \in EventsFile \cup {Absent}
    /\ IsDirectory(identities)
    /\ WriterTyped
    /\ ReaderTyped
    /\ done \in Seq(Commands)
    /\ typed \in 0..MaxCommands
    /\ Len(done) + (IF At("idle") THEN 0 ELSE 1) <= typed
    /\ sound \in BOOLEAN

WrittenBy(cmds) == FlattenSeq([i \in DOMAIN cmds |-> Batch[cmds[i]]])

\* events.jsonl between two commands, and while one writes it.
EventsLast ==
    (At("idle") \/ At("open")) /\ sound =>
        IF done = <<>> THEN events = Absent
        ELSE events = [lines |-> WrittenBy(done), tail |-> "ended"]

Before == IF Appends(writer.cmd) THEN WrittenBy(done) ELSE <<>>

EventsGrow ==
    /\ At("open") => writer.left = Batch[writer.cmd]
    /\ ~At("idle") /\ ~At("open") /\ (sound \/ ~Appends(writer.cmd)) =>
           /\ events.lines \o writer.left = Before \o Batch[writer.cmd]
           /\ events.tail = IF At("half") THEN "cut" ELSE "ended"

IdentitiesLast ==
    At("labels") \/ At("label text") \/ (sound /\ ~At("identities")) => identities = directory

LabelsOf(cmds) ==
    IF cmds # <<>> /\ cmds[1].name = "generate" THEN cmds[1].labels ELSE Absent

LabelsLast == sound /\ ~At("label text") => labels = LabelsOf(done)

\* A run that was alone until now has read what the files hold.
ReadAlone ==
    /\ reader.alone => At("idle")
    /\ reader.alone /\ reader.at # "idle" =>
           events # Absent /\ reader.events = events.lines
    /\ reader.alone /\ reader.at \in {"labels", "loaded"} => reader.identities = identities
    /\ reader.alone /\ reader.at = "loaded" => reader.labels = labels

IInv ==
    /\ Typed
    /\ EventsLast /\ EventsGrow
    /\ IdentitiesLast /\ LabelsLast
    /\ ReadAlone

----------------------------------------------------------------------------
(* Facts that the steps need.                                              *)

LEMMA WrittenByNothing == WrittenBy(<<>>) = <<>>
<1>1. [i \in DOMAIN <<>> |-> Batch[<<>>[i]]] = <<>>
  OBVIOUS
<1> QED
  BY <1>1, FlattenNothing DEF WrittenBy

LEMMA BatchesTyped ==
    ASSUME NEW cmds \in Seq(Commands)
    PROVE  [i \in DOMAIN cmds |-> Batch[cmds[i]]] \in Seq(Seq(FileLine))
<1>1. PICK n \in Nat : n = Len(cmds) /\ DOMAIN cmds = 1..n
  BY LenProperties
<1>2. \A i \in 1..n : cmds[i] \in Commands
  BY <1>1, LenProperties
<1>3. PICK x : x = [i \in 1..n |-> Batch[cmds[i]]]
  OBVIOUS
<1>4. x = [i \in 1..n |-> x[i]] /\ \A i \in 1..n : x[i] = Batch[cmds[i]]
  BY <1>3
<1>5. \A i \in 1..n : x[i] \in Seq(FileLine)
  BY <1>2, <1>4, BatchIsWritten
<1>6. x \in Seq(Seq(FileLine))
  BY <1>4, <1>5, SequenceOf
<1> QED
  BY <1>1, <1>3, <1>6

LEMMA WrittenByTyped ==
    ASSUME NEW cmds \in Seq(Commands)
    PROVE  WrittenBy(cmds) \in Seq(FileLine)
BY BatchesTyped, FlattenTyped DEF WrittenBy

LEMMA WrittenByAppends ==
    ASSUME NEW cmds \in Seq(Commands), NEW cmd \in Commands
    PROVE  WrittenBy(Append(cmds, cmd)) = WrittenBy(cmds) \o Batch[cmd]
<1>1. PICK n \in Nat : n = Len(cmds) /\ DOMAIN cmds = 1..n
  BY LenProperties
<1>2. PICK more \in Seq(Commands) : more = Append(cmds, cmd)
  BY AppendProperties
<1>3. /\ DOMAIN more = 1..(n + 1) /\ more[n + 1] = cmd
      /\ \A i \in 1..n : more[i] = cmds[i]
  <2>1. Len(more) = n + 1
    BY <1>1, <1>2, AppendProperties
  <2> QED
    BY <1>1, <1>2, <2>1, AppendProperties, LenProperties
<1>4. PICK x \in Seq(Seq(FileLine)) : x = [i \in DOMAIN cmds |-> Batch[cmds[i]]]
  BY BatchesTyped
<1>5. PICK y \in Seq(Seq(FileLine)) : y = [i \in DOMAIN more |-> Batch[more[i]]]
  BY BatchesTyped
<1>6. PICK b \in Seq(FileLine) : b = Batch[cmd]
  BY BatchIsWritten
<1>7. /\ Len(x) = n /\ \A i \in 1..n : x[i] = Batch[cmds[i]]
      /\ Len(y) = n + 1 /\ \A i \in 1..(n + 1) : y[i] = Batch[more[i]]
  BY <1>1, <1>3, <1>4, <1>5
<1>8. PICK z \in Seq(Seq(FileLine)) : z = Append(x, b)
  BY AppendProperties
<1>9. Len(z) = n + 1 /\ z[n + 1] = b /\ \A i \in 1..n : z[i] = x[i]
  BY <1>7, <1>8, AppendProperties
<1>10. \A i \in 1..(n + 1) : y[i] = z[i]
  <2> SUFFICES ASSUME NEW i \in 1..(n + 1) PROVE y[i] = z[i]
    OBVIOUS
  <2>1. CASE i = n + 1
    BY <1>3, <1>6, <1>7, <1>9, <2>1
  <2>2. CASE i # n + 1
    <3>1. i \in 1..n
      BY <2>2
    <3>2. more[i] = cmds[i] /\ z[i] = x[i]
      BY <1>3, <1>9, <3>1
    <3>3. y[i] = Batch[more[i]]
      BY <1>7
    <3>4. x[i] = Batch[cmds[i]]
      BY <1>7, <3>1
    <3> QED
      BY <3>2, <3>3, <3>4
  <2> QED
    BY <2>1, <2>2
<1>11. y = z
  <2>1. PICK m \in Nat : m = n + 1
    OBVIOUS
  <2>2. y = [i \in 1..m |-> y[i]] /\ z = [i \in 1..m |-> z[i]]
    <3>1. Len(y) = m /\ Len(z) = m
      BY <1>7, <1>9, <2>1
    <3> QED
      BY <3>1, LenProperties
  <2>3. [i \in 1..m |-> y[i]] = [i \in 1..m |-> z[i]]
    BY <1>10, <2>1
  <2> QED
    BY <2>2, <2>3
<1>12. FlattenSeq(z) = FlattenSeq(x) \o b
  BY <1>8, FlattenAppends
<1>13. WrittenBy(cmds) = FlattenSeq(x) /\ WrittenBy(Append(cmds, cmd)) = FlattenSeq(y)
  BY <1>2, <1>4, <1>5 DEF WrittenBy
<1> QED
  BY <1>6, <1>11, <1>12, <1>13

LEMMA WrittenByOne ==
    ASSUME NEW cmd \in Commands
    PROVE  WrittenBy(<<cmd>>) = Batch[cmd]
<1>1. <<cmd>> = Append(<<>>, cmd) /\ <<>> \in Seq(Commands)
  BY EmptySeq
<1>2. WrittenBy(<<cmd>>) = WrittenBy(<<>>) \o Batch[cmd]
  BY <1>1, WrittenByAppends
<1> QED
  BY <1>2, WrittenByNothing, BatchIsWritten, ConcatEmptySeq

\* Moving the next line from what is left to the file.
LEMMA LineMoves ==
    ASSUME NEW S, NEW u \in Seq(S), NEW v \in Seq(S), v # <<>>
    PROVE  /\ Append(u, Head(v)) \o Tail(v) = u \o v
           /\ Append(u, Head(v)) \in Seq(S) /\ Tail(v) \in Seq(S) /\ Head(v) \in S
<1>1. /\ Tail(v) \in Seq(S) /\ Head(v) \in S /\ Len(v) # 0
      /\ Append(u, Head(v)) \in Seq(S)
  BY EmptySeq, HeadTailProperties, AppendProperties
<1>2. Append(u, Head(v)) \o Tail(v) = u \o v
  OBVIOUS
<1> QED
  BY <1>1, <1>2

LEMMA DirectoryTyped ==
    ASSUME NEW cmd \in Commands
    PROVE  None \notin DOMAIN Directory(cmd)
<1>1. CASE IsGenerate(cmd)
  BY <1>1 DEF IsGenerate, Directory
<1>2. ASSUME NEW format \in Formats, cmd \in Imports(format)
      PROVE  None \notin DOMAIN Directory(cmd)
  <2>1. cmd.name = "import"
    BY <1>2 DEF Imports
  <2>2. None \notin DOMAIN load_identities_csv(cmd.identities)
    BY DEF load_identities_csv
  <2> QED
    BY <2>1, <2>2 DEF Directory
<1> QED
  BY <1>1, <1>2, DatasetAssumption

LEMMA CommandNames ==
    ASSUME NEW cmd \in Commands
    PROVE  cmd.name = "generate" \/ (cmd.name = "import" /\ cmd.append \in BOOLEAN)
BY DatasetAssumption DEF IsGenerate, Imports


----------------------------------------------------------------------------
(* Every step keeps it.                                                    *)

LEMMA EventsTyped ==
    ASSUME Typed, events # Absent
    PROVE  /\ events.lines \in Seq(FileLine) /\ events.tail \in {"ended", "cut", "glued"}
           /\ events = [lines |-> events.lines, tail |-> events.tail]
BY DEF Typed, EventsFile

LEMMA WriterIs ==
    ASSUME Typed
    PROVE  /\ writer \in [at : Places, cmd : Commands \cup {None}, left : Seq(FileLine)]
           /\ writer.at \in Places /\ writer.left \in Seq(FileLine)
           /\ ~At("idle") => writer.cmd \in Commands
BY DEF Typed, WriterTyped

LEMMA InitHolds ==
    ASSUME Init
    PROVE  IInv
<1>1. <<>> \in Seq(FileLine) /\ <<>> \in Seq(Written) /\ <<>> \in Seq(Commands) /\ Len(<<>>) = 0
  BY EmptySeq
<1>2. WriterTyped
  BY <1>1 DEF Init, Idle, WriterTyped, At, Places
<1>3. ReaderTyped
  BY <1>1 DEF Init, NoRun, ReaderTyped
<1>4. Typed
  BY <1>1, <1>2, <1>3, DatasetAssumption DEF Init, Typed, IsDirectory, Idle, At
<1>5. EventsLast /\ EventsGrow
  BY DEF Init, Idle, EventsLast, EventsGrow, At
<1>6. IdentitiesLast /\ LabelsLast
  BY DEF Init, Idle, IdentitiesLast, LabelsLast, LabelsOf, At
<1>7. ReadAlone
  BY DEF Init, NoRun, ReadAlone
<1> QED
  BY <1>4, <1>5, <1>6, <1>7 DEF IInv

LEMMA StutterKeeps ==
    ASSUME IInv, UNCHANGED vars
    PROVE  IInv'
<1>1. Typed'
  BY DEF IInv, Typed, IsDirectory, WriterTyped, ReaderTyped, At, vars
<1>2. EventsLast' /\ EventsGrow'
  BY DEF IInv, EventsLast, EventsGrow, Before, At, vars
<1>3. IdentitiesLast' /\ LabelsLast' /\ ReadAlone'
  BY DEF IInv, IdentitiesLast, LabelsLast, ReadAlone, At, vars
<1> QED
  BY <1>1, <1>2, <1>3 DEF IInv

LEMMA TypeCommandKeeps ==
    ASSUME IInv, NEW cmd \in Commands, TypeCommand(cmd)
    PROVE  IInv'
<1>1. Typed /\ At("idle") /\ cmd # None
  BY DatasetAssumption DEF IInv, TypeCommand
<1>2. Batch[cmd] \in Seq(FileLine)
  BY BatchIsWritten
<1>3. WriterTyped'
  BY <1>1, <1>2 DEF TypeCommand, WriterTyped, At, Places
<1>4. ReaderTyped'
  BY <1>1 DEF TypeCommand, Typed, ReaderTyped
<1>5. done' = done /\ sound' = sound /\ events' = events /\ identities' = identities
  BY DEF TypeCommand, files, history
<1>6. Len(done)' + 1 <= typed' /\ typed' \in 0..MaxCommands
  <2>1. Len(done) \in Nat /\ Len(done) <= typed /\ typed \in Nat /\ typed < MaxCommands
    BY <1>1, LenProperties DEF TypeCommand, Typed
  <2>2. typed' = typed + 1
    BY DEF TypeCommand
  <2> QED
    BY <1>5, <2>1, <2>2, DatasetAssumption
<1>7. Typed'
  BY <1>1, <1>3, <1>4, <1>5, <1>6 DEF Typed, IsDirectory, TypeCommand, At
<1>8. EventsLast' /\ EventsGrow'
  BY <1>1, <1>5 DEF IInv, EventsLast, EventsGrow, TypeCommand, At
<1>9. IdentitiesLast' /\ LabelsLast'
  BY <1>1 DEF IInv, IdentitiesLast, LabelsLast, TypeCommand, At, files, history
<1>10. ReadAlone'
  BY <1>1 DEF IInv, Typed, ReaderTyped, ReadAlone, TypeCommand
<1> QED
  BY <1>7, <1>8, <1>9, <1>10 DEF IInv

LEMMA OpenEventsKeeps ==
    ASSUME IInv, OpenEvents
    PROVE  IInv'
<1>1. Typed /\ At("open") /\ writer.cmd \in Commands /\ writer.left = Batch[writer.cmd]
  BY WriterIs DEF IInv, OpenEvents, EventsGrow, At
<1>2. /\ writer' = [writer EXCEPT !.at = "lines"]
      /\ writer'.at = "lines" /\ writer'.cmd = writer.cmd /\ writer'.left = writer.left
  BY <1>1, WriterIs DEF OpenEvents
<1>3. /\ identities' = identities /\ labels' = labels /\ reader' = reader /\ typed' = typed
      /\ done' = done /\ directory' = directory /\ sound' = sound
  BY DEF OpenEvents, history
<1>4. events' \in EventsFile
  BY <1>1, EmptySeq DEF OpenEvents, Typed, EventsFile
<1>5. WriterTyped'
  BY <1>1, <1>2, <1>4, WriterIs, DatasetAssumption DEF Typed, WriterTyped, At, Places
<1>6. Typed'
  BY <1>1, <1>2, <1>3, <1>4, <1>5 DEF Typed, IsDirectory, ReaderTyped, At
<1>7. EventsLast' /\ IdentitiesLast' /\ LabelsLast'
  BY <1>1, <1>2, <1>3 DEF IInv, EventsLast, IdentitiesLast, LabelsLast, At
<1>8. EventsGrow'
  <2>1. ASSUME sound \/ ~Appends(writer.cmd)
        PROVE  /\ events'.lines \o writer.left = Before \o Batch[writer.cmd]
               /\ events'.tail = "ended"
    <3>1. CASE Appends(writer.cmd) /\ events # Absent
      <4>1. sound /\ done # <<>>
        BY <1>1, <2>1, <3>1 DEF IInv, EventsLast
      <4>2. events = [lines |-> WrittenBy(done), tail |-> "ended"]
        BY <1>1, <4>1 DEF IInv, EventsLast
      <4>3. events' = events /\ Before = WrittenBy(done)
        BY <3>1 DEF OpenEvents, Before
      <4> QED
        BY <1>1, <4>2, <4>3
    <3>2. CASE Appends(writer.cmd) /\ events = Absent
      <4>1. sound
        BY <2>1, <3>2
      <4>2. done = <<>>
        <5>1. WrittenBy(done) \in Seq(FileLine)
          BY <1>1, WrittenByTyped DEF Typed
        <5>2. [lines |-> WrittenBy(done), tail |-> "ended"] \in EventsFile
          BY <5>1 DEF EventsFile
        <5> QED
          BY <1>1, <3>2, <4>1, <5>2, DatasetAssumption DEF IInv, EventsLast
      <4>3. Before = <<>>
        BY <3>2, <4>2, WrittenByNothing DEF Before
      <4>4. events' = [lines |-> <<>>, tail |-> "ended"]
        BY <3>2 DEF OpenEvents
      <4> QED
        BY <1>1, <4>3, <4>4
    <3>3. CASE ~Appends(writer.cmd)
      <4>1. Before = <<>> /\ events' = [lines |-> <<>>, tail |-> "ended"]
        BY <3>3 DEF Before, OpenEvents
      <4> QED
        BY <1>1, <4>1
    <3> QED
      BY <3>1, <3>2, <3>3
  <2>2. Before' = Before
    BY <1>2, <1>3 DEF Before
  <2> QED
    BY <1>2, <1>3, <2>1, <2>2 DEF EventsGrow, At
<1>9. ReadAlone'
  BY <1>1, <1>3 DEF IInv, ReadAlone, At
<1> QED
  BY <1>6, <1>7, <1>8, <1>9 DEF IInv

LEMMA WriteHalfKeeps ==
    ASSUME IInv, WriteHalf
    PROVE  IInv'
<1>1. Typed /\ At("lines") /\ writer.cmd \in Commands /\ writer.left # <<>> /\ events # Absent
  BY WriterIs DEF IInv, WriteHalf, At, Typed, WriterTyped
<1>2. /\ writer' = [writer EXCEPT !.at = "half"]
      /\ writer'.at = "half" /\ writer'.cmd = writer.cmd /\ writer'.left = writer.left
  BY <1>1, WriterIs DEF WriteHalf
<1>3. /\ identities' = identities /\ labels' = labels /\ reader' = reader /\ typed' = typed
      /\ done' = done /\ directory' = directory /\ sound' = sound
  BY DEF WriteHalf, history
<1>4. /\ events'.lines = events.lines
      /\ events'.tail = IF events.tail = "ended" THEN "cut" ELSE "glued"
      /\ events' \in EventsFile
  BY <1>1 DEF WriteHalf, Typed, EventsFile
<1>5. WriterTyped'
  BY <1>1, <1>2, <1>4, WriterIs, DatasetAssumption DEF Typed, WriterTyped, At, Places
<1>6. Typed'
  BY <1>1, <1>2, <1>3, <1>4, <1>5 DEF Typed, IsDirectory, ReaderTyped, At
<1>7. EventsLast' /\ IdentitiesLast' /\ LabelsLast'
  BY <1>1, <1>2, <1>3 DEF IInv, EventsLast, IdentitiesLast, LabelsLast, At
<1>8. EventsGrow'
  BY <1>1, <1>2, <1>3, <1>4 DEF IInv, EventsGrow, Before, At
<1>9. ReadAlone'
  BY <1>1, <1>3 DEF IInv, ReadAlone, At
<1> QED
  BY <1>6, <1>7, <1>8, <1>9 DEF IInv

LEMMA WriteLineKeeps ==
    ASSUME IInv, WriteLine
    PROVE  IInv'
<1>1. /\ Typed
      /\ At("lines") \/ At("half")
      /\ writer.cmd \in Commands /\ writer.left # <<>> /\ events # Absent
  BY WriterIs DEF IInv, WriteLine, At, Typed, WriterTyped
<1>2. /\ writer' = [writer EXCEPT !.at = "lines", !.left = Tail(writer.left)]
      /\ writer'.at = "lines" /\ writer'.cmd = writer.cmd /\ writer'.left = Tail(writer.left)
  BY <1>1, WriterIs DEF WriteLine
<1>3. /\ identities' = identities /\ labels' = labels /\ reader' = reader /\ typed' = typed
      /\ done' = done /\ directory' = directory /\ sound' = sound
  BY DEF WriteLine, history
<1>4. events.lines \in Seq(FileLine) /\ writer.left \in Seq(FileLine)
  BY <1>1, EventsTyped, WriterIs
<1>5. /\ Tail(writer.left) \in Seq(FileLine) /\ Head(writer.left) \in FileLine
      /\ Append(events.lines, Head(writer.left)) \o Tail(writer.left)
             = events.lines \o writer.left
  BY <1>1, <1>4, LineMoves
<1>6. PICK line : /\ line \in FileLine
                  /\ events' = [lines |-> Append(events.lines, line), tail |-> "ended"]
                  /\ events.tail = (IF At("half") THEN "cut" ELSE "ended")
                         => line = Head(writer.left)
  <2>1. Garbled \in FileLine
    BY DEF FileLine
  <2> QED
    BY <1>5, <2>1 DEF WriteLine
<1>7. events' \in EventsFile
  BY <1>4, <1>6, AppendProperties DEF EventsFile
<1>8. WriterTyped'
  BY <1>1, <1>2, <1>5, <1>7, WriterIs, DatasetAssumption DEF Typed, WriterTyped, At, Places
<1>9. Typed'
  BY <1>1, <1>2, <1>3, <1>7, <1>8 DEF Typed, IsDirectory, ReaderTyped, At
<1>10. EventsLast' /\ IdentitiesLast' /\ LabelsLast'
  BY <1>1, <1>2, <1>3 DEF IInv, EventsLast, IdentitiesLast, LabelsLast, At
<1>11. EventsGrow'
  <2>1. ASSUME sound \/ ~Appends(writer.cmd)
        PROVE  /\ events'.lines \o Tail(writer.left) = Before \o Batch[writer.cmd]
               /\ events'.tail = "ended"
    <3>1. /\ events.lines \o writer.left = Before \o Batch[writer.cmd]
          /\ events.tail = IF At("half") THEN "cut" ELSE "ended"
      BY <1>1, <2>1 DEF IInv, EventsGrow, At
    <3>2. events' = [lines |-> Append(events.lines, Head(writer.left)), tail |-> "ended"]
      BY <1>6, <3>1
    <3> QED
      BY <1>5, <3>1, <3>2
  <2>2. Before' = Before
    BY <1>2, <1>3 DEF Before
  <2> QED
    BY <1>2, <1>3, <2>1, <2>2 DEF EventsGrow, At
<1>12. ReadAlone'
  BY <1>1, <1>3 DEF IInv, ReadAlone, At
<1> QED
  BY <1>9, <1>10, <1>11, <1>12 DEF IInv

LEMMA TruncateIdentitiesKeeps ==
    ASSUME IInv, TruncateIdentities
    PROVE  IInv'
<1>1. /\ Typed /\ At("lines") /\ writer.cmd \in Commands /\ writer.left = <<>>
      /\ events # Absent /\ HasDirectory(writer.cmd)
  BY WriterIs DEF IInv, TruncateIdentities, At, Typed, WriterTyped
<1>2. /\ writer' = [writer EXCEPT !.at = "identities"]
      /\ writer'.at = "identities" /\ writer'.cmd = writer.cmd /\ writer'.left = writer.left
  BY <1>1, WriterIs DEF TruncateIdentities
<1>3. /\ events' = events /\ labels' = labels /\ reader' = reader /\ typed' = typed
      /\ done' = done /\ directory' = directory /\ sound' = sound /\ identities' = Torn
  BY DEF TruncateIdentities, history
<1>4. WriterTyped'
  BY <1>1, <1>2, <1>3, WriterIs, DatasetAssumption DEF Typed, WriterTyped, At, Places
<1>5. Typed'
  BY <1>1, <1>2, <1>3, <1>4 DEF Typed, IsDirectory, ReaderTyped, At
<1>6. EventsLast' /\ IdentitiesLast' /\ LabelsLast'
  BY <1>1, <1>2, <1>3 DEF IInv, EventsLast, IdentitiesLast, LabelsLast, At
<1>7. EventsGrow'
  BY <1>1, <1>2, <1>3 DEF IInv, EventsGrow, Before, At
<1>8. ReadAlone'
  BY <1>1, <1>3 DEF IInv, ReadAlone, At
<1> QED
  BY <1>5, <1>6, <1>7, <1>8 DEF IInv

LEMMA WriteIdentitiesKeeps ==
    ASSUME IInv, WriteIdentities
    PROVE  IInv'
<1>1. /\ Typed /\ At("identities") /\ writer.cmd \in Commands /\ writer.left = <<>>
      /\ events # Absent /\ HasDirectory(writer.cmd)
  BY WriterIs DEF IInv, WriteIdentities, At, Typed, WriterTyped
<1>2. /\ writer' = [writer EXCEPT !.at = "labels"]
      /\ writer'.at = "labels" /\ writer'.cmd = writer.cmd /\ writer'.left = writer.left
  BY <1>1, WriterIs DEF WriteIdentities
<1>3. /\ events' = events /\ labels' = labels /\ reader' = reader /\ typed' = typed
      /\ done' = done /\ sound' = sound
      /\ identities' = Directory(writer.cmd) /\ directory' = Directory(writer.cmd)
  BY DEF WriteIdentities
<1>4. WriterTyped'
  BY <1>1, <1>2, <1>3, WriterIs, DatasetAssumption DEF Typed, WriterTyped, At, Places
<1>5. IsDirectory(identities')
  BY <1>1, <1>3, DirectoryTyped DEF IsDirectory
<1>6. Typed'
  BY <1>1, <1>2, <1>3, <1>4, <1>5 DEF Typed, ReaderTyped, At
<1>7. EventsLast' /\ IdentitiesLast' /\ LabelsLast'
  BY <1>1, <1>2, <1>3 DEF IInv, EventsLast, IdentitiesLast, LabelsLast, At
<1>8. EventsGrow'
  BY <1>1, <1>2, <1>3 DEF IInv, EventsGrow, Before, At
<1>9. ReadAlone'
  BY <1>1, <1>3 DEF IInv, ReadAlone, At
<1> QED
  BY <1>6, <1>7, <1>8, <1>9 DEF IInv

LEMMA TruncateLabelsKeeps ==
    ASSUME IInv, TruncateLabels
    PROVE  IInv'
<1>1. /\ Typed /\ At("labels") /\ writer.cmd \in Commands /\ writer.left = <<>>
      /\ events # Absent /\ HasDirectory(writer.cmd) /\ writer.cmd.name = "generate"
  BY WriterIs DEF IInv, TruncateLabels, At, Typed, WriterTyped
<1>2. /\ writer' = [writer EXCEPT !.at = "label text"]
      /\ writer'.at = "label text" /\ writer'.cmd = writer.cmd /\ writer'.left = writer.left
  BY <1>1, WriterIs DEF TruncateLabels
<1>3. /\ events' = events /\ identities' = identities /\ reader' = reader /\ typed' = typed
      /\ done' = done /\ directory' = directory /\ sound' = sound
  BY DEF TruncateLabels, history
<1>4. WriterTyped'
  BY <1>1, <1>2, <1>3, WriterIs, DatasetAssumption DEF Typed, WriterTyped, At, Places
<1>5. Typed'
  BY <1>1, <1>2, <1>3, <1>4 DEF Typed, IsDirectory, ReaderTyped, At
<1>6. EventsLast' /\ IdentitiesLast' /\ LabelsLast'
  BY <1>1, <1>2, <1>3 DEF IInv, EventsLast, IdentitiesLast, LabelsLast, At
<1>7. EventsGrow'
  BY <1>1, <1>2, <1>3 DEF IInv, EventsGrow, Before, At
<1>8. ReadAlone'
  BY <1>1, <1>3 DEF IInv, ReadAlone, At
<1> QED
  BY <1>5, <1>6, <1>7, <1>8 DEF IInv



LEMMA FinishKeeps ==
    ASSUME IInv, Finish
    PROVE  IInv'
<1>1. PICK cmd : cmd = writer.cmd
  OBVIOUS
<1>2. /\ Typed /\ ~At("idle") /\ ~At("open") /\ ~At("half") /\ ~At("identities")
      /\ cmd \in Commands /\ writer.left = <<>> /\ events # Absent
  BY <1>1, WriterIs DEF IInv, Finish, At, Typed, WriterTyped
<1>3. /\ labels' = FinalLabels(cmd)
      /\ done' = IF Appends(cmd) THEN Append(done, cmd) ELSE <<cmd>>
      /\ sound' = (sound \/ (HasDirectory(cmd) /\ ~Appends(cmd)))
      /\ writer' = Idle
      /\ events' = events /\ identities' = identities /\ reader' = reader /\ typed' = typed
      /\ directory' = directory
  BY <1>1 DEF Finish
<1>4. done \in Seq(Commands) /\ sound \in BOOLEAN
  BY <1>2 DEF Typed
<1>5. Append(done, cmd) \in Seq(Commands) /\ <<cmd>> \in Seq(Commands)
  BY <1>2, <1>4, AppendProperties
<1>6. Len(done') <= typed
  <2>1. Len(done) + 1 <= typed /\ Len(done) \in Nat /\ typed \in Nat
    BY <1>2, <1>4, LenProperties DEF Typed
  <2>2. Len(Append(done, cmd)) = Len(done) + 1 /\ Len(<<cmd>>) = 1
    BY <1>2, <1>4, AppendProperties
  <2> QED
    BY <1>3, <2>1, <2>2
<1>7. writer'.at = "idle" /\ writer'.cmd = None /\ writer'.left = <<>>
  BY <1>3 DEF Idle
<1>8. WriterTyped'
  BY <1>3, <1>7, EmptySeq DEF WriterTyped, Idle, At, Places
<1>9. Typed'
  <2>1. done' \in Seq(Commands) /\ sound' \in BOOLEAN
    BY <1>3, <1>4, <1>5
  <2>2. Len(done)' + 0 <= typed'
    BY <1>2, <1>3, <1>5, <1>6, LenProperties DEF Typed
  <2> QED
    BY <1>2, <1>3, <1>7, <1>8, <2>1, <2>2 DEF Typed, IsDirectory, ReaderTyped, At
<1>10. EventsLast'
  <2>1. ASSUME sound'
        PROVE  done' # <<>> /\ events = [lines |-> WrittenBy(done'), tail |-> "ended"]
    <3>1. sound \/ ~Appends(cmd)
      BY <1>3, <2>1
    <3>2. /\ events.lines \o <<>> = Before \o Batch[cmd]
          /\ events.tail = "ended"
      BY <1>1, <1>2, <3>1 DEF IInv, EventsGrow
    <3>3. /\ events.lines \in Seq(FileLine)
          /\ events = [lines |-> events.lines, tail |-> events.tail]
      BY <1>2, EventsTyped
    <3>4. events.lines \o <<>> = events.lines
      BY <3>3, ConcatEmptySeq
    <3>5. Before \o Batch[cmd] = WrittenBy(done') /\ done' # <<>>
      <4>1. CASE Appends(cmd)
        <5>1. Before = WrittenBy(done) /\ done' = Append(done, cmd)
          BY <1>1, <1>3, <4>1 DEF Before
        <5>2. Append(done, cmd) # <<>>
          BY <1>2, <1>4, AppendProperties
        <5> QED
          BY <1>2, <1>4, <5>1, <5>2, WrittenByAppends
      <4>2. CASE ~Appends(cmd)
        <5>1. Before = <<>> /\ done' = <<cmd>>
          BY <1>1, <1>3, <4>2 DEF Before
        <5>2. <<>> \o Batch[cmd] = Batch[cmd]
          BY <1>2, BatchIsWritten, ConcatEmptySeq
        <5>3. <<cmd>> # <<>>
          OBVIOUS
        <5> QED
          BY <1>2, <5>1, <5>2, <5>3, WrittenByOne
      <4> QED
        BY <4>1, <4>2
    <3> QED
      BY <3>2, <3>3, <3>4, <3>5
  <2> QED
    BY <1>3, <2>1 DEF EventsLast
<1>11. EventsGrow'
  BY <1>7 DEF EventsGrow, At
<1>12. IdentitiesLast'
  <2>1. ASSUME sound'
        PROVE  identities = directory
    <3>1. CASE sound
      BY <1>2, <3>1 DEF IInv, IdentitiesLast
    <3>2. CASE HasDirectory(cmd)
      <4>1. At("labels") \/ At("label text")
        BY <1>1, <3>2 DEF Finish, At
      <4> QED
        BY <4>1 DEF IInv, IdentitiesLast
    <3> QED
      BY <1>3, <2>1, <3>1, <3>2
  <2> QED
    BY <1>3, <1>7, <2>1 DEF IdentitiesLast, At
<1>13. LabelsLast'
  <2>1. ASSUME sound'
        PROVE  labels' = LabelsOf(done')
    <3>1. CASE cmd.name = "generate"
      <4>1. labels' = cmd.labels /\ done' = <<cmd>>
        BY <1>3, <3>1 DEF FinalLabels, Appends
      <4> QED
        BY <3>1, <4>1 DEF LabelsOf
    <3>2. CASE cmd.name = "import" /\ cmd.append
      <4>1. /\ labels' = labels /\ done' = Append(done, cmd) /\ sound /\ ~At("label text")
        BY <1>1, <1>2, <1>3, <2>1, <3>2
        DEF FinalLabels, Appends, Typed, WriterTyped
      <4>2. labels = LabelsOf(done)
        BY <4>1 DEF IInv, LabelsLast
      <4>3. CASE done = <<>>
        <5>1. Append(done, cmd) = <<cmd>>
          BY <4>3
        <5>2. <<cmd>> # <<>> /\ <<cmd>>[1].name # "generate"
          BY <3>2
        <5>3. LabelsOf(<<cmd>>) = Absent
          BY <5>2 DEF LabelsOf
        <5>4. LabelsOf(<<>>) = Absent
          BY DEF LabelsOf
        <5> QED
          BY <4>1, <4>2, <4>3, <5>1, <5>3, <5>4
      <4>4. CASE done # <<>>
        <5>1. Len(done) \in Nat /\ Len(done) # 0
          BY <1>4, <4>4, EmptySeq, LenProperties
        <5>2. 1 \in 1..Len(done)
          BY <5>1
        <5>3. Append(done, cmd)[1] = done[1] /\ Append(done, cmd) # <<>>
          BY <1>2, <1>4, <5>2, AppendProperties
        <5> QED
          BY <4>1, <4>2, <4>4, <5>3 DEF LabelsOf
      <4> QED
        BY <4>3, <4>4
    <3>3. CASE cmd.name = "import" /\ ~cmd.append
      <4>1. labels' = Absent /\ done' = <<cmd>>
        BY <1>3, <3>3 DEF FinalLabels, Appends
      <4> QED
        BY <3>3, <4>1 DEF LabelsOf
    <3> QED
      BY <1>2, <3>1, <3>2, <3>3, CommandNames
  <2> QED
    BY <2>1 DEF LabelsLast
<1>14. ReadAlone'
  BY <1>2, <1>3 DEF IInv, ReadAlone
<1> QED
  BY <1>9, <1>10, <1>11, <1>12, <1>13, <1>14 DEF IInv

LEMMA WriterDiesKeeps ==
    ASSUME IInv, WriterDies
    PROVE  IInv'
<1>1. Typed /\ ~At("idle")
  BY DEF IInv, WriterDies
<1>2. /\ sound' = (sound /\ At("open"))
      /\ writer' = Idle
      /\ events' = events /\ identities' = identities /\ labels' = labels /\ reader' = reader
      /\ typed' = typed /\ done' = done /\ directory' = directory
  BY DEF WriterDies, files
<1>3. writer'.at = "idle" /\ writer'.cmd = None /\ writer'.left = <<>>
  BY <1>2 DEF Idle
<1>4. WriterTyped'
  BY <1>2, <1>3, EmptySeq DEF WriterTyped, Idle, At, Places
<1>5. Len(done)' + 0 <= typed'
  BY <1>1, <1>2, LenProperties DEF Typed
<1>6. Typed'
  BY <1>1, <1>2, <1>3, <1>4, <1>5 DEF Typed, IsDirectory, ReaderTyped, At
<1>7. EventsLast' /\ IdentitiesLast' /\ LabelsLast'
  BY <1>2, <1>3 DEF IInv, EventsLast, IdentitiesLast, LabelsLast, At
<1>8. EventsGrow'
  BY <1>3 DEF EventsGrow, At
<1>9. ReadAlone'
  BY <1>1, <1>2 DEF IInv, ReadAlone
<1> QED
  BY <1>6, <1>7, <1>8, <1>9 DEF IInv

\* Steps of the reader alone.
LEMMA ReaderKeeps ==
    ASSUME IInv, UNCHANGED <<files, writer, typed, history>>, ReaderTyped', ReadAlone'
    PROVE  IInv'
BY DEF IInv, Typed, IsDirectory, WriterTyped, EventsLast, EventsGrow, Before, IdentitiesLast,
       LabelsLast, At, files, history

LEMMA LoadEventsKeeps ==
    ASSUME IInv, LoadEvents
    PROVE  IInv'
<1>1. Typed /\ events # Absent /\ Garbled \notin ToSet(events.lines)
  BY DEF IInv, LoadEvents, Readable
<1>2. PICK s \in Seq(FileLine) : s = events.lines
  BY <1>1, EventsTyped
<1>3. s \in Seq(Written)
  <2>1. PICK n \in Nat : n = Len(s) /\ DOMAIN s = 1..n
    BY LenProperties
  <2>2. s = [i \in 1..n |-> s[i]] /\ \A i \in 1..n : s[i] \in FileLine
    BY <2>1, LenProperties
  <2>3. \A i \in 1..n : s[i] # Garbled
    BY <1>1, <1>2, <2>1 DEF ToSet
  <2>4. \A i \in 1..n : s[i] \in Written
    BY <2>2, <2>3, WrittenAttributed
  <2> QED
    BY <2>2, <2>4, SequenceOf
<1>4. reader' = [at |-> "identities", events |-> s, identities |-> Absent, labels |-> Absent,
                 alone |-> At("idle")]
  BY <1>2 DEF LoadEvents, NoRun
<1>5. ReaderTyped'
  BY <1>3, <1>4 DEF ReaderTyped, At
<1>6. ReadAlone'
  BY <1>1, <1>2, <1>4 DEF ReadAlone, LoadEvents, At, files
<1> QED
  BY <1>5, <1>6, ReaderKeeps DEF LoadEvents

LEMMA LoadIdentitiesKeeps ==
    ASSUME IInv, LoadIdentities
    PROVE  IInv'
<1>1. ReaderTyped /\ ReadAlone
  BY DEF IInv, Typed
<1>2. ReaderTyped'
  BY <1>1 DEF LoadIdentities, ReaderTyped
<1>3. ReadAlone'
  BY <1>1 DEF LoadIdentities, ReaderTyped, ReadAlone, At, files
<1> QED
  BY <1>2, <1>3, ReaderKeeps DEF LoadIdentities

LEMMA LoadLabelsKeeps ==
    ASSUME IInv, LoadLabels
    PROVE  IInv'
<1>1. ReaderTyped /\ ReadAlone
  BY DEF IInv, Typed
<1>2. ReaderTyped'
  BY <1>1 DEF LoadLabels, ReaderTyped
<1>3. ReadAlone'
  BY <1>1 DEF LoadLabels, ReaderTyped, ReadAlone, At, files
<1> QED
  BY <1>2, <1>3, ReaderKeeps DEF LoadLabels

LEMMA RunLeavesKeeps ==
    ASSUME IInv, RunLeaves
    PROVE  IInv'
<1>1. ReaderTyped' /\ ReadAlone'
  BY EmptySeq DEF RunLeaves, NoRun, ReaderTyped, ReadAlone
<1> QED
  BY <1>1, ReaderKeeps DEF RunLeaves

LEMMA StepKeeps ==
    ASSUME IInv, [Next]_vars
    PROVE  IInv'
<1>1. ASSUME NEW cmd \in Commands, TypeCommand(cmd) PROVE IInv'
  BY <1>1, TypeCommandKeeps
<1> QED
  BY <1>1, StutterKeeps, OpenEventsKeeps, WriteHalfKeeps, WriteLineKeeps,
     TruncateIdentitiesKeeps, WriteIdentitiesKeeps, TruncateLabelsKeeps, FinishKeeps,
     WriterDiesKeeps, LoadEventsKeeps, LoadIdentitiesKeeps, LoadLabelsKeeps, RunLeavesKeeps
  DEF Next

LEMMA Inductive == Spec => []IInv
<1>1. Init => IInv
  BY InitHolds
<1>2. IInv /\ [Next]_vars => IInv'
  BY StepKeeps
<1> QED
  BY <1>1, <1>2, PTL DEF Spec

----------------------------------------------------------------------------
(* The theorems.                                                           *)

LEMMA TypesFollow ==
    ASSUME IInv
    PROVE  TypeOK
<1>1. Typed
  BY DEF IInv
<1>2. events = Absent \/ /\ \A line \in ToSet(events.lines) : line = Garbled \/ IsEvent(line)
                         /\ events.tail \in {"ended", "cut", "glued"}
  <2>1. ASSUME events # Absent, NEW line \in ToSet(events.lines)
        PROVE  line = Garbled \/ IsEvent(line)
    <3>1. line \in FileLine
      BY <1>1, <2>1, EventsTyped, LenProperties DEF ToSet
    <3> QED
      BY <3>1, WrittenAttributed DEF IsAttributed
  <2> QED
    BY <1>1, <2>1, EventsTyped
<1>3. \A e \in ToSet(reader.events) : IsEvent(e)
  <2>1. reader.events \in Seq(Written)
    BY <1>1 DEF Typed, ReaderTyped
  <2>2. \A e \in ToSet(reader.events) : e \in Written
    BY <2>1, LenProperties DEF ToSet
  <2> QED
    BY <2>2, WrittenAttributed DEF IsAttributed
<1>4. Len(done) <= typed
  BY <1>1, LenProperties DEF Typed
<1>5. reader.at \in {"idle", "identities", "labels", "loaded"}
  BY <1>1 DEF Typed, ReaderTyped
<1> QED
  BY <1>1, <1>2, <1>3, <1>4, <1>5
  DEF Typed, IsDirectory, WriterTyped, TypeOK, At, Places

\* Type correctness: what the files hold are events, whoever died while writing them.
THEOREM TypeCorrect == Spec => []TypeOK
BY Inductive, TypesFollow, PTL

LEMMA RunSees ==
    ASSUME IInv
    PROVE  RunSeesTheDataset
<1> SUFFICES ASSUME reader.at = "loaded", reader.alone, sound
             PROVE  /\ reader.events = WrittenBy(done)
                    /\ reader.identities = directory
                    /\ reader.labels = (IF done[1].name = "generate" THEN done[1].labels
                                        ELSE Absent)
  BY DEF RunSeesTheDataset, WrittenBy
<1>1. /\ At("idle") /\ events # Absent /\ reader.events = events.lines
      /\ reader.identities = identities /\ reader.labels = labels
  BY DEF IInv, ReadAlone
<1>2. done # <<>> /\ events = [lines |-> WrittenBy(done), tail |-> "ended"]
  BY <1>1 DEF IInv, EventsLast
<1>3. identities = directory /\ labels = LabelsOf(done)
  BY <1>1 DEF IInv, IdentitiesLast, LabelsLast, At
<1> QED
  BY <1>1, <1>2, <1>3 DEF LabelsOf

\* A run that no command overlapped loads the one dataset the commands wrote, after
\* any deaths that a complete command has mended.
THEOREM RunsSeeTheDataset == Spec => []RunSeesTheDataset
BY Inductive, RunSees, PTL

LEMMA ActorsFollow ==
    ASSUME IInv
    PROVE  OneActorPerExtract
<1>1. ASSUME NEW e \in Imported
      PROVE  IsAttributed(e) /\ e.user # None /\ e.path \in Extracts
  <2>1. events # Absent /\ e \in ToSet(events.lines) /\ e # Garbled
    BY DEF Imported, Lines
  <2>2. e \in FileLine
    BY <2>1, EventsTyped, LenProperties DEF IInv, ToSet
  <2> QED
    BY <2>1, <2>2, WrittenAttributed DEF IsAttributed, IsEvent, Imported, Extracts
<1> SUFFICES ASSUME NEW e \in Imported, NEW f \in Imported, e.path = f.path,
                    Unambiguous(e.path), NEW row \in Listed(e.path, e.user),
                    NEW other \in Listed(f.path, f.user)
             PROVE  e.actor = f.actor <=> row.actor_id = other.actor_id
  BY DEF OneActorPerExtract
<1>2. e.actor = resolve(e.path, e.user) /\ f.actor = resolve(f.path, f.user)
  BY <1>1 DEF IsAttributed
<1>3. resolve(e.path, e.user) = row.actor_id
  BY <1>1, ListedIsResolved
<1>4. resolve(f.path, f.user) = other.actor_id
  BY <1>1, ListedIsResolved
<1> QED
  BY <1>2, <1>3, <1>4

\* Imports with one unambiguous extract give each person one actor.
THEOREM OneActorEach == Spec => []OneActorPerExtract
BY Inductive, ActorsFollow, PTL

LEMMA ImportIsOfAFormat ==
    ASSUME IInv, At("open"), writer.cmd.name = "import"
    PROVE  \E format \in Formats : /\ writer.cmd \in Imports(format)
                                   /\ writer.cmd.format = format
                                   /\ writer.left = import_files(writer.cmd)
<1>1. writer.cmd \in Commands /\ writer.left = Batch[writer.cmd]
  BY WriterIs DEF IInv, EventsGrow, At
<1>2. ~IsGenerate(writer.cmd)
  BY DEF IsGenerate
<1>3. PICK format \in Formats : writer.cmd \in Imports(format)
  BY <1>1, <1>2, DatasetAssumption
<1>4. writer.cmd.format = format
  BY <1>3 DEF Imports
<1>5. Batch[writer.cmd] = import_files(writer.cmd)
  BY <1>1 DEF Batch
<1> QED
  BY <1>1, <1>3, <1>4, <1>5

LEMMA AuditFollows ==
    ASSUME IInv
    PROVE  AuditEventsWhole
<1> SUFFICES ASSUME At("open"), writer.cmd.name = "import", writer.cmd.format = "auditd"
             PROVE  \A i \in DOMAIN writer.cmd.paths :
                        \A id \in KernelEvents(writer.cmd.paths[i]) :
                            (\A j \in DOMAIN writer.cmd.paths \ {i} :
                                id \notin KernelEvents(writer.cmd.paths[j])) =>
                            Own(writer.left, id) =
                                read_auditd(writer.cmd.identities,
                                            Alone(writer.cmd.paths[i], id))
  BY DEF AuditEventsWhole
<1>1. writer.cmd \in Imports("auditd") /\ writer.left = import_files(writer.cmd)
  BY ImportIsOfAFormat
<1> QED
  BY <1>1, AuditImported

\* Whatever lies between the lines of a kernel event, it is imported as if it were alone.
THEOREM AuditEventsAreWhole == Spec => []AuditEventsWhole
BY Inductive, AuditFollows, PTL

LEMMA GateFollows ==
    ASSUME IInv
    PROVE  GateStripsOnlyFields
<1> SUFFICES ASSUME At("open"), writer.cmd.name = "import", writer.cmd.format # "auditd"
             PROVE  /\ Len(writer.left) = Len(Ungated(writer.cmd))
                    /\ \A i \in DOMAIN Ungated(writer.cmd) :
                           Stripped(writer.left[i], Ungated(writer.cmd)[i])
  BY DEF GateStripsOnlyFields, Stripped
<1>1. PICK format \in Formats : /\ writer.cmd \in Imports(format)
                                /\ writer.cmd.format = format
                                /\ writer.left = import_files(writer.cmd)
  BY ImportIsOfAFormat
<1>2. Twins(writer.left, Ungated(writer.cmd))
  BY <1>1, ImportGated
<1>3. DOMAIN Ungated(writer.cmd) = 1..Len(Ungated(writer.cmd))
  BY <1>1, ImportGated, LenProperties
<1> QED
  BY <1>2, <1>3 DEF Twins

\* The gate takes fields, never an event, an actor, a time or an action.
THEOREM GateOnlyStrips == Spec => []GateStripsOnlyFields
BY Inductive, GateFollows, PTL
====
