---- MODULE AuditChainProofs ----
(***************************************************************************)
(* Theorems about AuditChain, for any writers, any contents and any number *)
(* of entries.                                                             *)
(***************************************************************************)
EXTENDS AuditChain, SequenceTheorems, TLAPS

----------------------------------------------------------------------------
(* Facts about sequences.                                                  *)

\* t is s without its element at i.
IsWithout(S, s, i, t) ==
    /\ t \in Seq(S)
    /\ Len(t) = Len(s) - 1
    /\ \A k \in 1..(Len(s) - 1) :
         t[k] = (IF k < i THEN s[k] ELSE s[k + 1])

\* A sequence with a gap at i, put together from the two sides of the gap.
LEMMA JoinAroundGap ==
    ASSUME NEW S, NEW s \in Seq(S), NEW i \in 1..Len(s),
           NEW f \in Seq(S), NEW b \in Seq(S),
           Len(f) = i - 1,
           Len(b) = Len(s) - i,
           \A k \in 1..(i - 1) : f[k] = s[k],
           \A k \in 1..(Len(s) - i) : b[k] = s[k + i]
    PROVE  IsWithout(S, s, i, f \o b)
<1>1. Len(s) \in Nat /\ i \in Int /\ (i - 1) + (Len(s) - i) = Len(s) - 1
  BY LenProperties
<1>2. /\ f \o b \in Seq(S)
      /\ Len(f \o b) = Len(s) - 1
      /\ \A k \in 1..(Len(s) - 1) :
           (f \o b)[k] = (IF k <= i - 1 THEN f[k] ELSE b[k - (i - 1)])
  <2>1. /\ f \o b \in Seq(S)
        /\ Len(f \o b) = Len(f) + Len(b)
        /\ \A k \in 1..(Len(f) + Len(b)) :
             (f \o b)[k] = (IF k <= Len(f) THEN f[k] ELSE b[k - Len(f)])
    BY ConcatProperties, Zenon
  <2> QED
    BY <1>1, <2>1
<1>3. ASSUME NEW k \in 1..(Len(s) - 1)
      PROVE  (f \o b)[k] = (IF k < i THEN s[k] ELSE s[k + 1])
  <2>1. CASE k < i
    BY <1>1, <1>2, <2>1
  <2>2. CASE ~(k < i)
    <3>1. (f \o b)[k] = b[k - (i - 1)]
      <4>1. (f \o b)[k] = (IF k <= i - 1 THEN f[k] ELSE b[k - (i - 1)])
        BY <1>2
      <4>2. ~(k <= i - 1)
        BY <2>2
      <4> QED
        BY <4>1, <4>2
    <3>2. /\ k - (i - 1) \in 1..(Len(s) - i)
          /\ (k - (i - 1)) + i = k + 1
      BY <1>1, <2>2
    <3>3. b[k - (i - 1)] = s[(k - (i - 1)) + i]
      BY <3>2
    <3> QED
      BY <2>2, <3>1, <3>2, <3>3
  <2> QED
    BY <2>1, <2>2
<1> QED
  BY <1>2, <1>3 DEF IsWithout

\* What is left after an element is removed, and where.
LEMMA RemoveAtFacts ==
    ASSUME NEW S, NEW s \in Seq(S), NEW i \in 1..Len(s)
    PROVE  IsWithout(S, s, i, RemoveAt(s, i))
<1> DEFINE f == SubSeq(s, 1, i - 1)
           b == SubSeq(s, i + 1, Len(s))
<1>1. /\ f \in Seq(S)
      /\ Len(f) = i - 1
      /\ \A k \in 1..(i - 1) : f[k] = s[k]
  OBVIOUS
<1>2. /\ b \in Seq(S)
      /\ Len(b) = Len(s) - i
      /\ \A k \in 1..(Len(s) - i) : b[k] = s[k + i]
  OBVIOUS
<1>3. RemoveAt(s, i) = f \o b
  BY DEF RemoveAt
<1> HIDE DEF f, b
<1> QED
  BY <1>1, <1>2, <1>3, JoinAroundGap

\* A hash determines the parent's hash and the contents it was made from.
LEMMA HashInjective ==
    ASSUME NEW p \in Hash, NEW q \in Hash, NEW a \in Body, NEW b \in Body
    PROVE  /\ EntryHash(p, a) \in Hash
           /\ Len(EntryHash(p, a)) = Len(p) + 1
           /\ EntryHash(p, a) = EntryHash(q, b) => p = q /\ a = b
<1>1. /\ EntryHash(p, a) \in Hash
      /\ Len(EntryHash(p, a)) = Len(p) + 1
  BY DEF EntryHash, Hash
<1>2. ASSUME EntryHash(p, a) = EntryHash(q, b)
      PROVE  p = q /\ a = b
  BY <1>2, AppendProperties DEF EntryHash, Hash
<1> QED
  BY <1>1, <1>2

----------------------------------------------------------------------------
(* Type correctness.                                                       *)

LEMMA LastTyped ==
    ASSUME TypeOK
    PROVE  LastHash \in Hash /\ LastSeq \in Nat
<1>1. GENESIS \in Hash
  BY DEF GENESIS, Hash
<1>2. ASSUME log # << >>
      PROVE  Last(log) \in Row
  BY <1>2, ElementOfSeq, LenProperties, EmptySeq DEF TypeOK, Last
<1> QED
  BY <1>1, <1>2 DEF LastHash, LastSeq, Row

LEMMA InitTyped == Init => TypeOK
BY AuditAssumption DEF Init, TypeOK, States, Hash, GENESIS

LEMMA NextTyped == TypeOK /\ [Next]_vars => TypeOK'
<1> SUFFICES ASSUME TypeOK, [Next]_vars
             PROVE  TypeOK'
  OBVIOUS
<1> USE DEF TypeOK
<1>1. ASSUME NEW w \in Writer, NEW b \in Body, Call(w, b)
      PROVE  TypeOK'
  BY <1>1 DEF Call, States
<1>2. ASSUME NEW w \in Writer, Begin(w)
      PROVE  TypeOK'
  BY <1>2 DEF Begin, States
<1>3. ASSUME NEW w \in Writer, LockTimeout(w)
      PROVE  TypeOK'
  BY <1>3 DEF LockTimeout, States
<1>4. ASSUME NEW w \in Writer, SelectHead(w)
      PROVE  TypeOK'
  BY <1>4, LastTyped DEF SelectHead, States
<1>5. ASSUME NEW w \in Writer, InsertCommit(w)
      PROVE  TypeOK'
  <2>1. NewRow(w) \in Row
    BY HashInjective DEF NewRow, Row
  <2>2. [body |-> arg[w], parent |-> LastSeq] \in [body : Body, parent : Nat]
    BY LastTyped
  <2> QED
    BY <1>5, <2>1, <2>2 DEF InsertCommit, States
<1>6. ASSUME NEW w \in Writer, Abort(w)
      PROVE  TypeOK'
  BY <1>6 DEF Abort, States
<1>7. CASE OtherBegin \/ OtherEnd
  BY <1>7 DEF OtherBegin, OtherEnd
<1>8. ASSUME NEW i \in 1..Len(log), DeleteRow(i)
      PROVE  TypeOK'
  BY <1>8, RemoveAtFacts DEF DeleteRow, IsWithout
<1>9. ASSUME NEW i \in 1..Len(log), NEW b \in Body, EditRow(i, b)
      PROVE  TypeOK'
  <2>1. [log[i] EXCEPT !.body = b] \in Row
    <3>1. log[i] \in Row
      BY ElementOfSeq
    <3> QED
      BY <3>1 DEF Row
  <2> QED
    BY <1>9, <2>1 DEF EditRow
<1>10. CASE UNCHANGED vars
  BY <1>10 DEF vars
<1> QED
  BY <1>1, <1>2, <1>3, <1>4, <1>5, <1>6, <1>7, <1>8, <1>9, <1>10
     DEF Next, Program, ByHand, Step

\* Every variable keeps its type, whatever is written, aborted or edited.
THEOREM TypeCorrect == Spec => []TypeOK
<1> QED
  BY InitTyped, NextTyped, PTL DEF Spec

----------------------------------------------------------------------------
(* The inductive invariant.  Two rows with the same hash would let verify  *)
(* miss a deletion, so the argument is about how long hashes are: along    *)
(* the table they only get longer, whatever is deleted from it, and a row  *)
(* whose parent is gone remembers a hash longer than any left before it.   *)

\* Rows are in the order they were committed in.
SeqsAscend ==
    /\ \A i \in 1..Len(log) : log[i].seq <= Len(written)
    /\ \A i, j \in 1..Len(log) : i < j => log[i].seq < log[j].seq

\* Hashes are never edited: row i still has the one it was committed with.
HashAsWritten(i) ==
    log[i].hash = EntryHash(log[i].prev, written[log[i].seq].body)

\* Row j, before row i, is the parent of i or older than the parent of i.
ParentOrOlder(i, j) ==
    LET p == written[log[i].seq].parent
    IN  \/ log[j].seq = p /\ log[j].hash = log[i].prev
        \/ log[j].seq < p /\ Len(log[j].hash) < Len(log[i].prev)

FirstHasNoParent(i) ==
    written[log[i].seq].parent = 0 <=> log[i].prev = GENESIS

Chained ==
    /\ \A i \in 1..Len(log) : HashAsWritten(i) /\ FirstHasNoParent(i)
    /\ \A i, j \in 1..Len(log) : j < i => ParentOrOlder(i, j)

\* Between BEGIN IMMEDIATE and COMMIT the lock is held, and so the hash that
\* was selected is still the last one.
LockHeld ==
    \A w \in Writer :
        /\ pc[w] \in {"select", "insert"} => lock = w
        /\ pc[w] = "insert" => head[w] = LastHash

IInv == TypeOK /\ SeqsAscend /\ Chained /\ LockHeld

LEMMA RowTyped ==
    ASSUME TypeOK, SeqsAscend, NEW i \in 1..Len(log)
    PROVE  /\ log[i] \in Row
           /\ log[i].seq \in 1..Len(written)
           /\ written[log[i].seq] \in [body : Body, parent : Nat]
           /\ log[i].prev \in Hash /\ log[i].hash \in Hash
           /\ log[i].body \in Body
<1>1. log[i] \in Row
  BY ElementOfSeq DEF TypeOK
<1>2. log[i].seq \in 1..Len(written)
  BY <1>1, LenProperties DEF SeqsAscend, Row, TypeOK
<1>3. written[log[i].seq] \in [body : Body, parent : Nat]
  BY <1>2, ElementOfSeq DEF TypeOK
<1> QED
  BY <1>1, <1>2, <1>3 DEF Row

\* A row's hash is one longer than its parent's.
LEMMA HashLonger ==
    ASSUME TypeOK, SeqsAscend, Chained, NEW i \in 1..Len(log)
    PROVE  /\ Len(log[i].prev) \in Nat
           /\ Len(log[i].hash) = Len(log[i].prev) + 1
<1>1. Len(log[i].prev) \in Nat
  BY RowTyped, LenProperties DEF Hash
<1>2. log[i].hash = EntryHash(log[i].prev, written[log[i].seq].body)
  BY DEF Chained, HashAsWritten
<1>3. /\ log[i].prev \in Hash
      /\ written[log[i].seq].body \in Body
  BY RowTyped
<1> QED
  BY <1>1, <1>2, <1>3, HashInjective

\* Every row but the last is older than it and has a shorter hash.
LEMMA LastIsLongest ==
    ASSUME TypeOK, SeqsAscend, Chained, NEW j \in 1..Len(log)
    PROVE  \/ log[j].seq = LastSeq /\ log[j].hash = LastHash
           \/ log[j].seq < LastSeq /\ Len(log[j].hash) < Len(LastHash)
<1> DEFINE n == Len(log)
<1>1. n \in Nat /\ n \in 1..Len(log) /\ log # << >>
  BY LenProperties, EmptySeq DEF TypeOK
<1>2. LastSeq = log[n].seq /\ LastHash = log[n].hash
  BY <1>1 DEF LastSeq, LastHash, Last
<1>3. CASE j = n
  BY <1>2, <1>3
<1>4. CASE j < n
  <2>1. log[j].seq < log[n].seq
    BY <1>1, <1>4 DEF SeqsAscend
  <2>2. ParentOrOlder(n, j)
    BY <1>1, <1>4 DEF Chained
  <2>3. \/ log[j].hash = log[n].prev
        \/ Len(log[j].hash) < Len(log[n].prev)
    BY <2>2 DEF ParentOrOlder
  <2>4. /\ Len(log[n].prev) \in Nat
        /\ Len(log[n].hash) = Len(log[n].prev) + 1
        /\ Len(log[j].hash) \in Nat
    BY <1>1, HashLonger
  <2>5. Len(log[j].hash) < Len(log[n].hash)
    BY <2>3, <2>4
  <2> QED
    BY <1>2, <2>1, <2>5
<1> QED
  BY <1>1, <1>3, <1>4

----------------------------------------------------------------------------
(* IInv holds initially and every step preserves it.                       *)

LEMMA InitIInv == Init => IInv
<1> SUFFICES ASSUME Init PROVE IInv
  OBVIOUS
<1>1. TypeOK
  BY InitTyped
<1>2. log = << >> /\ Len(log) = 0 /\ \A w \in Writer : pc[w] = "idle"
  BY DEF Init
<1> QED
  BY <1>1, <1>2 DEF IInv, SeqsAscend, Chained, LockHeld

\* Steps that leave the table alone can only disturb LockHeld.
LEMMA SameTable ==
    ASSUME SeqsAscend, Chained, UNCHANGED <<log, written>>
    PROVE  SeqsAscend' /\ Chained'
BY DEF SeqsAscend, Chained, HashAsWritten, FirstHasNoParent, ParentOrOlder,
       EntryHash, GENESIS

LEMMA LockPreserved == IInv /\ [Next]_vars => LockHeld'
<1> SUFFICES ASSUME IInv, [Next]_vars PROVE LockHeld'
  OBVIOUS
<1> USE DEF IInv, TypeOK, LockHeld, LastHash, GENESIS
<1>1. ASSUME NEW w \in Writer, NEW b \in Body, Call(w, b)
      PROVE  LockHeld'
  BY <1>1 DEF Call
<1>2. ASSUME NEW w \in Writer, Begin(w)
      PROVE  LockHeld'
  BY <1>2, AuditAssumption DEF Begin
<1>3. ASSUME NEW w \in Writer, LockTimeout(w)
      PROVE  LockHeld'
  BY <1>3 DEF LockTimeout
<1>4. ASSUME NEW w \in Writer, SelectHead(w)
      PROVE  LockHeld'
  BY <1>4 DEF SelectHead
<1>5. ASSUME NEW w \in Writer, InsertCommit(w) \/ Abort(w)
      PROVE  LockHeld'
  <2>1. \A v \in Writer : pc'[v] \in {"select", "insert"} => FALSE
    BY <1>5 DEF InsertCommit, Abort
  <2> QED
    BY <2>1
<1>6. CASE OtherBegin \/ OtherEnd
  BY <1>6, AuditAssumption DEF OtherBegin, OtherEnd
<1>7. CASE ByHand
  <2>1. lock = NoOne /\ pc' = pc
    BY <1>7 DEF ByHand, DeleteRow, EditRow
  <2> QED
    BY <2>1, AuditAssumption
<1>8. CASE UNCHANGED vars
  BY <1>8 DEF vars
<1> QED
  BY <1>1, <1>2, <1>3, <1>4, <1>5, <1>6, <1>7, <1>8 DEF Next, Program, Step

LEMMA CommitPreserved ==
    ASSUME IInv, NEW w \in Writer, InsertCommit(w)
    PROVE  SeqsAscend' /\ Chained'
<1> DEFINE n == Len(log)
           m == Len(written)
<1>1. /\ n \in Nat /\ m \in Nat
      /\ Len(log') = n + 1 /\ Len(written') = m + 1
      /\ log'[n + 1] = NewRow(w)
      /\ written'[m + 1] = [body |-> arg[w], parent |-> LastSeq]
      /\ \A i \in 1..n : log'[i] = log[i]
      /\ \A s \in 1..m : written'[s] = written[s]
  BY LenProperties, AppendProperties DEF IInv, TypeOK, InsertCommit
<1>2. \A i \in 1..n :
        /\ log[i].seq \in 1..m
        /\ written'[log[i].seq] = written[log[i].seq]
  BY <1>1, RowTyped DEF IInv
<1>3. /\ head[w] = LastHash
      /\ NewRow(w).seq = m + 1 /\ NewRow(w).prev = LastHash
      /\ NewRow(w).hash = EntryHash(LastHash, arg[w])
  BY DEF IInv, LockHeld, InsertCommit, NewRow
<1>4. written'[NewRow(w).seq] = [body |-> arg[w], parent |-> LastSeq]
  BY <1>1, <1>3
<1>5. SeqsAscend'
  <2>1. ASSUME NEW i \in 1..(n + 1)
        PROVE  log'[i].seq <= m + 1
    <3>1. CASE i \in 1..n
      BY <1>1, <1>2, <3>1
    <3>2. CASE i = n + 1
      BY <1>1, <1>3, <3>2
    <3> QED
      BY <1>1, <3>1, <3>2
  <2>2. ASSUME NEW i \in 1..(n + 1), NEW j \in 1..(n + 1), i < j
        PROVE  log'[i].seq < log'[j].seq
    <3>1. i \in 1..n
      BY <1>1, <2>2
    <3>2. CASE j \in 1..n
      BY <1>1, <2>2, <3>1, <3>2 DEF IInv, SeqsAscend
    <3>3. CASE j = n + 1
      BY <1>1, <1>2, <1>3, <3>1, <3>3
    <3> QED
      BY <1>1, <3>2, <3>3
  <2> QED
    BY <1>1, <2>1, <2>2 DEF SeqsAscend
<1>6. ASSUME NEW i \in 1..(n + 1), NEW j \in 1..(n + 1), j < i
      PROVE  ParentOrOlder(i, j)'
  <2>1. CASE i \in 1..n
    <3>1. j \in 1..n
      BY <1>1, <1>6, <2>1
    <3>2. ParentOrOlder(i, j)
      BY <1>6, <2>1, <3>1 DEF IInv, Chained
    <3>3. /\ log'[i] = log[i] /\ log'[j] = log[j]
          /\ written'[log[i].seq] = written[log[i].seq]
      BY <1>1, <1>2, <2>1, <3>1
    <3> QED
      BY <3>2, <3>3 DEF ParentOrOlder
  <2>2. CASE i = n + 1
    <3>1. j \in 1..n
      BY <1>1, <1>6, <2>2
    <3>2. \/ log[j].seq = LastSeq /\ log[j].hash = LastHash
          \/ log[j].seq < LastSeq /\ Len(log[j].hash) < Len(LastHash)
      BY <3>1, LastIsLongest DEF IInv
    <3> QED
      BY <1>1, <1>3, <1>4, <2>2, <3>1, <3>2 DEF ParentOrOlder
  <2> QED
    BY <1>1, <2>1, <2>2
<1>7. ASSUME NEW i \in 1..(n + 1)
      PROVE  HashAsWritten(i)' /\ FirstHasNoParent(i)'
  <2>1. CASE i \in 1..n
    <3>1. HashAsWritten(i) /\ FirstHasNoParent(i)
      BY <2>1 DEF IInv, Chained
    <3>2. log'[i] = log[i] /\ written'[log[i].seq] = written[log[i].seq]
      BY <1>1, <1>2, <2>1
    <3> QED
      BY <3>1, <3>2 DEF HashAsWritten, FirstHasNoParent
  <2>2. CASE i = n + 1
    <3>1. LastSeq = 0 <=> LastHash = GENESIS
      <4>1. CASE log = << >>
        BY <4>1 DEF LastSeq, LastHash
      <4>2. CASE log # << >>
        <5>1. n \in 1..Len(log) /\ LastSeq = log[n].seq /\ LastHash = log[n].hash
          BY <4>2, <1>1, EmptySeq DEF LastSeq, LastHash, Last, IInv, TypeOK
        <5>2. LastSeq # 0
          BY <5>1, RowTyped DEF IInv
        <5>3. Len(LastHash) > 0
          BY <5>1, HashLonger DEF IInv
        <5> QED
          BY <5>2, <5>3 DEF GENESIS
      <4> QED
        BY <4>1, <4>2
    <3> QED
      BY <1>1, <1>3, <1>4, <2>2, <3>1
         DEF HashAsWritten, FirstHasNoParent, EntryHash, GENESIS
  <2> QED
    BY <1>1, <2>1, <2>2
<1> QED
  BY <1>1, <1>5, <1>6, <1>7 DEF Chained

LEMMA DeletePreserved ==
    ASSUME IInv, NEW i \in 1..Len(log), DeleteRow(i)
    PROVE  SeqsAscend' /\ Chained'
<1> DEFINE was(k) == IF k < i THEN k ELSE k + 1
<1>1. /\ Len(log) \in Nat /\ Len(log') = Len(log) - 1
      /\ written' = written
      /\ \A k \in 1..(Len(log) - 1) :
           log'[k] = (IF k < i THEN log[k] ELSE log[k + 1])
  BY RemoveAtFacts, LenProperties DEF IInv, TypeOK, DeleteRow, IsWithout
<1>2. \A k \in 1..Len(log') : was(k) \in 1..Len(log) /\ log'[k] = log[was(k)]
  BY <1>1
<1>3. \A j, k \in 1..Len(log') : j < k => was(j) < was(k)
  BY <1>1
<1> HIDE DEF was
<1>4. SeqsAscend'
  BY <1>1, <1>2, <1>3 DEF IInv, SeqsAscend
<1>5. ASSUME NEW k \in 1..Len(log')
      PROVE  HashAsWritten(k)' /\ FirstHasNoParent(k)'
  <2>1. HashAsWritten(was(k)) /\ FirstHasNoParent(was(k))
    BY <1>2 DEF IInv, Chained
  <2> QED
    BY <1>1, <1>2, <2>1 DEF HashAsWritten, FirstHasNoParent, EntryHash, GENESIS
<1>6. ASSUME NEW k \in 1..Len(log'), NEW j \in 1..Len(log'), j < k
      PROVE  ParentOrOlder(k, j)'
  <2>1. ParentOrOlder(was(k), was(j))
    BY <1>2, <1>3, <1>6 DEF IInv, Chained
  <2> QED
    BY <1>1, <1>2, <2>1 DEF ParentOrOlder
<1> QED
  BY <1>4, <1>5, <1>6 DEF Chained

LEMMA EditPreserved ==
    ASSUME IInv, NEW i \in 1..Len(log), NEW b \in Body, EditRow(i, b)
    PROVE  SeqsAscend' /\ Chained'
<1>1. Len(log') = Len(log) /\ written' = written
  BY LenProperties DEF IInv, TypeOK, EditRow
<1>2. \A k \in 1..Len(log) :
        /\ log'[k].seq = log[k].seq
        /\ log'[k].prev = log[k].prev
        /\ log'[k].hash = log[k].hash
  <2>1. log' = [log EXCEPT ![i] = [log[i] EXCEPT !.body = b]]
    BY DEF EditRow
  <2>2. [log[i] EXCEPT !.body = b] \in Row
    BY RowTyped DEF IInv, Row
  <2>3. /\ [log[i] EXCEPT !.body = b].seq = log[i].seq
        /\ [log[i] EXCEPT !.body = b].prev = log[i].prev
        /\ [log[i] EXCEPT !.body = b].hash = log[i].hash
    BY RowTyped DEF IInv, Row
  <2>4. \A k \in 1..Len(log) :
          log'[k] = (IF k = i THEN [log[i] EXCEPT !.body = b] ELSE log[k])
    BY <2>1, LenProperties DEF IInv, TypeOK
  <2> QED
    BY <2>3, <2>4
<1> QED
  BY <1>1, <1>2 DEF IInv, SeqsAscend, Chained, HashAsWritten, FirstHasNoParent,
                    ParentOrOlder, EntryHash, GENESIS

LEMMA NextIInv == IInv /\ [Next]_vars => IInv'
<1> SUFFICES ASSUME IInv, [Next]_vars PROVE SeqsAscend' /\ Chained'
  BY NextTyped, LockPreserved DEF IInv
<1>1. ASSUME NEW w \in Writer, InsertCommit(w)
      PROVE  SeqsAscend' /\ Chained'
  BY <1>1, CommitPreserved
<1>2. ASSUME NEW i \in 1..Len(log), DeleteRow(i)
      PROVE  SeqsAscend' /\ Chained'
  BY <1>2, DeletePreserved
<1>3. ASSUME NEW i \in 1..Len(log), NEW b \in Body, EditRow(i, b)
      PROVE  SeqsAscend' /\ Chained'
  BY <1>3, EditPreserved
<1>4. CASE UNCHANGED <<log, written>>
  BY <1>4, SameTable DEF IInv
<1> QED
  BY <1>1, <1>2, <1>3, <1>4
     DEF Next, Program, ByHand, Step, Call, Begin, LockTimeout, SelectHead,
         Abort, OtherBegin, OtherEnd, vars

LEMMA Inductive == Spec => []IInv
<1> QED
  BY InitIInv, NextIInv, PTL DEF Spec

----------------------------------------------------------------------------
(* What follows from it.                                                   *)

\* Row i follows, in the table, the row whose hash it stores exactly when it
\* follows the row it was chained to.
LEMMA FollowsParent ==
    ASSUME IInv, NEW i \in 1..Len(log)
    PROVE  log[i].prev = PrevHash(i)
               <=> written[log[i].seq].parent
                       = (IF i = 1 THEN 0 ELSE log[i - 1].seq)
<1>1. CASE i = 1
  BY <1>1 DEF IInv, Chained, FirstHasNoParent, PrevHash
<1>2. CASE i # 1
  <2>1. i - 1 \in 1..Len(log) /\ i - 1 < i
    BY <1>2, LenProperties DEF IInv, TypeOK
  <2>2. ParentOrOlder(i, i - 1)
    BY <2>1 DEF IInv, Chained
  <2>3. /\ log[i - 1].seq \in Nat
        /\ written[log[i].seq].parent \in Nat
    BY <2>1, RowTyped DEF IInv, Row
  <2>4. Len(log[i - 1].hash) \in Nat /\ Len(log[i].prev) \in Nat
    BY <2>1, HashLonger DEF IInv
  <2> QED
    BY <1>2, <2>2, <2>3, <2>4 DEF ParentOrOlder, PrevHash
<1> QED
  BY <1>1, <1>2

\* verify accepts exactly the rows that nobody touched.
LEMMA FitsIffIntact ==
    ASSUME IInv, NEW i \in 1..Len(log)
    PROVE  Fits(i) <=> Intact(i)
<1> DEFINE wrote == written[log[i].seq].body
<1>1. log[i].hash = EntryHash(log[i].prev, wrote)
  BY DEF IInv, Chained, HashAsWritten
<1>2. log[i].prev \in Hash /\ log[i].body \in Body /\ wrote \in Body
  BY RowTyped DEF IInv
<1>3. EntryHash(log[i].prev, wrote) = EntryHash(log[i].prev, log[i].body)
          <=> log[i].body = wrote
  BY <1>2, HashInjective
<1> HIDE DEF wrote
<1>4. Fits(i) <=> log[i].prev = PrevHash(i) /\ log[i].body = wrote
  BY <1>1, <1>3 DEF Fits
<1> QED
  BY <1>4, FollowsParent DEF Intact, wrote

\* The row verify reports is the first one that was edited or whose
\* predecessor was deleted, and it reports none when there is none.
THEOREM VerifyExact == Spec => []VerifyFindsFirstDamage
<1>1. IInv => VerifyFindsFirstDamage
  <2> SUFFICES ASSUME IInv, NEW i \in 1..Len(log)
               PROVE  IsFirstBad(i)
                        <=> ~Intact(i) /\ \A j \in 1..(i - 1) : Intact(j)
    BY DEF VerifyFindsFirstDamage
  <2>1. 1..(i - 1) \subseteq 1..Len(log)
    BY LenProperties DEF IInv, TypeOK
  <2> QED
    BY <2>1, FitsIffIntact DEF IsFirstBad
<1> QED
  BY <1>1, Inductive, PTL

\* No two entries in the table were chained to the same one.
THEOREM ParentsDistinct == Spec => []NoSharedParent
<1>1. IInv => NoSharedParent
  <2>1. ASSUME IInv, NEW i \in 1..Len(log), NEW j \in 1..Len(log), j < i
        PROVE  log[j].prev # log[i].prev
    <3>1. ParentOrOlder(i, j)
      BY <2>1 DEF IInv, Chained
    <3>2. \/ log[j].hash = log[i].prev
          \/ Len(log[j].hash) < Len(log[i].prev)
      BY <3>1 DEF ParentOrOlder
    <3>3. /\ Len(log[j].prev) \in Nat /\ Len(log[i].prev) \in Nat
          /\ Len(log[j].hash) = Len(log[j].prev) + 1
      BY <2>1, HashLonger DEF IInv
    <3> QED
      BY <3>2, <3>3
  <2>2. ASSUME IInv, NEW i \in 1..Len(log), NEW j \in 1..Len(log), i # j
        PROVE  log[i].prev # log[j].prev
    <3>1. i < j \/ j < i
      BY <2>2
    <3> QED
      BY <2>1, <2>2, <3>1
  <2> QED
    BY <2>2 DEF NoSharedParent
<1> QED
  BY <1>1, Inductive, PTL

----------------------------------------------------------------------------
(* Without edits by hand the program implements AppendOnlyLog.             *)

\* Nothing was removed, so rows are numbered by their place.
Numbered ==
    /\ Len(written) = Len(log)
    /\ \A i \in 1..Len(log) : log[i].seq = i

LEMMA NumberedPreserved == TypeOK /\ Numbered /\ [Program]_vars => Numbered'
<1> SUFFICES ASSUME TypeOK, Numbered, [Program]_vars PROVE Numbered'
  OBVIOUS
<1>1. ASSUME NEW w \in Writer, InsertCommit(w)
      PROVE  Numbered'
  <2>1. /\ Len(log) \in Nat
        /\ Len(log') = Len(log) + 1 /\ Len(written') = Len(written) + 1
        /\ log'[Len(log) + 1] = NewRow(w)
        /\ \A i \in 1..Len(log) : log'[i] = log[i]
    BY <1>1, LenProperties, AppendProperties DEF TypeOK, InsertCommit
  <2>2. NewRow(w).seq = Len(log) + 1
    BY DEF NewRow, Numbered
  <2>3. \A i \in 1..(Len(log) + 1) : log'[i].seq = i
    BY <2>1, <2>2 DEF Numbered
  <2> QED
    BY <2>1, <2>3 DEF Numbered
<1>2. CASE UNCHANGED <<log, written>>
  BY <1>2 DEF Numbered
<1> QED
  BY <1>1, <1>2 DEF Program, Step, Call, Begin, LockTimeout, SelectHead,
                    Abort, OtherBegin, OtherEnd, vars

\* A commit adds one entry at the end, with the next number.
LEMMA CommitAdds ==
    ASSUME TypeOK, Numbered, NEW w \in Writer, InsertCommit(w)
    PROVE  Promise!Add(arg[w])
<1> DEFINE Read(i) == [seq |-> log[i].seq, body |-> log[i].body]
           E == [seq : Nat, body : Body]
           new == [seq |-> Len(log) + 1, body |-> arg[w]]
<1>1. /\ Len(log) \in Nat
      /\ Len(log') = Len(log) + 1
      /\ log'[Len(log) + 1] = NewRow(w)
      /\ \A i \in 1..Len(log) : log'[i] = log[i]
  BY LenProperties, AppendProperties DEF TypeOK, InsertCommit
<1>2. NewRow(w).seq = Len(log) + 1 /\ NewRow(w).body = arg[w]
  BY DEF NewRow, Numbered
<1>3. \A i \in 1..Len(log) : Read(i) \in E
  <2>1. \A i \in 1..Len(log) : log[i] \in Row
    BY ElementOfSeq DEF TypeOK
  <2> QED
    BY <2>1 DEF Row
<1>4. AsReadBack \in Seq(E) /\ Len(AsReadBack) = Len(log)
  <2>1. AsReadBack = [i \in 1..Len(log) |-> Read(i)]
    BY DEF AsReadBack
  <2> HIDE DEF Read
  <2>2. AsReadBack \in [1..Len(log) -> E]
    BY <1>3, <2>1
  <2> HIDE DEF E
  <2>3. AsReadBack \in Seq(E)
    BY <1>1, <2>2
  <2> QED
    BY <1>1, <2>2, <2>3, LenProperties
<1>5. new \in E
  BY <1>1 DEF TypeOK
<1>6. /\ Append(AsReadBack, new) \in Seq(E)
      /\ Len(Append(AsReadBack, new)) = Len(log) + 1
      /\ Append(AsReadBack, new)[Len(log) + 1] = new
      /\ \A i \in 1..Len(log) : Append(AsReadBack, new)[i] = AsReadBack[i]
  BY <1>1, <1>4, <1>5, AppendProperties
<1>7. AsReadBack' = [i \in 1..(Len(log) + 1) |->
                       IF i = Len(log) + 1 THEN new ELSE AsReadBack[i]]
  BY <1>1, <1>2 DEF AsReadBack
<1>8. Append(AsReadBack, new) = [i \in 1..(Len(log) + 1) |->
                       IF i = Len(log) + 1 THEN new ELSE AsReadBack[i]]
  BY <1>1, <1>6, LenProperties
<1> QED
  BY <1>4, <1>7, <1>8 DEF Promise!Add

\* The program alone keeps the promise of AppendOnlyLog.
THEOREM Implements == ProgramSpec => ImplementsLog
<1>1. Init => TypeOK /\ Numbered /\ Promise!LogInit
  <2> SUFFICES ASSUME Init PROVE TypeOK /\ Numbered /\ Promise!LogInit
    OBVIOUS
  <2>1. log = << >> /\ written = << >>
    BY DEF Init
  <2>2. AsReadBack = << >>
    BY <2>1 DEF AsReadBack
  <2> QED
    BY <2>1, <2>2, InitTyped DEF Numbered, Promise!LogInit
<1>2. TypeOK /\ [Program]_vars => TypeOK'
  BY NextTyped DEF Next
<1>3. TypeOK /\ Numbered /\ [Program]_vars => [Promise!LogNext]_AsReadBack
  <2> SUFFICES ASSUME TypeOK, Numbered, [Program]_vars
               PROVE  Promise!LogNext \/ AsReadBack' = AsReadBack
    OBVIOUS
  <2>1. ASSUME NEW w \in Writer, InsertCommit(w)
        PROVE  Promise!LogNext
    BY <2>1, CommitAdds DEF Promise!LogNext, TypeOK
  <2>2. CASE log' = log
    BY <2>2 DEF AsReadBack
  <2> QED
    BY <2>1, <2>2 DEF Program, Step, Call, Begin, LockTimeout, SelectHead,
                      Abort, OtherBegin, OtherEnd, vars
<1> QED
  BY <1>1, <1>2, <1>3, NumberedPreserved, PTL
     DEF ProgramSpec, ImplementsLog, Promise!LogSpec
====
