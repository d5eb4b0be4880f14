---- MODULE RiskProofs ----
(***************************************************************************)
(* Facts about the detections and their risk scores, for any rules, any    *)
(* decay, multipliers and budget: what the engines find is well-formed,    *)
(* every risk is a number; more, heavier or newer findings never score     *)
(* less; the queue is never longer than the budget, and who keeps all      *)
(* findings in it keeps the place.                                         *)
(***************************************************************************)
EXTENDS RiskScore, NumberFacts

----------------------------------------------------------------------------
(* Small facts.                                                            *)

LEMMA MaxOfTwo ==
    ASSUME NEW a \in Int, NEW b \in Int
    PROVE  Max({a, b}) \in {a, b} /\ Max({a, b}) >= a /\ Max({a, b}) >= b
<1>1. \E m \in {a, b} : \A k \in {a, b} : m >= k
  OBVIOUS
<1> QED
  BY <1>1 DEF Max

LEMMA MinOfTwo ==
    ASSUME NEW a \in Int, NEW b \in Int
    PROVE  Min({a, b}) \in {a, b} /\ Min({a, b}) <= a /\ Min({a, b}) <= b
<1>1. \E m \in {a, b} : \A k \in {a, b} : m <= k
  OBVIOUS
<1> QED
  BY <1>1 DEF Min

\* The values of a function on a finite set are finitely many.
LEMMA ImageIsFinite ==
    ASSUME NEW S, IsFiniteSet(S), NEW f
    PROVE  IsFiniteSet({f[x] : x \in S})
<1> DEFINE T == {f[x] : x \in S}
           g == [x \in S |-> f[x]]
<1>1. g \in Surjection(S, T)
  BY DEF Surjection
<1> HIDE DEF T, g
<1>2. IsFiniteSet(T)
  BY <1>1, FS_Surjection
<1> QED
  BY <1>2 DEF T

LEMMA FourIsFinite ==
    ASSUME NEW a, NEW b, NEW c, NEW d
    PROVE  /\ IsFiniteSet({a, b}) /\ IsFiniteSet({a, b, c, d})
           /\ Cardinality({a, b, c}) <= 3
<1>1. IsFiniteSet({a}) /\ Cardinality({a}) = 1
  BY FS_Singleton
<1>2. IsFiniteSet({a} \cup {b}) /\ Cardinality({a} \cup {b}) \in {1, 2}
  BY <1>1, FS_AddElement
<1>3. {a} \cup {b} = {a, b} /\ {a, b} \cup {c} = {a, b, c} /\ {a, b, c} \cup {d} = {a, b, c, d}
  OBVIOUS
<1>4. IsFiniteSet({a, b} \cup {c}) /\ Cardinality({a, b} \cup {c}) \in {1, 2, 3}
  BY <1>2, <1>3, FS_AddElement
<1>5. IsFiniteSet({a, b, c} \cup {d})
  BY <1>3, <1>4, FS_AddElement
<1> QED
  BY <1>2, <1>3, <1>4, <1>5

LEMMA PercentIsNatural ==
    ASSUME NEW x \in Nat, NEW factor \in Nat
    PROVE  Percent(x, factor) \in Nat
<1>1. x * factor \in Nat
  OBVIOUS
<1> QED
  BY <1>1 DEF Percent

----------------------------------------------------------------------------
(* What the engines find.                                                  *)

\* The forest's scores are between 0 and 1 (scikit-learn's score_samples).
ScoresInHundredths == \A training, f : AnomalyScore(training, f) \in 0..100

WellFormed(d) ==
    /\ d = [actor |-> d.actor, day |-> d.day, engine |-> d.engine, name |-> d.name,
            base_weight |-> d.base_weight, confidence |-> d.confidence, context |-> d.context]
    /\ d.engine \in {"rules", "statistical", "ml"}
    /\ d.base_weight \in Nat
    /\ d.confidence \in 0..100
    /\ d.context \subseteq {"off_hours", "restricted_data"}

Severity == {"low", "medium", "high", "critical"}

LEMMA FoundIsWellFormed ==
    ASSUME NEW f, NEW engine \in {"rules", "statistical", "ml"}, NEW name,
           NEW severity \in Severity, NEW confidence \in 0..100,
           NEW tags \in SUBSET {"off_hours", "restricted_data"}
    PROVE  WellFormed(Found(f, engine, name, severity, confidence, tags))
<1>1. SEVERITY_WEIGHTS[severity] \in Nat
  BY DEF SEVERITY_WEIGHTS, Severity
<1>2. PICK w \in Nat : w = SEVERITY_WEIGHTS[severity]
  BY <1>1
<1>3. PICK d : d = Found(f, engine, name, severity, confidence, tags)
  OBVIOUS
<1>4. d = [actor |-> f.actor, day |-> f.day, engine |-> engine, name |-> name,
           base_weight |-> w, confidence |-> confidence, context |-> tags]
  BY <1>2, <1>3 DEF Found
<1>5. WellFormed(d)
  BY <1>4 DEF WellFormed
<1> QED
  BY <1>3, <1>5

LEMMA DiscountedInHundredths ==
    ASSUME NEW confidence \in 0..100, NEW kind
    PROVE  Discounted(confidence, kind) \in 0..100
BY DEF Discounted

LEMMA TagsAreKnown ==
    ASSUME NEW f, NEW name
    PROVE  Tags(f, name) \in SUBSET {"off_hours", "restricted_data"}
BY DEF Tags

LEMMA RuleDetectionsWellFormed ==
    ASSUME NEW f, NEW events
    PROVE  /\ IsFiniteSet(RuleDetections(f, events))
           /\ \A d \in RuleDetections(f, events) :
                  WellFormed(d) /\ \E r \in Rules : d.name = r.id
<1> DEFINE matching == {r \in Rules : /\ ContextHolds(r, f.actor, f.day)
                                      /\ ActivityMatches(r, f, events)}
           found(r) == Found(f, "rules", r.id, r.severity, r.confidence, r.tags)
<1>1. RuleDetections(f, events) = {found(r) : r \in matching}
  BY DEF RuleDetections
<1>2. IsFiniteSet(matching)
  BY DetectionAssumption, FS_Subset
<1>3. IsFiniteSet(RuleDetections(f, events))
  <2> DEFINE g == [r \in matching |-> found(r)]
  <2>1. RuleDetections(f, events) = {g[r] : r \in matching}
    BY <1>1
  <2> HIDE DEF g, matching
  <2> QED
    BY <1>2, <2>1, ImageIsFinite
<1>4. ASSUME NEW r \in Rules
      PROVE  WellFormed(found(r)) /\ found(r).name = r.id
  <2>1. /\ r.severity \in Severity /\ r.confidence \in 0..100
        /\ r.tags \in SUBSET {"off_hours", "restricted_data"}
    BY DetectionAssumption DEF Severity
  <2>2. WellFormed(found(r))
    BY <2>1, FoundIsWellFormed
  <2>3. found(r).name = r.id
    BY DEF Found
  <2> QED
    BY <2>2, <2>3
<1> QED
  <2> HIDE DEF found
  <2> QED
    BY <1>1, <1>3, <1>4

LEMMA ZConfidenceInHundredths ==
    ASSUME NEW profile, NEW name, NEW value
    PROVE  ZConfidence(profile, name, value) \in 0..100
<1> DEFINE steps == {k \in 0..9 : k = 0 \/ ZScoreAtLeast(profile, name, value, ZThreshold + k)}
<1>1. steps \in SUBSET Int /\ steps # {} /\ steps \subseteq 0..9
  OBVIOUS
<1>2. IsFiniteSet(steps)
  <2>1. IsFiniteSet(0..9)
    <3>1. PICK a \in Int, b \in Int : a = 0 /\ b = 9
      OBVIOUS
    <3>2. IsFiniteSet(a..b)
      BY FS_Interval
    <3> QED
      BY <3>1, <3>2
  <2> HIDE DEF steps
  <2> QED
    BY <1>1, <2>1, FS_Subset
<1>3. Max(steps) \in 0..9
  <2> HIDE DEF steps
  <2> QED
    BY <1>1, <1>2, MaxIsMember
<1> QED
  BY <1>3 DEF ZConfidence

StatisticalName == {"anomalous_" \o n : n \in FEATURE_NAMES}
                       \cup {"absolute_" \o n : n \in {"file_read_count", "total_bytes"}}

LEMMA StatisticalDetectionsWellFormed ==
    ASSUME NEW f, NEW profile, NEW kind
    PROVE  /\ IsFiniteSet(StatisticalDetections(f, profile, kind))
           /\ \A d \in StatisticalDetections(f, profile, kind) :
                  WellFormed(d) /\ d.name \in StatisticalName
<1> DEFINE Z(n) == Found(f, "statistical", "anomalous_" \o n, MONITORED[n],
                         Discounted(ZConfidence(profile, n, f.values[n]), kind), Tags(f, n))
           C(n) == Found(f, "statistical", "absolute_" \o n, "medium", 60, Tags(f, n))
           high == {n \in FEATURE_NAMES : /\ Eligible(n, f.values[n])
                                          /\ ZScoreAtLeast(profile, n, f.values[n], ZThreshold)}
           above == {n \in {"file_read_count", "total_bytes"} :
                        f.values[n] >= IF n = "total_bytes" THEN AbsoluteBytesFloor
                                                            ELSE AbsoluteFileAccessFloor}
<1>1. ZDetections(f, profile, kind) = {Z(n) : n \in high}
  BY DEF ZDetections
<1>2. CeilingDetections(f) = {C(n) : n \in above}
  BY DEF CeilingDetections
<1>3. IsFiniteSet(FEATURE_NAMES) /\ IsFiniteSet({"file_read_count", "total_bytes"})
  BY FourIsFinite DEF FEATURE_NAMES
<1>4. IsFiniteSet(high) /\ IsFiniteSet(above)
  BY <1>3, FS_Subset
<1>5. IsFiniteSet(ZDetections(f, profile, kind))
  <2> DEFINE g == [n \in high |-> Z(n)]
  <2>1. ZDetections(f, profile, kind) = {g[n] : n \in high}
    BY <1>1
  <2> HIDE DEF g, high
  <2> QED
    BY <1>4, <2>1, ImageIsFinite
<1>6. IsFiniteSet(CeilingDetections(f))
  <2> DEFINE g == [n \in above |-> C(n)]
  <2>1. CeilingDetections(f) = {g[n] : n \in above}
    BY <1>2
  <2> HIDE DEF g, above
  <2> QED
    BY <1>4, <2>1, ImageIsFinite
<1>7. ASSUME NEW n \in FEATURE_NAMES
      PROVE  WellFormed(Z(n)) /\ Z(n).name = "anomalous_" \o n
  <2>1. PICK severity \in Severity : severity = MONITORED[n]
    BY DEF MONITORED, FEATURE_NAMES, Severity
  <2>2. PICK confidence \in 0..100 :
            confidence = Discounted(ZConfidence(profile, n, f.values[n]), kind)
    BY ZConfidenceInHundredths, DiscountedInHundredths
  <2>3. PICK tags \in SUBSET {"off_hours", "restricted_data"} : tags = Tags(f, n)
    BY TagsAreKnown
  <2>4. Z(n) = Found(f, "statistical", "anomalous_" \o n, severity, confidence, tags)
    BY <2>1, <2>2, <2>3
  <2>5. WellFormed(Z(n))
    BY <2>4, FoundIsWellFormed
  <2>6. Z(n).name = "anomalous_" \o n
    BY DEF Found
  <2> QED
    BY <2>5, <2>6
<1>8. ASSUME NEW n \in {"file_read_count", "total_bytes"}
      PROVE  WellFormed(C(n)) /\ C(n).name = "absolute_" \o n
  <2>1. PICK tags \in SUBSET {"off_hours", "restricted_data"} : tags = Tags(f, n)
    BY TagsAreKnown
  <2>2. C(n) = Found(f, "statistical", "absolute_" \o n, "medium", 60, tags)
    BY <2>1
  <2>3. "medium" \in Severity /\ 60 \in 0..100
    BY DEF Severity
  <2>4. WellFormed(C(n))
    BY <2>2, <2>3, FoundIsWellFormed
  <2>5. C(n).name = "absolute_" \o n
    BY DEF Found
  <2> QED
    BY <2>4, <2>5
<1>9. StatisticalDetections(f, profile, kind) = ZDetections(f, profile, kind) \cup CeilingDetections(f)
  BY DEF StatisticalDetections
<1> HIDE DEF Z, C, high, above
<1>10. IsFiniteSet(StatisticalDetections(f, profile, kind))
  BY <1>5, <1>6, <1>9, FS_Union
<1>11. \A d \in ZDetections(f, profile, kind) : WellFormed(d) /\ d.name \in StatisticalName
  BY <1>1, <1>7 DEF high, StatisticalName
<1>12. \A d \in CeilingDetections(f) : WellFormed(d) /\ d.name \in StatisticalName
  BY <1>2, <1>8 DEF above, StatisticalName
<1> QED
  BY <1>9, <1>10, <1>11, <1>12

LEMMA MLDetectionsWellFormed ==
    ASSUME ScoresInHundredths, NEW f, NEW kind, NEW training
    PROVE  /\ IsFiniteSet(MLDetections(f, kind, training))
           /\ \A d \in MLDetections(f, kind, training) :
                  WellFormed(d) /\ d.name = "behavioural_anomaly"
<1>1. PICK score \in 0..100 : score = AnomalyScore(training, f)
  BY DEF ScoresInHundredths
<1>2. PICK severity : severity = IF score >= ScoreThreshold + 10 THEN "high" ELSE "medium"
  OBVIOUS
<1>3. severity \in Severity
  BY <1>2 DEF Severity
<1>4. PICK confidence : confidence = Min({80, 40 + 3 * (score - ScoreThreshold)})
  OBVIOUS
<1> DEFINE found == Found(f, "ml", "behavioural_anomaly", severity,
                          Discounted(confidence, kind), Tags(f, "vector"))
<1>5. MLDetections(f, kind, training) =
          IF \/ Cardinality(training) < MinTrainingDays \/ score < ScoreThreshold
             \/ ~HasDrivers(training, f)
          THEN {} ELSE {found}
  BY <1>1, <1>2, <1>4 DEF MLDetections
<1>6. CASE \/ Cardinality(training) < MinTrainingDays \/ score < ScoreThreshold
           \/ ~HasDrivers(training, f)
  BY <1>5, <1>6, FS_EmptySet
<1>7. CASE ~(\/ Cardinality(training) < MinTrainingDays \/ score < ScoreThreshold
             \/ ~HasDrivers(training, f))
  <2>1. ScoreThreshold \in Nat /\ score >= ScoreThreshold
    BY <1>7, DetectionAssumption
  <2>2. 40 + 3 * (score - ScoreThreshold) \in Nat
    BY <2>1
  <2>3. PICK other \in Nat : other = 40 + 3 * (score - ScoreThreshold)
    BY <2>2
  <2>4. PICK most \in Nat : most = 80
    OBVIOUS
  <2>5. confidence \in {most, other} /\ confidence <= most
    <3>1. confidence = Min({most, other})
      BY <1>4, <2>3, <2>4
    <3>2. Min({most, other}) \in {most, other} /\ Min({most, other}) <= most
      BY MinOfTwo
    <3> QED
      BY <3>1, <3>2
  <2>6. confidence \in 0..100
    BY <2>3, <2>4, <2>5
  <2>7. PICK discounted \in 0..100 : discounted = Discounted(confidence, kind)
    BY <2>6, DiscountedInHundredths
  <2>8. PICK tags \in SUBSET {"off_hours", "restricted_data"} : tags = Tags(f, "vector")
    BY TagsAreKnown
  <2>9. found = Found(f, "ml", "behavioural_anomaly", severity, discounted, tags)
    BY <2>7, <2>8
  <2>10. WellFormed(found)
    BY <1>3, <2>9, FoundIsWellFormed
  <2>11. found.name = "behavioural_anomaly"
    BY DEF Found
  <2> HIDE DEF found
  <2>12. MLDetections(f, kind, training) = {found}
    BY <1>5, <1>7
  <2> QED
    BY <2>10, <2>11, <2>12, FS_Singleton
<1> QED
  BY <1>6, <1>7

\* What an engine finds on a day is told apart by its name: load_rules refuses
\* two rules of one id, and each feature's anomaly has a name of its own.
LEMMA NamesTellApart ==
    ASSUME NEW f, NEW events, NEW profile, NEW kind, NEW training
    PROVE  /\ \A d, e \in RuleDetections(f, events) : d.name = e.name => d = e
           /\ \A d \in RuleDetections(f, events) : d.engine = "rules"
           /\ \A d, e \in StatisticalDetections(f, profile, kind) : d.name = e.name => d = e
           /\ \A d \in StatisticalDetections(f, profile, kind) : d.engine = "statistical"
           /\ \A d, e \in MLDetections(f, kind, training) : d = e
           /\ \A d \in MLDetections(f, kind, training) : d.engine = "ml"
<1> DEFINE R(r) == Found(f, "rules", r.id, r.severity, r.confidence, r.tags)
           Z(n) == Found(f, "statistical", "anomalous_" \o n, MONITORED[n],
                         Discounted(ZConfidence(profile, n, f.values[n]), kind), Tags(f, n))
           C(n) == Found(f, "statistical", "absolute_" \o n, "medium", 60, Tags(f, n))
<1>1. \A d \in RuleDetections(f, events) : \E r \in Rules : d = R(r)
  BY DEF RuleDetections
<1>2. \A r : R(r).name = r.id /\ R(r).engine = "rules"
  BY DEF Found
<1>3. \A d \in StatisticalDetections(f, profile, kind) :
          \E n \in FEATURE_NAMES : d = Z(n) \/ d = C(n)
  BY DEF StatisticalDetections, ZDetections, CeilingDetections, FEATURE_NAMES
<1>4. \A n : /\ Z(n).name = "anomalous_" \o n /\ Z(n).engine = "statistical"
             /\ C(n).name = "absolute_" \o n /\ C(n).engine = "statistical"
  BY DEF Found
<1>5. /\ \A d, e \in MLDetections(f, kind, training) : d = e
      /\ \A d \in MLDetections(f, kind, training) : d.engine = "ml"
  BY DEF MLDetections, Found
<1> HIDE DEF R, Z, C
<1>6. /\ \A d, e \in RuleDetections(f, events) : d.name = e.name => d = e
      /\ \A d \in RuleDetections(f, events) : d.engine = "rules"
  BY <1>1, <1>2, DetectionAssumption
<1>7. \A d, e \in StatisticalDetections(f, profile, kind) : d.name = e.name => d = e
  <2> SUFFICES ASSUME NEW d \in StatisticalDetections(f, profile, kind),
                      NEW e \in StatisticalDetections(f, profile, kind), d.name = e.name
               PROVE  d = e
    OBVIOUS
  <2>1. PICK n \in FEATURE_NAMES : d = Z(n) \/ d = C(n)
    BY <1>3
  <2>2. PICK m \in FEATURE_NAMES : e = Z(m) \/ e = C(m)
    BY <1>3
  <2>3. /\ "anomalous_" \o n = "anomalous_" \o m => n = m
        /\ "absolute_" \o n = "absolute_" \o m => n = m
        /\ "anomalous_" \o n # "absolute_" \o m
        /\ "anomalous_" \o m # "absolute_" \o n
    BY NamesAssumption
  <2>4. CASE d = Z(n) /\ e = Z(m)
    BY <1>4, <2>3, <2>4
  <2>5. CASE d = C(n) /\ e = C(m)
    BY <1>4, <2>3, <2>5
  <2>6. CASE d = Z(n) /\ e = C(m)
    BY <1>4, <2>3, <2>6
  <2>7. CASE d = C(n) /\ e = Z(m)
    BY <1>4, <2>3, <2>7
  <2> QED
    BY <2>1, <2>2, <2>4, <2>5, <2>6, <2>7
<1>8. \A d \in StatisticalDetections(f, profile, kind) : d.engine = "statistical"
  BY <1>3, <1>4
<1> QED
  BY <1>5, <1>6, <1>7, <1>8

----------------------------------------------------------------------------
(* Risk is a number.                                                       *)

LEMMA DecayDescends ==
    /\ MaxAge \in Nat /\ DOMAIN Decay = 0..MaxAge
    /\ \A i, j \in 0..MaxAge : Decay[j] \in 0..100 /\ (i <= j => Decay[j] <= Decay[i])
<1>1. PICK last \in Nat : last = MaxAge /\ DOMAIN Decay = 0..last
  BY RiskAssumption
<1> DEFINE Falls(k) == Decay[k] \in 0..100 /\ \A i \in 0..k : Decay[k] <= Decay[i]
           Bad == {k \in Nat : k <= last /\ ~Falls(k)}
<1>2. Bad = {}
  <2> SUFFICES ASSUME Bad # {} PROVE FALSE
    OBVIOUS
  <2>1. PICK k \in Bad : \A j \in Bad : k <= j
    <3>1. Bad \in SUBSET Nat /\ Bad # {}
      OBVIOUS
    <3> HIDE DEF Bad
    <3> QED
      BY <3>1, LeastNumberExists
  <2>2. k \in Nat /\ k <= last /\ ~Falls(k)
    OBVIOUS
  <2>3. k # 0
    <3>1. Decay[0] = 100
      BY RiskAssumption
    <3>2. Falls(0)
      BY <3>1
    <3> HIDE DEF Falls
    <3> QED
      BY <2>2, <3>2
  <2>4. k - 1 \in Nat /\ k - 1 \notin Bad
    <3>1. k - 1 \in Bad => k <= k - 1
      BY <2>1
    <3> HIDE DEF Bad
    <3> QED
      BY <2>2, <2>3, <3>1
  <2>5. Falls(k - 1)
    <3> HIDE DEF Falls
    <3> QED
      BY <2>2, <2>4
  <2>6. k \in (DOMAIN Decay) \ {0}
    BY <1>1, <2>2, <2>3
  <2>7. Decay[k] \in 0..Decay[k - 1]
    BY <2>6, RiskAssumption
  <2>8. PICK before \in 0..100 : before = Decay[k - 1]
    BY <2>5
  <2>9. Decay[k] \in 0..100 /\ Decay[k] <= before
    BY <2>7, <2>8
  <2>10. ASSUME NEW i \in 0..k
         PROVE  Decay[k] <= Decay[i]
    <3>1. CASE i = k
      BY <2>9, <3>1
    <3>2. CASE i # k
      <4>1. i \in 0..(k - 1)
        BY <2>2, <3>2
      <4>2. before <= Decay[i]
        BY <2>5, <2>8, <4>1
      <4>3. Decay[i] \in 0..100
        <5>1. i < k /\ i \in Nat
          BY <2>2, <3>2
        <5>2. i \notin Bad
          <6>1. i \in Bad => k <= i
            BY <2>1
          <6> HIDE DEF Bad
          <6> QED
            BY <2>2, <5>1, <6>1
        <5> QED
          BY <2>2, <5>1, <5>2
      <4> QED
        BY <2>9, <4>2, <4>3
    <3> QED
      BY <3>1, <3>2
  <2> QED
    BY <2>2, <2>9, <2>10
<1>3. ASSUME NEW k \in 0..last
      PROVE  Falls(k)
  <2>1. k \notin Bad
    BY <1>2
  <2> HIDE DEF Falls
  <2> QED
    BY <2>1
<1>4. \A i, j \in 0..last : Decay[j] \in 0..100 /\ (i <= j => Decay[j] <= Decay[i])
  BY <1>3
<1> HIDE DEF Bad, Falls
<1> QED
  BY <1>1, <1>4

\* What is older has decayed more.
LEMMA DecayInHundredths ==
    ASSUME NEW age \in Int
    PROVE  /\ decay_factor(age) \in 0..100
           /\ \A older \in Int : age <= older => decay_factor(older) <= decay_factor(age)
<1>1. PICK last \in Nat : last = MaxAge
  BY DecayDescends
<1>2. PICK zero \in Int : zero = 0
  OBVIOUS
<1> DEFINE Place(a, k) == /\ k \in 0..last /\ decay_factor(a) = Decay[k]
                          /\ k = IF a < 0 THEN 0 ELSE IF a < last THEN a ELSE last
<1>3. ASSUME NEW a \in Int
      PROVE  \E k \in 0..last : Place(a, k)
  <2>1. PICK old \in Nat : old = Max({zero, a}) /\ old = IF a < 0 THEN 0 ELSE a
    <3>1. Max({zero, a}) \in {zero, a} /\ Max({zero, a}) >= zero /\ Max({zero, a}) >= a
      BY MaxOfTwo
    <3> QED
      BY <1>2, <3>1
  <2>2. PICK k \in Nat : k = Min({last, old}) /\ k = IF old < last THEN old ELSE last
    <3>1. Min({last, old}) \in {last, old} /\ Min({last, old}) <= last /\ Min({last, old}) <= old
      BY MinOfTwo
    <3> QED
      BY <3>1
  <2>3. decay_factor(a) = Decay[k]
    BY <1>1, <1>2, <2>1, <2>2 DEF decay_factor
  <2> QED
    BY <2>1, <2>2, <2>3
<1>4. PICK k \in 0..last : Place(age, k)
  BY <1>3
<1>5. ASSUME NEW older \in Int, age <= older
      PROVE  decay_factor(older) <= decay_factor(age)
  <2>1. PICK j \in 0..last : Place(older, j)
    BY <1>3
  <2>2. k <= j
    BY <1>4, <1>5, <2>1
  <2>3. Decay[j] <= Decay[k]
    BY <1>1, <2>2, DecayDescends
  <2> QED
    BY <1>4, <2>1, <2>3
<1>6. Decay[k] \in 0..100
  BY <1>1, DecayDescends
<1> QED
  BY <1>4, <1>5, <1>6

LEMMA DayIsNumber ==
    ASSUME NEW t \in Int
    PROVE  DayOf(t) \in Int
BY BaselineAssumption DEF DayOf

\* A later tick is not on an earlier day.
LEMMA DaysInOrder ==
    ASSUME NEW t \in Int, NEW u \in Int, t <= u
    PROVE  DayOf(t) \in Int /\ DayOf(u) \in Int /\ DayOf(t) <= DayOf(u)
<1> DEFINE n == TicksPerDay
<1>1. n \in Nat /\ n > 0
  BY BaselineAssumption
<1>2. PICK k \in Int, i \in 0..(n - 1) : k = t \div n /\ t = n * k + i
  BY <1>1
<1>3. PICK l \in Int, j \in 0..(n - 1) : l = u \div n /\ u = n * l + j
  BY <1>1
<1>4. ASSUME k >= l + 1
      PROVE  FALSE
  <2>1. n * (k - l) >= n
    BY <1>1, <1>4
  <2>2. n * k - n * l = n * (k - l)
    BY <1>1
  <2> HIDE DEF n
  <2> QED
    BY <1>1, <1>2, <1>3, <2>1, <2>2
<1> QED
  BY <1>2, <1>3, <1>4 DEF DayOf

\* What a score takes of a detection.
Weighable(d, learned) ==
    d.day \in Int /\ d.base_weight \in Nat /\ d.confidence \in 0..100 /\ learned[d.name] \in Nat

LEMMA WeightIsNatural ==
    ASSUME NEW d, NEW learned, NEW as_of \in Int, Weighable(d, learned)
    PROVE  DetectionWeight(d, learned, as_of) \in Nat
<1>1. PICK full \in Nat : full = d.base_weight * d.confidence
  BY DEF Weighable
<1>2. PICK factor \in Nat : factor = decay_factor(DayOf(as_of) - d.day)
  <2>1. PICK age \in Int : age = DayOf(as_of) - d.day
    BY DayIsNumber DEF Weighable
  <2> QED
    BY <2>1, DecayInHundredths
<1>3. PICK aged \in Nat : aged = Percent(full, factor)
  BY PercentIsNatural
<1>4. PICK restricted \in Nat :
          restricted = IF "restricted_data" \in d.context THEN MultiplierRestrictedData ELSE 100
  BY RiskAssumption
<1>5. PICK off_hours \in Nat :
          off_hours = IF "off_hours" \in d.context THEN MultiplierOffHours ELSE 100
  BY RiskAssumption
<1>6. PICK weight \in Nat : weight = learned[d.name]
  BY DEF Weighable
<1>7. PICK one \in Nat : one = Percent(aged, weight)
  BY PercentIsNatural
<1>8. PICK two \in Nat : two = Percent(one, restricted)
  BY PercentIsNatural
<1>9. Percent(two, off_hours) \in Nat
  BY PercentIsNatural
<1> QED
  BY <1>1, <1>2, <1>3, <1>4, <1>5, <1>6, <1>7, <1>8, <1>9 DEF DetectionWeight

LEMMA DivisorIsPositive ==
    ASSUME NEW i \in Nat
    PROVE  RepeatDivisor[i] \in Nat /\ RepeatDivisor[i] > 0
<1>1. \A j \in Nat : RepeatDivisor[j] = IF j = 0 THEN 1 ELSE 3 * RepeatDivisor[j - 1]
  <2>1. \E f : f = [j \in Nat |-> IF j = 0 THEN 1 ELSE 3 * f[j - 1]]
    BY PowersExist
  <2>2. RepeatDivisor = [j \in Nat |-> IF j = 0 THEN 1 ELSE 3 * RepeatDivisor[j - 1]]
    BY <2>1 DEF RepeatDivisor
  <2> QED
    BY <2>2
<1> DEFINE Bad == {j \in Nat : ~(RepeatDivisor[j] \in Nat /\ RepeatDivisor[j] > 0)}
<1> SUFFICES ASSUME Bad # {} PROVE FALSE
  OBVIOUS
<1>2. PICK j \in Bad : \A k \in Bad : j <= k
  <2>1. Bad \in SUBSET Nat /\ Bad # {}
    OBVIOUS
  <2> HIDE DEF Bad
  <2> QED
    BY <2>1, LeastNumberExists
<1>3. j # 0
  BY <1>1
<1>4. j - 1 \in Nat /\ j - 1 \notin Bad
  BY <1>2, <1>3
<1>5. PICK n \in Nat : n = RepeatDivisor[j - 1] /\ n > 0
  BY <1>4
<1>6. RepeatDivisor[j] = 3 * n
  BY <1>1, <1>3, <1>5
<1> QED
  BY <1>5, <1>6

\* A third, for each that counts before, of a natural number is one.
LEMMA ContributionsAreNatural ==
    ASSUME NEW found, IsFiniteSet(found), NEW weight, \A d \in found : weight[d] \in Nat
    PROVE  Contributions(found, weight) \in Nat
<1> DEFINE share == [d \in found |-> weight[d] \div RepeatDivisor[Repeat(d, found, weight)]]
<1>1. ASSUME NEW d \in found
      PROVE  share[d] \in Nat
  <2>1. PICK before \in Nat : before = Repeat(d, found, weight)
    <3> DEFINE heavier == {e \in found : e.name = d.name /\ CountsBefore(e, d, weight)}
    <3>1. IsFiniteSet(heavier)
      BY FS_Subset
    <3>2. Repeat(d, found, weight) = Cardinality(heavier)
      BY DEF Repeat
    <3> HIDE DEF heavier
    <3> QED
      BY <3>1, <3>2, FS_CardinalityType
  <2>2. PICK divisor \in Nat : divisor = RepeatDivisor[before] /\ divisor > 0
    BY DivisorIsPositive
  <2>3. PICK own \in Nat : own = weight[d]
    OBVIOUS
  <2>4. own \div divisor \in Nat
    BY <2>2
  <2> QED
    BY <2>1, <2>2, <2>3, <2>4
<1>2. Contributions(found, weight) = SumOver(share, found)
  BY DEF Contributions, Total, SumOver
<1> HIDE DEF share
<1> QED
  BY <1>1, <1>2, SumIsNatural

LEMMA RawRiskIsNatural ==
    ASSUME NEW a, NEW found, IsFiniteSet(found), \A d \in found : WellFormed(d),
           NEW learned, NEW as_of \in Int, \A d \in found : Weighable(d, learned)
    PROVE  RawRisk(a, found, learned, as_of) \in Nat
<1>1. CASE found = {}
  BY <1>1 DEF RawRisk
<1>2. CASE found # {}
  <2> DEFINE weight == [d \in found |-> DetectionWeight(d, learned, as_of)]
             engines == {d.engine : d \in found}
  <2>1. PICK sum \in Nat : sum = Contributions(found, weight)
    <3>1. \A d \in found : weight[d] \in Nat
      BY WeightIsNatural
    <3> HIDE DEF weight
    <3> QED
      BY <3>1, ContributionsAreNatural
  <2>2. Cardinality(engines) \in 1..3
    <3>1. engines \subseteq {"rules", "statistical", "ml"} /\ engines # {}
      BY <1>2 DEF WellFormed
    <3>2. /\ IsFiniteSet({"rules", "statistical", "ml"})
          /\ Cardinality({"rules", "statistical", "ml"}) <= 3
      <4>1. {"rules", "statistical", "ml"} = {"rules", "statistical", "ml", "ml"}
        OBVIOUS
      <4> QED
        BY <4>1, FourIsFinite
    <3> HIDE DEF engines
    <3>3. /\ IsFiniteSet(engines)
          /\ Cardinality(engines) <= Cardinality({"rules", "statistical", "ml"})
      BY <3>1, <3>2, FS_Subset
    <3>4. Cardinality(engines) \in Nat /\ Cardinality({"rules", "statistical", "ml"}) \in Nat
      BY <3>2, <3>3, FS_CardinalityType
    <3>5. Cardinality(engines) # 0
      BY <3>1, <3>3, FS_EmptySet
    <3> QED
      BY <3>2, <3>3, <3>4, <3>5
  <2>3. PICK bonus \in Nat : bonus = DIVERSITY_BONUS[Cardinality(engines)]
    <3>1. PICK n \in 1..3 : n = Cardinality(engines)
      BY <2>2
    <3>2. DIVERSITY_BONUS[n] \in Nat
      BY DEF DIVERSITY_BONUS
    <3> QED
      BY <3>1, <3>2
  <2>4. PICK diverse \in Nat : diverse = Percent(sum, bonus)
    BY PercentIsNatural
  <2>5. PICK departing \in Nat :
            departing = IF "departing" \in entity_context(a, as_of)
                        THEN MultiplierDeparting ELSE 100
    BY RiskAssumption
  <2>6. PICK privileged \in Nat :
            privileged = IF "privileged" \in entity_context(a, as_of)
                         THEN MultiplierPrivileged ELSE 100
    BY RiskAssumption
  <2>7. PICK raw \in Nat : raw = Percent(diverse, departing)
    BY PercentIsNatural
  <2>8. Percent(raw, privileged) \in Nat
    BY PercentIsNatural
  <2>9. RawRisk(a, found, learned, as_of) = Percent(raw, privileged)
    BY <1>2, <2>1, <2>3, <2>4, <2>5, <2>6, <2>7 DEF RawRisk
  <2> QED
    BY <2>8, <2>9
<1> QED
  BY <1>1, <1>2

\* The curve saturates: no risk is above the highest score.
LEMMA ScoreInRange ==
    ASSUME NEW a, NEW found, IsFiniteSet(found), \A d \in found : WellFormed(d),
           NEW learned, NEW as_of \in Int, \A d \in found : Weighable(d, learned)
    PROVE  score_entity(a, found, learned, as_of) \in 0..MaxScore
<1>1. PICK raw \in Nat : raw = RawRisk(a, found, learned, as_of)
  BY RawRiskIsNatural
<1>2. PICK most \in Nat : most = MaxScore
  BY RiskAssumption
<1>3. PICK top \in Nat, bottom \in Nat : top = most * raw /\ bottom = raw + 6000 /\ bottom > 0
  <2>1. most * raw \in Nat /\ raw + 6000 \in Nat /\ raw + 6000 > 0
    OBVIOUS
  <2> QED
    BY <2>1
<1>4. PICK k \in Int : k = top \div bottom /\ bottom * k <= top /\ top < bottom * (k + 1)
  BY <1>3
<1>5. k >= 0
  <2>1. k < 0 => bottom * (k + 1) <= 0
    BY <1>3
  <2> QED
    BY <1>3, <1>4, <2>1
<1>6. k <= most
  <2>1. bottom * most = top + 6000 * most
    BY <1>3
  <2>2. k > most => bottom * k >= bottom * most + bottom
    BY <1>3
  <2> QED
    BY <1>3, <1>4, <2>1, <2>2
<1>7. score_entity(a, found, learned, as_of) = k
  BY <1>1, <1>2, <1>3, <1>4 DEF score_entity, SATURATION
<1> QED
  BY <1>2, <1>5, <1>6, <1>7

----------------------------------------------------------------------------
(* One more finding never lowers the sum of the contributions, although it *)
(* moves all repeats that count after it.                                  *)

\* The findings about one person: no engine finds the same thing on a day twice.
Tellable(found) ==
    /\ \A d \in found : d.day \in Int /\ d.engine \in {"rules", "statistical", "ml"}
    /\ \A d, e \in found : d.name = e.name /\ d.day = e.day /\ d.engine = e.engine => d = e

Named(name, found) == {d \in found : d.name = name}

CountedBefore(d, found, weight) == {e \in found : e.name = d.name /\ CountsBefore(e, d, weight)}

\* The repeats of a name in the order in which they count.
Order(name, found, weight) ==
    [d \in Named(name, found) |-> CountedBefore(d, found, weight)]

LEMMA RepeatsAreOrdered ==
    ASSUME NEW found, Tellable(found), NEW weight, \A d \in found : weight[d] \in Nat, NEW name
    PROVE  IsOrder(Order(name, found, weight), Named(name, found))
<1> DEFINE S == Named(name, found)
           before == Order(name, found, weight)
<1>1. \A d \in S : d \in found /\ d.name = name
  BY DEF Named
<1>2. \A d \in S : before[d] = {e \in S : CountsBefore(e, d, weight)}
  BY DEF Order, CountedBefore, Named
<1>3. \A d \in S : /\ weight[d] \in Nat /\ d.day \in Int
                   /\ ENGINE_ORDER[d.engine] \in 1..3
  <2>1. \A engine \in {"rules", "statistical", "ml"} : ENGINE_ORDER[engine] \in 1..3
    BY DEF ENGINE_ORDER
  <2> QED
    BY <1>1, <2>1 DEF Tellable
<1>4. \A d, e \in S : ENGINE_ORDER[d.engine] = ENGINE_ORDER[e.engine] => d.engine = e.engine
  <2>1. \A f, g \in {"rules", "statistical", "ml"} : ENGINE_ORDER[f] = ENGINE_ORDER[g] => f = g
    BY DEF ENGINE_ORDER
  <2> QED
    BY <1>1, <2>1 DEF Tellable
<1>5. before \in [S -> SUBSET S]
  <2>1. \A d \in S : CountedBefore(d, found, weight) \in SUBSET S
    BY DEF CountedBefore, Named
  <2> QED
    BY <2>1 DEF Order
<1>6. \A d \in S : d \notin before[d]
  BY <1>2, <1>3 DEF CountsBefore
<1>7. ASSUME NEW d \in S, NEW e \in S
      PROVE  d = e \/ d \in before[e] \/ e \in before[d]
  <2>1. d.day = e.day /\ d.engine = e.engine => d = e
    BY <1>1 DEF Tellable
  <2>2. d.day = e.day /\ ENGINE_ORDER[d.engine] = ENGINE_ORDER[e.engine] => d = e
    BY <1>4, <2>1
  <2>3. d = e \/ CountsBefore(d, e, weight) \/ CountsBefore(e, d, weight)
    BY <1>3, <2>2 DEF CountsBefore
  <2> QED
    BY <1>2, <2>3
<1>8. ASSUME NEW d \in S, NEW e \in S, d \in before[e]
      PROVE  before[d] \subseteq before[e]
  <2>1. CountsBefore(d, e, weight)
    BY <1>2, <1>8
  <2>2. ASSUME NEW c \in S, CountsBefore(c, d, weight)
        PROVE  CountsBefore(c, e, weight)
    BY <1>3, <2>1, <2>2 DEF CountsBefore
  <2> QED
    BY <1>2, <2>2
<1> HIDE DEF S, before
<1>9. IsOrder(before, S)
  BY <1>5, <1>6, <1>7, <1>8 DEF IsOrder
<1> QED
  BY <1>9 DEF S, before

\* There is one of x's name in T that counts in the place of x in S and is no lighter.
HasItsPlace(x, S, w, T, v) ==
    \E y \in T : y.name = x.name /\ Repeat(y, T, v) = Repeat(x, S, w) /\ w[x] <= v[y]

\* Findings that others outweigh one by one have their places among these.
LEMMA PlaceIsFound ==
    ASSUME NEW S, IsFiniteSet(S), Tellable(S), NEW w, \A x \in S : w[x] \in Nat,
           NEW T, IsFiniteSet(T), Tellable(T), NEW v, \A y \in T : v[y] \in Nat,
           NEW h, \A x \in S : h[x] \in T /\ h[x].name = x.name /\ w[x] <= v[h[x]],
           \A x, y \in S : h[x] = h[y] => x = y,
           NEW x \in S
    PROVE  HasItsPlace(x, S, w, T, v)
<1> DEFINE C == Named(x.name, S)
           E == Named(x.name, T)
           first == CountedBefore(x, S, w)
<1>1. /\ C \subseteq S /\ E \subseteq T /\ IsFiniteSet(C) /\ IsFiniteSet(E)
      /\ x \in C /\ \A e \in C : h[e] \in E
  <2>1. C \subseteq S /\ E \subseteq T
    BY DEF Named
  <2> QED
    BY <2>1, FS_Subset DEF Named
<1>2. IsOrder(Order(x.name, S, w), C) /\ IsOrder(Order(x.name, T, v), E)
  BY RepeatsAreOrdered
<1>3. first \subseteq C \ {x} /\ Order(x.name, S, w)[x] = first
  <2>1. Order(x.name, S, w)[x] = first
    BY <1>1 DEF Order
  <2>2. first \subseteq C
    BY DEF CountedBefore, Named
  <2>3. x \notin first
    BY <1>1, <1>2, <2>1 DEF IsOrder
  <2> QED
    BY <2>1, <2>2, <2>3
<1>4. PICK n \in Nat : n = Cardinality(first) /\ n < Cardinality(C) /\ IsFiniteSet(first)
  <2> HIDE DEF first, C
  <2>1. IsFiniteSet(C \ {x}) /\ Cardinality(C \ {x}) = Cardinality(C) - 1
    BY <1>1, FS_RemoveElement
  <2>2. IsFiniteSet(first) /\ Cardinality(first) <= Cardinality(C \ {x})
    BY <1>3, <2>1, FS_Subset
  <2>3. Cardinality(first) \in Nat /\ Cardinality(C) \in Nat
    BY <1>1, <2>2, FS_CardinalityType
  <2> QED
    BY <2>1, <2>2, <2>3
<1>5. Cardinality(C) <= Cardinality(E)
  <2> DEFINE f == [e \in C |-> h[e]]
  <2>1. f \in Injection(C, E)
    BY <1>1 DEF Injection, IsInjective
  <2> HIDE DEF f, C, E
  <2> QED
    BY <1>1, <2>1, FS_Injection
<1>6. n < Cardinality(E)
  <2> HIDE DEF C, E
  <2>1. Cardinality(C) \in Nat /\ Cardinality(E) \in Nat
    BY <1>1, FS_CardinalityType
  <2> QED
    BY <1>4, <1>5, <2>1
<1>7. PICK y \in E : Cardinality(Order(x.name, T, v)[y]) = n
  <2> HIDE DEF E
  <2> QED
    BY <1>1, <1>2, <1>6, EveryRankIsTaken
<1>8. y \in T /\ y.name = x.name /\ Order(x.name, T, v)[y] = CountedBefore(y, T, v)
  BY DEF Order, Named
<1>9. Repeat(y, T, v) = n /\ Repeat(x, S, w) = n
  BY <1>4, <1>7, <1>8 DEF Repeat, CountedBefore
<1>10. ASSUME v[y] < w[x]
       PROVE  FALSE
  <2> DEFINE A == first \cup {x}
             B == CountedBefore(y, T, v)
             f == [e \in A |-> h[e]]
  <2>1. ASSUME NEW e \in A
        PROVE  h[e] \in B /\ e \in S
    <3>1. e \in C /\ w[e] >= w[x]
      <4>1. CASE e = x
        BY <1>1, <4>1
      <4>2. CASE e \in first
        BY <1>1, <1>3, <4>2 DEF CountedBefore, CountsBefore
      <4> QED
        BY <4>1, <4>2
    <3>2. h[e] \in T /\ h[e].name = x.name /\ w[e] <= v[h[e]]
      BY <1>1, <3>1 DEF Named
    <3>3. v[h[e]] > v[y]
      BY <1>1, <1>8, <1>10, <3>1, <3>2
    <3> QED
      BY <1>1, <1>8, <3>1, <3>2, <3>3 DEF CountedBefore, CountsBefore
  <2>2. f \in Injection(A, B)
    BY <2>1 DEF Injection, IsInjective
  <2>3. IsFiniteSet(B) /\ Cardinality(B) = n
    <3>1. B \subseteq T
      BY DEF CountedBefore
    <3> QED
      BY <1>7, <1>8, <3>1, FS_Subset
  <2> HIDE DEF f, B
  <2>4. Cardinality(A) <= n
    <3> HIDE DEF A
    <3> QED
      BY <2>2, <2>3, FS_Injection
  <2>5. Cardinality(A) = n + 1
    <3>1. x \notin first
      BY <1>3
    <3> HIDE DEF first
    <3> QED
      BY <1>4, <3>1, FS_AddElement
  <2> QED
    BY <1>4, <2>4, <2>5
<1>11. w[x] <= v[y]
  BY <1>8, <1>10
<1> QED
  BY <1>8, <1>9, <1>11 DEF HasItsPlace

\* The share of a finding in the sum.
Share(d, found, weight) == weight[d] \div RepeatDivisor[Repeat(d, found, weight)]

LEMMA RepeatIsNatural ==
    ASSUME NEW found, IsFiniteSet(found), NEW weight, NEW d
    PROVE  Repeat(d, found, weight) \in Nat
<1>1. CountedBefore(d, found, weight) \subseteq found
  BY DEF CountedBefore
<1>2. Cardinality(CountedBefore(d, found, weight)) \in Nat
  BY <1>1, FS_Subset, FS_CardinalityType
<1> QED
  BY <1>2 DEF Repeat, CountedBefore

LEMMA ShareIsNatural ==
    ASSUME NEW found, IsFiniteSet(found), NEW weight, NEW d, weight[d] \in Nat
    PROVE  Share(d, found, weight) \in Nat
<1>1. PICK n \in Nat : n = Repeat(d, found, weight)
  BY RepeatIsNatural
<1>2. PICK divisor \in Nat : divisor = RepeatDivisor[n] /\ divisor > 0
  BY DivisorIsPositive
<1>3. PICK own \in Nat : own = weight[d]
  OBVIOUS
<1>4. own \div divisor \in Nat
  BY <1>2
<1> QED
  BY <1>1, <1>2, <1>3, <1>4 DEF Share

LEMMA ContributionsAreShares ==
    ASSUME NEW found, NEW weight
    PROVE  Contributions(found, weight) = SumOver([d \in found |-> Share(d, found, weight)], found)
BY DEF Contributions, Total, SumOver, Share

\* Findings that others outweigh one by one contribute no more than these.
LEMMA ContributionsGrow ==
    ASSUME NEW S, IsFiniteSet(S), Tellable(S), NEW w, \A x \in S : w[x] \in Nat,
           NEW T, IsFiniteSet(T), Tellable(T), NEW v, \A y \in T : v[y] \in Nat,
           NEW h, \A x \in S : h[x] \in T /\ h[x].name = x.name /\ w[x] <= v[h[x]],
           \A x, y \in S : h[x] = h[y] => x = y
    PROVE  Contributions(S, w) <= Contributions(T, v)
<1> DEFINE P(x, y) == y.name = x.name /\ Repeat(y, T, v) = Repeat(x, S, w) /\ w[x] <= v[y]
           g == [x \in S |-> CHOOSE y \in T : P(x, y)]
           less == [x \in S |-> Share(x, S, w)]
           more == [y \in T |-> Share(y, T, v)]
<1>1. \A x \in S : g[x] \in T /\ P(x, g[x])
  <2>1. ASSUME NEW x \in S
        PROVE  \E y \in T : P(x, y)
    <3>1. HasItsPlace(x, S, w, T, v)
      BY PlaceIsFound
    <3> QED
      BY <3>1 DEF HasItsPlace
  <2> HIDE DEF P
  <2> QED
    BY <2>1
<1> HIDE DEF g
<1>2. ASSUME NEW x \in S, NEW y \in S, g[x] = g[y]
      PROVE  x = y
  <2> DEFINE C == Named(x.name, S)
             order == Order(x.name, S, w)
  <2>1. x.name = y.name /\ Repeat(x, S, w) = Repeat(y, S, w)
    BY <1>1, <1>2
  <2>2. C \subseteq S /\ x \in C /\ y \in C
    BY <2>1 DEF Named
  <2>3. IsOrder(order, C) /\ IsFiniteSet(C)
    BY <2>2, RepeatsAreOrdered, FS_Subset
  <2>4. Cardinality(order[x]) = Cardinality(order[y])
    BY <2>1, <2>2 DEF Order, Repeat, CountedBefore
  <2> HIDE DEF C, order
  <2>5. x \in order[y] => FALSE
    BY <2>2, <2>3, <2>4, RanksAscend
  <2>6. y \in order[x] => FALSE
    BY <2>2, <2>3, <2>4, RanksAscend
  <2> QED
    BY <2>2, <2>3, <2>5, <2>6 DEF IsOrder
<1>3. (\A x \in S : less[x] \in Nat) /\ (\A y \in T : more[y] \in Nat)
  BY ShareIsNatural
<1>4. ASSUME NEW x \in S
      PROVE  less[x] <= more[g[x]]
  <2>1. PICK y \in T : y = g[x]
    BY <1>1
  <2>2. PICK n \in Nat : n = Repeat(x, S, w) /\ n = Repeat(y, T, v)
    BY <1>1, <2>1, RepeatIsNatural
  <2>3. PICK divisor \in Nat : divisor = RepeatDivisor[n] /\ divisor > 0
    BY DivisorIsPositive
  <2>4. PICK a \in Nat, b \in Nat : a = w[x] /\ b = v[y] /\ a <= b
    BY <1>1, <2>1
  <2>5. a \div divisor <= b \div divisor
    BY <2>3, <2>4, QuotientGrows
  <2>6. less[x] = a \div divisor /\ more[g[x]] = b \div divisor
    BY <2>1, <2>2, <2>3, <2>4 DEF Share
  <2> QED
    BY <2>5, <2>6
<1> HIDE DEF less, more
<1>5. SumOver(less, S) <= SumOver(more, T)
  <2>1. \A x \in S : g[x] \in T
    BY <1>1
  <2> QED
    BY <1>2, <1>3, <1>4, <2>1, SumInjects
<1> QED
  BY <1>5, ContributionsAreShares DEF less, more

\* The divisors ascend, and that of a repeat is at least three.
LEMMA DivisorsAscend ==
    ASSUME NEW i \in Nat
    PROVE  /\ RepeatDivisor[i + 1] = 3 * RepeatDivisor[i]
           /\ RepeatDivisor[i] <= RepeatDivisor[i + 1]
           /\ i >= 1 => RepeatDivisor[i] >= 3
<1>1. \A j \in Nat : RepeatDivisor[j] = IF j = 0 THEN 1 ELSE 3 * RepeatDivisor[j - 1]
  <2>1. \E f : f = [j \in Nat |-> IF j = 0 THEN 1 ELSE 3 * f[j - 1]]
    BY PowersExist
  <2>2. RepeatDivisor = [j \in Nat |-> IF j = 0 THEN 1 ELSE 3 * RepeatDivisor[j - 1]]
    BY <2>1 DEF RepeatDivisor
  <2> QED
    BY <2>2
<1>2. PICK next \in Nat : next = i + 1 /\ next # 0 /\ next - 1 = i
  OBVIOUS
<1>3. RepeatDivisor[next] = 3 * RepeatDivisor[i]
  BY <1>1, <1>2
<1>4. PICK divisor \in Nat : divisor = RepeatDivisor[i] /\ divisor > 0
  BY DivisorIsPositive
<1>5. ASSUME i >= 1
      PROVE  RepeatDivisor[i] >= 3
  <2>1. PICK j \in Nat : j = i - 1 /\ i # 0
    BY <1>5
  <2>2. PICK before \in Nat : before = RepeatDivisor[j] /\ before > 0
    BY DivisorIsPositive
  <2>3. RepeatDivisor[i] = 3 * before
    BY <1>1, <2>1, <2>2
  <2> QED
    BY <2>2, <2>3
<1> QED
  BY <1>2, <1>3, <1>4, <1>5

\* What a finding adds, it adds at its place: those after it move on by one.
LEMMA AddsItsShare ==
    ASSUME NEW found, IsFiniteSet(found), NEW weight, \A x \in found : weight[x] \in Nat,
           NEW d \in found
    PROVE  Contributions(found, weight)
               <= Share(d, found, weight) + Contributions(found \ {d}, weight)
<1> DEFINE rest == found \ {d}
           with == [x \in found |-> Share(x, found, weight)]
           without == [x \in rest |-> Share(x, rest, weight)]
           same == [x \in rest |-> x]
<1>1. IsFiniteSet(rest) /\ rest \subseteq found
  BY FS_Subset
<1>2. (\A x \in found : with[x] \in Nat) /\ (\A x \in rest : without[x] \in Nat)
  BY <1>1, ShareIsNatural
<1>3. ASSUME NEW x \in rest
      PROVE  with[x] <= without[x]
  <2>1. PICK n \in Nat, m \in Nat :
            n = Repeat(x, found, weight) /\ m = Repeat(x, rest, weight) /\ n \in {m, m + 1}
    <3> DEFINE all == CountedBefore(x, found, weight)
               some == CountedBefore(x, rest, weight)
    <3>1. some = all \ {d}
      BY DEF CountedBefore
    <3>2. IsFiniteSet(all)
      BY FS_Subset DEF CountedBefore
    <3>3. Cardinality(some) \in {Cardinality(all), Cardinality(all) - 1}
      <4> HIDE DEF all, some
      <4> QED
        BY <3>1, <3>2, FS_RemoveElement
    <3>4. Repeat(x, found, weight) = Cardinality(all) /\ Repeat(x, rest, weight) = Cardinality(some)
      BY DEF Repeat, CountedBefore
    <3>5. Repeat(x, found, weight) \in Nat /\ Repeat(x, rest, weight) \in Nat
      BY <1>1, RepeatIsNatural
    <3> HIDE DEF all, some, rest
    <3> QED
      BY <3>3, <3>4, <3>5
  <2>2. PICK before \in Nat, after \in Nat :
            /\ before = RepeatDivisor[m] /\ before > 0
            /\ after = RepeatDivisor[n] /\ before <= after
    <3>1. RepeatDivisor[m] \in Nat /\ RepeatDivisor[m] > 0 /\ RepeatDivisor[n] \in Nat
      BY DivisorIsPositive
    <3>2. RepeatDivisor[m] <= RepeatDivisor[m + 1]
      BY DivisorsAscend
    <3> QED
      BY <2>1, <3>1, <3>2
  <2>3. PICK own \in Nat : own = weight[x]
    BY <1>1
  <2>4. own \div after <= own \div before
    BY <2>2, QuotientGrows
  <2> QED
    BY <1>1, <2>1, <2>2, <2>3, <2>4 DEF Share
<1> HIDE DEF with, without
<1>4. SumOver(with, rest) <= SumOver(without, rest)
  <2>1. /\ \A x \in rest : same[x] \in rest /\ with[x] <= without[same[x]]
        /\ \A x, y \in rest : same[x] = same[y] => x = y
    BY <1>3
  <2>2. \A x \in rest : with[x] \in Nat
    BY <1>1, <1>2
  <2> HIDE DEF same, rest
  <2> QED
    BY <1>1, <1>2, <2>1, <2>2, SumInjects
<1>5. SumOver(with, found) = with[d] + SumOver(with, rest)
  BY <1>2, SumTakesAny
<1>6. with[d] = Share(d, found, weight) /\ with[d] \in Nat
  BY <1>2 DEF with
<1>7. SumOver(with, rest) \in Nat /\ SumOver(without, rest) \in Nat
  <2>1. \A x \in rest : with[x] \in Nat
    BY <1>1, <1>2
  <2> HIDE DEF rest
  <2> QED
    BY <1>1, <1>2, <2>1, SumIsNatural
<1>8. /\ Contributions(found, weight) = SumOver(with, found)
      /\ Contributions(rest, weight) = SumOver(without, rest)
  BY ContributionsAreShares DEF with, without
<1> HIDE DEF rest
<1>9. Contributions(found, weight) <= with[d] + Contributions(rest, weight)
  BY <1>4, <1>5, <1>6, <1>7, <1>8
<1> QED
  BY <1>6, <1>9 DEF rest

\* A finding that another of its name outweighs adds at most a third of itself.
LEMMA RepeatAddsAThird ==
    ASSUME NEW found, IsFiniteSet(found), Tellable(found),
           NEW weight, \A x \in found : weight[x] \in Nat,
           NEW d \in found, NEW x \in found, x # d, x.name = d.name, weight[x] >= weight[d]
    PROVE  Contributions(found, weight) - Contributions(found \ {d}, weight) <= weight[d] \div 3
<1>1. ASSUME NEW y \in found, NEW z \in found, y # z, y.name = z.name, CountsBefore(z, y, weight)
      PROVE  Share(y, found, weight) <= weight[y] \div 3
  <2>1. PICK n \in Nat : n = Repeat(y, found, weight)
    BY RepeatIsNatural
  <2>2. n >= 1
    <3> DEFINE first == CountedBefore(y, found, weight)
    <3>1. z \in first
      BY <1>1 DEF CountedBefore
    <3>2. IsFiniteSet(first)
      BY FS_Subset DEF CountedBefore
    <3>3. n = Cardinality(first)
      BY <2>1 DEF Repeat, CountedBefore
    <3> HIDE DEF first
    <3>4. Cardinality(first) # 0
      BY <3>1, <3>2, FS_EmptySet
    <3> QED
      BY <3>3, <3>4
  <2>3. PICK divisor \in Nat : divisor = RepeatDivisor[n] /\ divisor >= 3
    BY <2>2, DivisorIsPositive, DivisorsAscend
  <2>4. PICK own \in Nat : own = weight[y]
    OBVIOUS
  <2>5. PICK three \in Nat : three = 3
    OBVIOUS
  <2>6. own \div divisor <= own \div three
    BY <2>3, <2>5, QuotientGrows
  <2> QED
    BY <2>1, <2>3, <2>4, <2>5, <2>6 DEF Share
<1>2. /\ IsFiniteSet(found \ {x}) /\ IsFiniteSet(found \ {d})
      /\ Tellable(found \ {x}) /\ Tellable(found \ {d})
  BY FS_Subset DEF Tellable
<1>3. /\ Contributions(found, weight) \in Nat
      /\ Contributions(found \ {x}, weight) \in Nat
      /\ Contributions(found \ {d}, weight) \in Nat
  BY <1>2, ContributionsAreNatural
<1>4. weight[d] \in Nat /\ weight[x] \in Nat /\ weight[d] \div 3 \in Nat
  OBVIOUS
<1>5. /\ Share(d, found, weight) \in Nat /\ Share(x, found, weight) \in Nat
  BY ShareIsNatural
<1>6. CASE CountsBefore(x, d, weight)
  <2>1. Share(d, found, weight) <= weight[d] \div 3
    BY <1>1, <1>6
  <2>2. Contributions(found, weight) <= Share(d, found, weight) + Contributions(found \ {d}, weight)
    BY AddsItsShare
  <2> QED
    BY <1>3, <1>4, <1>5, <2>1, <2>2
<1>7. CASE ~CountsBefore(x, d, weight)
  <2>1. CountsBefore(d, x, weight)
    <3> DEFINE C == Named(d.name, found)
    <3>1. d \in C /\ x \in C
      BY DEF Named
    <3>2. IsOrder(Order(d.name, found, weight), C)
      BY RepeatsAreOrdered
    <3>3. d \in Order(d.name, found, weight)[x] \/ x \in Order(d.name, found, weight)[d]
      <4> HIDE DEF C
      <4> QED
        BY <3>1, <3>2 DEF IsOrder
    <3> QED
      BY <1>7, <3>3 DEF Order, CountedBefore, Named
  <2>2. weight[x] = weight[d]
    BY <1>4, <2>1 DEF CountsBefore
  <2>3. Share(x, found, weight) <= weight[d] \div 3
    BY <1>1, <2>1, <2>2
  <2>4. Contributions(found, weight) <= Share(x, found, weight) + Contributions(found \ {x}, weight)
    BY AddsItsShare
  <2>5. Contributions(found \ {x}, weight) <= Contributions(found \ {d}, weight)
    <3> DEFINE S == found \ {x}
               T == found \ {d}
               h == [y \in S |-> IF y = d THEN x ELSE y]
    <3>1. \A y \in S : h[y] \in T /\ h[y].name = y.name /\ weight[y] <= weight[h[y]]
      <4>1. \A y \in found : weight[y] <= weight[y]
        OBVIOUS
      <4> QED
        BY <1>4, <2>2, <4>1
    <3>2. \A y, z \in S : h[y] = h[z] => y = z
      OBVIOUS
    <3>3. (\A y \in S : weight[y] \in Nat) /\ (\A y \in T : weight[y] \in Nat)
      OBVIOUS
    <3>4. IsFiniteSet(S) /\ IsFiniteSet(T) /\ Tellable(S) /\ Tellable(T)
      BY <1>2
    <3> HIDE DEF S, T, h
    <3>5. Contributions(S, weight) <= Contributions(T, weight)
      BY <3>1, <3>2, <3>3, <3>4, ContributionsGrow
    <3> QED
      BY <3>5 DEF S, T
  <2> QED
    BY <1>3, <1>4, <1>5, <2>3, <2>4, <2>5
<1> QED
  BY <1>6, <1>7

----------------------------------------------------------------------------
(* What moves a risk moves it in one direction.                            *)

LEMMA PercentGrows ==
    ASSUME NEW x \in Nat, NEW y \in Nat, x <= y, NEW f \in Nat, NEW g \in Nat, f <= g
    PROVE  Percent(x, f) <= Percent(y, g)
<1>1. PICK a \in Nat, b \in Nat : a = x * f /\ b = y * g
  OBVIOUS
<1>2. a <= b
  <2>1. x * f <= y * f
    OBVIOUS
  <2>2. y * f <= y * g
    OBVIOUS
  <2>3. x * f \in Nat /\ y * f \in Nat /\ y * g \in Nat
    OBVIOUS
  <2> QED
    BY <1>1, <2>1, <2>2, <2>3
<1>3. PICK hundred \in Nat : hundred = 100
  OBVIOUS
<1>4. a \div hundred <= b \div hundred
  BY <1>2, <1>3, QuotientGrows
<1> QED
  BY <1>1, <1>3, <1>4 DEF Percent

\* "Old news fades": the later it is, and the less its name is trusted, the less a
\* finding weighs.
LEMMA WeightFades ==
    ASSUME NEW d, NEW as_of \in Int, NEW later \in Int, as_of <= later,
           NEW learned, Weighable(d, learned), NEW lower, Weighable(d, lower),
           lower[d.name] <= learned[d.name]
    PROVE  DetectionWeight(d, lower, later) <= DetectionWeight(d, learned, as_of)
<1>1. PICK full \in Nat : full = d.base_weight * d.confidence
  BY DEF Weighable
<1>2. PICK factor \in Nat, less \in Nat :
          /\ factor = decay_factor(DayOf(as_of) - d.day)
          /\ less = decay_factor(DayOf(later) - d.day)
          /\ less <= factor
  <2>1. PICK age \in Int, older \in Int :
            age = DayOf(as_of) - d.day /\ older = DayOf(later) - d.day /\ age <= older
    <3>1. PICK t \in Int, u \in Int, day \in Int :
              t = DayOf(as_of) /\ u = DayOf(later) /\ day = d.day /\ t <= u
      <4>1. DayOf(as_of) \in Int /\ DayOf(later) \in Int /\ DayOf(as_of) <= DayOf(later)
        BY DaysInOrder
      <4>2. d.day \in Int
        BY DEF Weighable
      <4> QED
        BY <4>1, <4>2, Zenon
    <3>2. t - day \in Int /\ u - day \in Int /\ t - day <= u - day
      BY <3>1
    <3> QED
      BY <3>1, <3>2, Zenon
  <2> QED
    BY <2>1, DecayInHundredths
<1>3. PICK aged \in Nat, faded \in Nat :
          aged = Percent(full, factor) /\ faded = Percent(full, less) /\ faded <= aged
  <2>1. Percent(full, factor) \in Nat /\ Percent(full, less) \in Nat
    BY PercentIsNatural
  <2>2. full <= full /\ less <= factor
    BY <1>2
  <2>3. Percent(full, less) <= Percent(full, factor)
    BY <2>2, PercentGrows
  <2> QED
    BY <2>1, <2>3
<1>4. PICK restricted \in Nat :
          restricted = IF "restricted_data" \in d.context THEN MultiplierRestrictedData ELSE 100
  BY RiskAssumption
<1>5. PICK off_hours \in Nat :
          off_hours = IF "off_hours" \in d.context THEN MultiplierOffHours ELSE 100
  BY RiskAssumption
<1>6. PICK weight \in Nat, trust \in Nat :
          weight = learned[d.name] /\ trust = lower[d.name] /\ trust <= weight
  BY DEF Weighable
<1>7. PICK one \in Nat, uno \in Nat :
          one = Percent(aged, weight) /\ uno = Percent(faded, trust) /\ uno <= one
  <2>1. Percent(aged, weight) \in Nat /\ Percent(faded, trust) \in Nat
    BY PercentIsNatural
  <2>2. Percent(faded, trust) <= Percent(aged, weight)
    BY <1>3, <1>6, PercentGrows
  <2> QED
    BY <2>1, <2>2
<1>8. PICK two \in Nat, due \in Nat :
          two = Percent(one, restricted) /\ due = Percent(uno, restricted) /\ due <= two
  <2>1. Percent(one, restricted) \in Nat /\ Percent(uno, restricted) \in Nat
    BY PercentIsNatural
  <2>2. Percent(uno, restricted) <= Percent(one, restricted)
    BY <1>7, PercentGrows
  <2> QED
    BY <2>1, <2>2
<1>9. Percent(due, off_hours) <= Percent(two, off_hours)
  BY <1>8, PercentGrows
<1>10. DetectionWeight(d, learned, as_of) = Percent(two, off_hours)
  <2>1. aged = Percent(full, factor) /\ one = Percent(aged, weight) /\ two = Percent(one, restricted)
    BY <1>3, <1>7, <1>8
  <2>2. factor = decay_factor(DayOf(as_of) - d.day) /\ weight = learned[d.name]
    BY <1>2, <1>6
  <2> QED
    BY <1>1, <1>4, <1>5, <2>1, <2>2 DEF DetectionWeight
<1>11. DetectionWeight(d, lower, later) = Percent(due, off_hours)
  <2>1. faded = Percent(full, less) /\ uno = Percent(faded, trust) /\ due = Percent(uno, restricted)
    BY <1>3, <1>7, <1>8
  <2>2. less = decay_factor(DayOf(later) - d.day) /\ trust = lower[d.name]
    BY <1>2, <1>6
  <2> QED
    BY <1>1, <1>4, <1>5, <2>1, <2>2 DEF DetectionWeight
<1> QED
  BY <1>9, <1>10, <1>11

Bonus(found) == DIVERSITY_BONUS[Cardinality({d.engine : d \in found})]

LEMMA BonusIs ==
    ASSUME NEW found, found # {}, \A d \in found : WellFormed(d)
    PROVE  Bonus(found) \in {100, 110, 125}
<1> DEFINE E == {"rules", "statistical", "ml"}
           engines == {d.engine : d \in found}
<1>1. engines \subseteq E /\ engines # {}
  BY DEF WellFormed
<1>2. IsFiniteSet(E) /\ Cardinality(E) <= 3
  <2>1. E = {"rules", "statistical", "ml", "ml"}
    OBVIOUS
  <2> QED
    BY <2>1, FourIsFinite
<1> HIDE DEF E, engines
<1>3. IsFiniteSet(engines) /\ Cardinality(engines) <= Cardinality(E)
  BY <1>1, <1>2, FS_Subset
<1>4. Cardinality(E) \in Nat /\ Cardinality(engines) \in Nat
  BY <1>2, <1>3, FS_CardinalityType
<1>5. Cardinality(engines) # 0
  BY <1>1, <1>3, FS_EmptySet
<1>6. PICK n \in 1..3 : n = Cardinality(engines)
  BY <1>2, <1>3, <1>4, <1>5
<1>7. DIVERSITY_BONUS[n] \in {100, 110, 125}
  BY <1>6 DEF DIVERSITY_BONUS
<1> QED
  BY <1>6, <1>7 DEF Bonus, engines

LEMMA BonusGrows ==
    ASSUME NEW T, \A d \in T : WellFormed(d), NEW S \in SUBSET T, S # {}
    PROVE  Bonus(S) \in Nat /\ Bonus(T) \in Nat /\ Bonus(S) <= Bonus(T)
<1> DEFINE E == {"rules", "statistical", "ml"}
           some == {d.engine : d \in S}
           all == {d.engine : d \in T}
<1>1. some \subseteq all /\ all \subseteq E /\ some # {}
  BY DEF WellFormed
<1>2. IsFiniteSet(E) /\ Cardinality(E) <= 3
  <2>1. E = {"rules", "statistical", "ml", "ml"}
    OBVIOUS
  <2> QED
    BY <2>1, FourIsFinite
<1> HIDE DEF E, some, all
<1>3. IsFiniteSet(all) /\ Cardinality(all) <= Cardinality(E)
  BY <1>1, <1>2, FS_Subset
<1>4. IsFiniteSet(some) /\ Cardinality(some) <= Cardinality(all)
  BY <1>1, <1>3, FS_Subset
<1>5. Cardinality(E) \in Nat /\ Cardinality(all) \in Nat /\ Cardinality(some) \in Nat
  BY <1>2, <1>3, <1>4, FS_CardinalityType
<1>6. Cardinality(some) # 0
  BY <1>1, <1>4, FS_EmptySet
<1>7. PICK n \in 1..3, m \in 1..3 : n = Cardinality(some) /\ m = Cardinality(all) /\ n <= m
  BY <1>2, <1>3, <1>4, <1>5, <1>6
<1>8. DIVERSITY_BONUS[n] \in Nat /\ DIVERSITY_BONUS[m] \in Nat
      /\ DIVERSITY_BONUS[n] <= DIVERSITY_BONUS[m]
  BY <1>7 DEF DIVERSITY_BONUS
<1> QED
  BY <1>7, <1>8 DEF Bonus, some, all

\* The multipliers of a person's context do raise a score; config.py's are 200 and
\* 150, but nothing refuses others.
MultipliersRaise == MultiplierDeparting >= 100 /\ MultiplierPrivileged >= 100

\* A person's context at one time is no reason for a higher risk than at another.
NoMoreContext(a, later, as_of) ==
    \/ entity_context(a, later) = entity_context(a, as_of)
    \/ MultipliersRaise /\ entity_context(a, later) \subseteq entity_context(a, as_of)

Factor(c, multiplier, context) == IF c \in context THEN multiplier ELSE 100

LEMMA FactorGrows ==
    ASSUME NEW a, NEW later, NEW as_of, NoMoreContext(a, later, as_of),
           NEW c, NEW multiplier \in Nat, MultipliersRaise => multiplier >= 100
    PROVE  /\ Factor(c, multiplier, entity_context(a, as_of)) \in Nat
           /\ Factor(c, multiplier, entity_context(a, later)) \in Nat
           /\ Factor(c, multiplier, entity_context(a, later))
                  <= Factor(c, multiplier, entity_context(a, as_of))
BY DEF NoMoreContext, Factor

\* The risk of somebody with fewer findings, each no heavier, is no higher.
LEMMA RiskGrows ==
    ASSUME NEW a, NEW T, IsFiniteSet(T), \A d \in T : WellFormed(d), Tellable(T),
           NEW learned, NEW as_of \in Int, \A d \in T : Weighable(d, learned),
           NEW S \in SUBSET T,
           NEW lower, NEW later \in Int, \A d \in S : Weighable(d, lower),
           \A d \in S : DetectionWeight(d, lower, later) <= DetectionWeight(d, learned, as_of),
           NoMoreContext(a, later, as_of)
    PROVE  RawRisk(a, S, lower, later) <= RawRisk(a, T, learned, as_of)
<1>1. RawRisk(a, T, learned, as_of) \in Nat
  BY RawRiskIsNatural
<1>2. CASE S = {}
  BY <1>1, <1>2 DEF RawRisk
<1>3. CASE S # {}
  <2> DEFINE w == [d \in S |-> DetectionWeight(d, lower, later)]
             v == [d \in T |-> DetectionWeight(d, learned, as_of)]
             same == [d \in S |-> d]
  <2>1. IsFiniteSet(S) /\ Tellable(S)
    BY FS_Subset DEF Tellable
  <2>2. (\A d \in S : w[d] \in Nat) /\ (\A d \in T : v[d] \in Nat)
    BY WeightIsNatural
  <2>3. /\ \A d \in S : same[d] \in T /\ same[d].name = d.name /\ w[d] <= v[same[d]]
        /\ \A d, e \in S : same[d] = same[e] => d = e
    OBVIOUS
  <2>4. PICK less \in Nat, more \in Nat :
            less = Contributions(S, w) /\ more = Contributions(T, v) /\ less <= more
    <3> HIDE DEF w, v, same
    <3>1. Contributions(S, w) \in Nat /\ Contributions(T, v) \in Nat
      BY <2>1, <2>2, ContributionsAreNatural
    <3>2. Contributions(S, w) <= Contributions(T, v)
      BY <2>1, <2>2, <2>3, ContributionsGrow
    <3> QED
      BY <3>1, <3>2
  <2>5. PICK small \in Nat, large \in Nat : small = Bonus(S) /\ large = Bonus(T) /\ small <= large
    BY <1>3, BonusGrows
  <2>6. PICK low \in Nat, high \in Nat :
            low = Percent(less, small) /\ high = Percent(more, large) /\ low <= high
    <3>1. Percent(less, small) \in Nat /\ Percent(more, large) \in Nat
      BY PercentIsNatural
    <3>2. less <= more /\ small <= large
      BY <2>4, <2>5
    <3>3. Percent(less, small) <= Percent(more, large)
      BY <3>2, PercentGrows
    <3> QED
      BY <3>1, <3>3
  <2>7. PICK departing \in Nat, left \in Nat :
            /\ departing = Factor("departing", MultiplierDeparting, entity_context(a, as_of))
            /\ left = Factor("departing", MultiplierDeparting, entity_context(a, later))
            /\ left <= departing
    <3>1. PICK c : c = "departing"
      OBVIOUS
    <3>2. PICK m \in Nat : m = MultiplierDeparting /\ (MultipliersRaise => m >= 100)
      BY RiskAssumption DEF MultipliersRaise
    <3>3. /\ Factor(c, m, entity_context(a, as_of)) \in Nat
          /\ Factor(c, m, entity_context(a, later)) \in Nat
          /\ Factor(c, m, entity_context(a, later)) <= Factor(c, m, entity_context(a, as_of))
      BY <3>2, FactorGrows, Zenon
    <3> QED
      BY <3>1, <3>2, <3>3, Zenon
  <2>8. PICK privileged \in Nat, plain \in Nat :
            /\ privileged = Factor("privileged", MultiplierPrivileged, entity_context(a, as_of))
            /\ plain = Factor("privileged", MultiplierPrivileged, entity_context(a, later))
            /\ plain <= privileged
    <3>1. PICK c : c = "privileged"
      OBVIOUS
    <3>2. PICK m \in Nat : m = MultiplierPrivileged /\ (MultipliersRaise => m >= 100)
      BY RiskAssumption DEF MultipliersRaise
    <3>3. /\ Factor(c, m, entity_context(a, as_of)) \in Nat
          /\ Factor(c, m, entity_context(a, later)) \in Nat
          /\ Factor(c, m, entity_context(a, later)) <= Factor(c, m, entity_context(a, as_of))
      BY <3>2, FactorGrows, Zenon
    <3> QED
      BY <3>1, <3>2, <3>3, Zenon
  <2>9. PICK one \in Nat, uno \in Nat :
            one = Percent(high, departing) /\ uno = Percent(low, left) /\ uno <= one
    <3>1. Percent(high, departing) \in Nat /\ Percent(low, left) \in Nat
      BY PercentIsNatural
    <3>2. low <= high /\ left <= departing
      BY <2>6, <2>7
    <3>3. Percent(low, left) <= Percent(high, departing)
      BY <3>2, PercentGrows
    <3> QED
      BY <3>1, <3>3
  <2>10. Percent(uno, plain) <= Percent(one, privileged)
    BY <2>8, <2>9, PercentGrows
  <2>11. RawRisk(a, S, lower, later) = Percent(uno, plain)
    <3>1. /\ less = Contributions(S, w) /\ small = Bonus(S)
          /\ low = Percent(less, small) /\ uno = Percent(low, left)
          /\ left = Factor("departing", MultiplierDeparting, entity_context(a, later))
          /\ plain = Factor("privileged", MultiplierPrivileged, entity_context(a, later))
      BY <2>4, <2>5, <2>6, <2>7, <2>8, <2>9
    <3> QED
      BY <1>3, <3>1, Zenon DEF RawRisk, Bonus, Factor
  <2>12. RawRisk(a, T, learned, as_of) = Percent(one, privileged)
    <3>1. /\ more = Contributions(T, v) /\ large = Bonus(T)
          /\ high = Percent(more, large) /\ one = Percent(high, departing)
          /\ departing = Factor("departing", MultiplierDeparting, entity_context(a, as_of))
          /\ privileged = Factor("privileged", MultiplierPrivileged, entity_context(a, as_of))
      BY <2>4, <2>5, <2>6, <2>7, <2>8, <2>9
    <3>2. T # {}
      BY <1>3
    <3> QED
      BY <3>1, <3>2, Zenon DEF RawRisk, Bonus, Factor
  <2> QED
    BY <2>10, <2>11, <2>12
<1> QED
  BY <1>2, <1>3

\* The curve ascends.
LEMMA CurveAscends ==
    ASSUME NEW most \in Nat, NEW low \in Nat, NEW high \in Nat, low <= high
    PROVE  (most * low) \div (low + 6000) <= (most * high) \div (high + 6000)
<1>1. PICK a \in Nat, b \in Nat : a = most * low /\ b = low + 6000 /\ b > 0
  <2>1. most * low \in Nat /\ low + 6000 \in Nat /\ low + 6000 > 0
    OBVIOUS
  <2> QED
    BY <2>1
<1>2. PICK c \in Nat, d \in Nat : c = most * high /\ d = high + 6000 /\ d > 0
  <2>1. most * high \in Nat /\ high + 6000 \in Nat /\ high + 6000 > 0
    OBVIOUS
  <2> QED
    BY <2>1
<1>3. a <= c
  BY <1>1, <1>2
<1>4. a * d <= c * b
  <2>1. a * d = a * high + 6000 * a
    BY <1>2
  <2>2. c * b = c * low + 6000 * c
    BY <1>1
  <2>3. a * high = c * low
    BY <1>1, <1>2
  <2> QED
    BY <1>3, <2>1, <2>2, <2>3
<1>5. a \div b <= c \div d
  BY <1>1, <1>2, <1>4, FractionGrows
<1> QED
  BY <1>1, <1>2, <1>5

LEMMA ScoreGrows ==
    ASSUME NEW a, NEW T, IsFiniteSet(T), \A d \in T : WellFormed(d), Tellable(T),
           NEW learned, NEW as_of \in Int, \A d \in T : Weighable(d, learned),
           NEW S \in SUBSET T,
           NEW lower, NEW later \in Int, \A d \in S : Weighable(d, lower),
           \A d \in S : DetectionWeight(d, lower, later) <= DetectionWeight(d, learned, as_of),
           NoMoreContext(a, later, as_of)
    PROVE  score_entity(a, S, lower, later) <= score_entity(a, T, learned, as_of)
<1>1. PICK low \in Nat, high \in Nat :
          /\ low = RawRisk(a, S, lower, later)
          /\ high = RawRisk(a, T, learned, as_of)
          /\ low <= high
  <2>1. RawRisk(a, T, learned, as_of) \in Nat
    BY RawRiskIsNatural
  <2>2. RawRisk(a, S, lower, later) \in Nat
    <3>1. IsFiniteSet(S) /\ \A d \in S : WellFormed(d)
      BY FS_Subset
    <3> QED
      BY <3>1, RawRiskIsNatural
  <2>3. RawRisk(a, S, lower, later) <= RawRisk(a, T, learned, as_of)
    BY RiskGrows
  <2> QED
    BY <2>1, <2>2, <2>3
<1>2. PICK most \in Nat : most = MaxScore
  BY RiskAssumption
<1>3. (most * low) \div (low + 6000) <= (most * high) \div (high + 6000)
  BY <1>1, CurveAscends
<1> QED
  BY <1>1, <1>2, <1>3 DEF score_entity, SATURATION

----------------------------------------------------------------------------
(* The findings a case shows.                                              *)

\* Different names have different places in a list.
Listable(found) ==
    \A d, e \in found : /\ NameOrder[d.name] \in Nat
                        /\ NameOrder[d.name] = NameOrder[e.name] => d.name = e.name

Higher(found, weight) == [d \in found |-> {e \in found : RanksHigher(e, d, weight)}]

LEMMA FindingsAreRanked ==
    ASSUME NEW S, Tellable(S), Listable(S), NEW weight, \A d \in S : weight[d] \in Nat
    PROVE  IsOrder(Higher(S, weight), S)
<1> DEFINE before == Higher(S, weight)
<1>1. \A d \in S : before[d] = {e \in S : RanksHigher(e, d, weight)}
  BY DEF Higher
<1>2. \A d \in S : /\ weight[d] \in Nat /\ d.day \in Int
                   /\ ENGINE_ORDER[d.engine] \in 1..3 /\ NameOrder[d.name] \in Nat
  <2>1. \A engine \in {"rules", "statistical", "ml"} : ENGINE_ORDER[engine] \in 1..3
    BY DEF ENGINE_ORDER
  <2> QED
    BY <2>1 DEF Tellable, Listable
<1>3. \A d, e \in S : ENGINE_ORDER[d.engine] = ENGINE_ORDER[e.engine] => d.engine = e.engine
  <2>1. \A f, g \in {"rules", "statistical", "ml"} : ENGINE_ORDER[f] = ENGINE_ORDER[g] => f = g
    BY DEF ENGINE_ORDER
  <2> QED
    BY <2>1 DEF Tellable
<1>4. before \in [S -> SUBSET S]
  BY DEF Higher
<1>5. \A d \in S : d \notin before[d]
  BY <1>1, <1>2 DEF RanksHigher, ListedBefore
<1>6. ASSUME NEW d \in S, NEW e \in S
      PROVE  d = e \/ d \in before[e] \/ e \in before[d]
  <2>1. d.day = e.day /\ d.engine = e.engine /\ NameOrder[d.name] = NameOrder[e.name] => d = e
    BY DEF Tellable, Listable
  <2>2. d = e \/ ListedBefore(d, e) \/ ListedBefore(e, d)
    BY <1>2, <1>3, <2>1 DEF ListedBefore
  <2>3. d = e \/ RanksHigher(d, e, weight) \/ RanksHigher(e, d, weight)
    BY <1>2, <2>2 DEF RanksHigher
  <2> QED
    BY <1>1, <2>3
<1>7. ASSUME NEW d \in S, NEW e \in S, d \in before[e]
      PROVE  before[d] \subseteq before[e]
  <2>1. RanksHigher(d, e, weight)
    BY <1>1, <1>7
  <2>2. ASSUME NEW c \in S, RanksHigher(c, d, weight)
        PROVE  RanksHigher(c, e, weight)
    <3>1. ListedBefore(c, d) /\ ListedBefore(d, e) => ListedBefore(c, e)
      BY <1>2, <1>3 DEF ListedBefore
    <3> QED
      BY <1>2, <2>1, <2>2, <3>1 DEF RanksHigher
  <2> QED
    BY <1>1, <2>2
<1> HIDE DEF before
<1>8. IsOrder(before, S)
  BY <1>4, <1>5, <1>6, <1>7 DEF IsOrder
<1> QED
  BY <1>8 DEF before

\* Each name has a finding that ranks first among its own, and only one.
LEMMA EveryNameHasItsFirst ==
    ASSUME NEW found, IsFiniteSet(found), Tellable(found), Listable(found),
           NEW weight, \A d \in found : weight[d] \in Nat,
           NEW first, first = FirstOfTheirName(found, weight)
    PROVE  /\ first \subseteq found
           /\ \A d, e \in first : d.name = e.name => d = e
           /\ \A d \in found : \E e \in first : e.name = d.name
<1>1. first \subseteq found
  BY DEF FirstOfTheirName
<1>2. IsOrder(Higher(found, weight), found)
  BY FindingsAreRanked
<1>3. ASSUME NEW d \in first, NEW e \in first, d.name = e.name
      PROVE  d = e
  <2>1. ~RanksHigher(d, e, weight) /\ ~RanksHigher(e, d, weight)
    BY <1>1, <1>3 DEF FirstOfTheirName
  <2>2. d \in found /\ e \in found
    BY <1>1
  <2> QED
    BY <1>2, <2>1, <2>2 DEF IsOrder, Higher
<1>4. ASSUME NEW d \in found
      PROVE  \E e \in first : e.name = d.name
  <2> DEFINE own == Named(d.name, found)
             before == Higher(own, weight)
  <2>1. own \subseteq found /\ d \in own /\ IsFiniteSet(own)
    <3>1. own \subseteq found /\ d \in own
      BY DEF Named
    <3> QED
      BY <3>1, FS_Subset
  <2>2. Tellable(own) /\ Listable(own) /\ \A x \in own : weight[x] \in Nat
    BY <2>1 DEF Tellable, Listable
  <2> HIDE DEF own
  <2>3. IsOrder(before, own)
    BY <2>2, FindingsAreRanked
  <2>4. 0 < Cardinality(own)
    <3>1. Cardinality(own) \in Nat /\ Cardinality(own) # 0
      BY <2>1, FS_CardinalityType, FS_EmptySet
    <3> QED
      BY <3>1
  <2>5. PICK e \in own : Cardinality(before[e]) = 0
    <3> HIDE DEF before
    <3> QED
      BY <2>1, <2>3, <2>4, EveryRankIsTaken
  <2>6. before[e] = {}
    <3>1. before[e] \subseteq own
      BY DEF Higher
    <3>2. IsFiniteSet(before[e])
      BY <2>1, <3>1, FS_Subset
    <3> HIDE DEF before
    <3> QED
      BY <2>5, <3>2, FS_EmptySet
  <2>7. \A x \in own : ~RanksHigher(x, e, weight)
    BY <2>6 DEF Higher
  <2>8. e \in found /\ e.name = d.name
    BY DEF own, Named
  <2>9. \A x \in found : x.name = e.name => ~RanksHigher(x, e, weight)
    BY <2>7, <2>8 DEF own, Named
  <2> QED
    BY <2>8, <2>9 DEF FirstOfTheirName
<1> QED
  BY <1>1, <1>3, <1>4

\* A case shows TopDetections of its names, or all of them if they are fewer.
LEMMA TopNamesAre ==
    ASSUME NEW found, IsFiniteSet(found), Tellable(found), Listable(found),
           NEW weight, \A d \in found : weight[d] \in Nat,
           NEW names, names = {d.name : d \in found},
           NEW top, top = TopNames(found, weight)
    PROVE  /\ top \subseteq names /\ IsFiniteSet(names)
           /\ Cardinality(top) =
                  IF TopDetections <= Cardinality(names) THEN TopDetections ELSE Cardinality(names)
<1>1. PICK first : first = FirstOfTheirName(found, weight)
  OBVIOUS
<1>2. /\ first \subseteq found
      /\ \A d, e \in first : d.name = e.name => d = e
      /\ \A d \in found : \E e \in first : e.name = d.name
  BY <1>1, EveryNameHasItsFirst
<1>3. IsFiniteSet(first) /\ IsOrder(Higher(first, weight), first)
  <2>1. IsFiniteSet(first)
    BY <1>2, FS_Subset
  <2>2. Tellable(first) /\ Listable(first) /\ \A x \in first : weight[x] \in Nat
    BY <1>2 DEF Tellable, Listable
  <2> QED
    BY <2>1, <2>2, FindingsAreRanked
<1>4. PICK chosen : chosen = {x \in first : Cardinality(Higher(first, weight)[x]) < TopDetections}
  OBVIOUS
<1>5. top = {d.name : d \in chosen}
  <2>1. top = {d.name : d \in {x \in first :
                   Cardinality({e \in first : RanksHigher(e, x, weight)}) < TopDetections}}
    BY <1>1 DEF TopNames
  <2>2. \A x \in first : Higher(first, weight)[x] = {e \in first : RanksHigher(e, x, weight)}
    BY DEF Higher
  <2>3. chosen = {x \in first :
                   Cardinality({e \in first : RanksHigher(e, x, weight)}) < TopDetections}
    BY <1>4, <2>2
  <2> QED
    BY <2>1, <2>3
<1>6. /\ IsFiniteSet(chosen)
      /\ Cardinality(chosen) =
             IF TopDetections <= Cardinality(first) THEN TopDetections ELSE Cardinality(first)
  <2>1. TopDetections \in Nat
    BY RiskAssumption
  <2>2. PICK before : before = Higher(first, weight)
    OBVIOUS
  <2>3. IsOrder(before, first) /\ chosen = {x \in first : Cardinality(before[x]) < TopDetections}
    BY <1>3, <1>4, <2>2
  <2> QED
    BY <1>3, <2>1, <2>3, FirstFew
<1>7. ASSUME NEW S \in SUBSET first, IsFiniteSet(S), NEW T, T = {d.name : d \in S}
      PROVE  IsFiniteSet(T) /\ Cardinality(T) = Cardinality(S)
  <2> DEFINE g == [d \in S |-> d.name]
  <2>1. g \in Bijection(S, T)
    <3>1. g \in Injection(S, T)
      BY <1>2, <1>7 DEF Injection, IsInjective
    <3>2. g \in Surjection(S, T)
      BY <1>7 DEF Surjection
    <3> QED
      BY <3>1, <3>2 DEF Bijection
  <2> HIDE DEF g
  <2>2. ExistsBijection(S, T)
    BY <2>1 DEF ExistsBijection
  <2> QED
    BY <1>7, <2>2, FS_Bijection
<1>8. Cardinality(top) = Cardinality(chosen)
  BY <1>4, <1>5, <1>6, <1>7
<1>9. IsFiniteSet(names) /\ Cardinality(names) = Cardinality(first)
  <2>1. names = {d.name : d \in first}
    BY <1>2
  <2> QED
    BY <1>3, <1>7, <2>1
<1>10. top \subseteq names
  BY <1>2, <1>4, <1>5
<1> QED
  BY <1>6, <1>8, <1>9, <1>10

----------------------------------------------------------------------------
(* The queue.                                                              *)

\* Cases of different people, each with a score, are in a strict order.
Ranked(cs) ==
    /\ \A c \in cs : c.risk_score \in Int /\ c.id.actor \in Int
    /\ \A c, k \in cs : c.id.actor = k.id.actor => c = k

\* build_cases cuts the queue to the budget: of the cases that fewer than
\* AlertBudget rank before, the last has all others before it.
WithinBudget(cs) ==
    {c \in cs : Cardinality({k \in cs : RanksBefore(k, c)}) < AlertBudget}

LEMMA BudgetHonoured ==
    ASSUME NEW cs, IsFiniteSet(cs), Ranked(cs)
    PROVE  IsFiniteSet(WithinBudget(cs)) /\ Cardinality(WithinBudget(cs)) <= AlertBudget
<1> DEFINE before(c) == {k \in cs : RanksBefore(k, c)}
           kept == WithinBudget(cs)
           after(c) == {k \in kept : RanksBefore(c, k)}
           afters == {after(c) : c \in kept}
<1>1. PICK budget \in Nat : budget = AlertBudget /\ budget > 0
  BY RiskAssumption
<1>2. IsFiniteSet(kept) /\ kept \subseteq cs
  BY FS_Subset DEF WithinBudget
<1>3. CASE kept = {}
  <2>1. Cardinality(kept) = 0
    BY <1>3, FS_EmptySet
  <2> QED
    BY <1>1, <1>2, <2>1
<1>4. CASE kept # {}
  <2>1. afters # {} /\ \A s \in afters : IsFiniteSet(s)
    <3> HIDE DEF kept
    <3>1. \A c : IsFiniteSet(after(c))
      BY <1>2, FS_Subset
    <3> QED
      BY <1>4, <3>1
  <2>2. PICK s \in afters : \A t \in afters : t \subseteq s => t = s
    <3> HIDE DEF afters
    <3> QED
      BY <2>1, SmallestSetExists
  <2>3. PICK m \in kept : s = after(m)
    OBVIOUS
  <2>4. ASSUME NEW k \in kept, k # m
        PROVE  RanksBefore(k, m)
    <3>1. m \in cs /\ k \in cs
      BY <1>2
    <3>2. m.id.actor # k.id.actor
      BY <2>4, <3>1 DEF Ranked
    <3>3. RanksBefore(k, m) \/ RanksBefore(m, k)
      BY <3>1, <3>2 DEF Ranked, RanksBefore
    <3>4. ASSUME RanksBefore(m, k)
          PROVE  FALSE
      <4>1. \A x \in kept : RanksBefore(k, x) => RanksBefore(m, x)
        <5> HIDE DEF kept
        <5>1. ASSUME NEW x \in kept, RanksBefore(k, x)
              PROVE  RanksBefore(m, x)
          <6>1. x \in cs
            BY <1>2
          <6> QED
            BY <3>1, <3>4, <5>1, <6>1 DEF Ranked, RanksBefore
        <5> QED
          BY <5>1
      <4>2. after(k) \subseteq after(m) /\ after(k) \in afters
        BY <4>1
      <4>3. k \in after(m)
        BY <3>4
      <4>4. k \notin after(k)
        BY <3>1 DEF Ranked, RanksBefore
      <4> QED
        BY <2>2, <2>3, <4>2, <4>3, <4>4
    <3> QED
      BY <3>3, <3>4
  <2>5. kept \subseteq before(m) \cup {m}
    BY <1>2, <2>4
  <2>6. IsFiniteSet(before(m)) /\ Cardinality(before(m)) < budget
    <3>1. IsFiniteSet(before(m))
      BY FS_Subset
    <3> QED
      BY <1>1, <3>1 DEF WithinBudget
  <2> HIDE DEF before, kept
  <2>7. Cardinality(before(m)) \in Nat
    BY <2>6, FS_CardinalityType
  <2>8. /\ IsFiniteSet(before(m) \cup {m})
        /\ Cardinality(before(m) \cup {m}) <= Cardinality(before(m)) + 1
        /\ Cardinality(before(m) \cup {m}) \in Nat
    <3>1. PICK others : others = before(m)
      OBVIOUS
    <3>2. /\ IsFiniteSet(others \cup {m})
          /\ Cardinality(others \cup {m}) \in {Cardinality(others), Cardinality(others) + 1}
      BY <2>6, <3>1, FS_AddElement
    <3> QED
      BY <2>7, <3>1, <3>2
  <2>9. Cardinality(kept) \in Nat /\ Cardinality(kept) <= Cardinality(before(m) \cup {m})
    BY <1>2, <2>5, <2>8, FS_Subset, FS_CardinalityType
  <2>10. Cardinality(kept) <= AlertBudget
    BY <1>1, <2>6, <2>7, <2>8, <2>9
  <2> QED
    BY <1>2, <2>10 DEF kept
<1> QED
  BY <1>3, <1>4

\* What is asked of the findings that a queue is made from.
Scorable(found, learned) ==
    /\ IsFiniteSet(found)
    /\ \A d \in found : WellFormed(d) /\ Weighable(d, learned) /\ d.actor \in Actor

Own(a, found) == {d \in found : d.actor = a}

\* Before the cut, the cases are those of some people with findings.
LEMMA UncutCases ==
    ASSUME NEW found, NEW learned, NEW as_of \in Int, Scorable(found, learned)
    PROVE  /\ IsFiniteSet(UncutQueue(found, learned, as_of))
           /\ \A c \in UncutQueue(found, learned, as_of) : \E a \in {d.actor : d \in found} :
                  /\ c = MakeCase(a, Own(a, found), learned, as_of)
                  /\ c.id.actor = a /\ a \in Int
                  /\ c.risk_score \in CaseThreshold..MaxScore
<1> DEFINE made(a) == MakeCase(a, Own(a, found), learned, as_of)
           actors == {d.actor : d \in found}
           uncut == UncutQueue(found, learned, as_of)
<1>1. uncut = {c \in {made(a) : a \in actors} : c.risk_score >= CaseThreshold}
  BY DEF UncutQueue, Own
<1>2. ASSUME NEW a \in actors
      PROVE  /\ made(a).id.actor = a /\ a \in Int
             /\ made(a).risk_score \in 0..MaxScore
  <2>1. made(a).id.actor = a /\ made(a).risk_score = score_entity(a, Own(a, found), learned, as_of)
    BY DEF MakeCase
  <2>2. /\ IsFiniteSet(Own(a, found))
        /\ \A d \in Own(a, found) : WellFormed(d) /\ Weighable(d, learned)
    BY FS_Subset DEF Scorable, Own
  <2>3. score_entity(a, Own(a, found), learned, as_of) \in 0..MaxScore
    BY <2>2, ScoreInRange
  <2>4. a \in Int
    <3>1. a \in Actor
      BY DEF Scorable
    <3> QED
      BY <3>1, RiskAssumption
  <2> QED
    BY <2>1, <2>3, <2>4
<1> HIDE DEF made
<1>3. IsFiniteSet(actors)
  <2> DEFINE g == [d \in found |-> d.actor]
  <2>1. actors = {g[d] : d \in found}
    OBVIOUS
  <2> HIDE DEF g, actors
  <2> QED
    BY <2>1, ImageIsFinite DEF Scorable
<1>4. IsFiniteSet(uncut)
  <2> DEFINE all == {made(a) : a \in actors}
             g == [a \in actors |-> made(a)]
  <2>1. all = {g[a] : a \in actors}
    OBVIOUS
  <2>2. IsFiniteSet(all)
    <3> HIDE DEF g, all, actors
    <3> QED
      BY <1>3, <2>1, ImageIsFinite
  <2>3. uncut \subseteq all
    BY <1>1
  <2> HIDE DEF all, uncut
  <2> QED
    BY <2>2, <2>3, FS_Subset
<1>5. \A c \in uncut : \E a \in actors :
          c = made(a) /\ c.id.actor = a /\ a \in Int /\ c.risk_score \in CaseThreshold..MaxScore
  <2> HIDE DEF actors
  <2> QED
    BY <1>1, <1>2, RiskAssumption
<1> QED
  BY <1>4, <1>5 DEF made, actors, uncut

\* A queue is the cases of some people with findings, no more than the budget,
\* each with a score between the threshold and the highest.
LEMMA QueueOfCases ==
    ASSUME NEW found, NEW learned, NEW as_of \in Int, Scorable(found, learned)
    PROVE  LET queue == BuildCases(found, learned, as_of)
               chosen == {c.id.actor : c \in queue}
           IN  /\ chosen \subseteq {d.actor : d \in found}
               /\ Cardinality(chosen) <= AlertBudget
               /\ queue = {MakeCase(a, {d \in found : d.actor = a}, learned, as_of) :
                              a \in chosen}
               /\ \A c \in queue : c.risk_score \in CaseThreshold..MaxScore
<1> DEFINE made(a) == MakeCase(a, Own(a, found), learned, as_of)
           actors == {d.actor : d \in found}
           uncut == UncutQueue(found, learned, as_of)
           queue == BuildCases(found, learned, as_of)
           chosen == {c.id.actor : c \in queue}
<1>1. /\ IsFiniteSet(uncut)
      /\ \A c \in uncut : \E a \in actors :
             c = made(a) /\ c.id.actor = a /\ a \in Int /\ c.risk_score \in CaseThreshold..MaxScore
  BY UncutCases
<1> HIDE DEF made
<1>2. Ranked(uncut)
  <2>1. CaseThreshold \in Nat /\ MaxScore \in Nat
    BY RiskAssumption
  <2> HIDE DEF actors, uncut
  <2> QED
    BY <1>1, <2>1 DEF Ranked
<1>3. queue = WithinBudget(uncut)
  BY DEF BuildCases, WithinBudget
<1>4. IsFiniteSet(queue) /\ Cardinality(queue) <= AlertBudget /\ queue \subseteq uncut
  <2>1. WithinBudget(uncut) \subseteq uncut
    BY DEF WithinBudget
  <2> HIDE DEF uncut, queue
  <2> QED
    BY <1>1, <1>2, <1>3, <2>1, BudgetHonoured
<1> HIDE DEF uncut, queue, actors
<1>5. chosen \subseteq actors /\ queue = {made(a) : a \in chosen}
  BY <1>1, <1>4
<1>6. Cardinality(chosen) <= AlertBudget
  <2> DEFINE g == [c \in queue |-> c.id.actor]
  <2>1. g \in Surjection(queue, chosen)
    BY DEF Surjection
  <2> HIDE DEF g, chosen
  <2>2. IsFiniteSet(chosen) /\ Cardinality(chosen) <= Cardinality(queue)
    BY <1>4, <2>1, FS_Surjection
  <2>3. Cardinality(chosen) \in Nat /\ Cardinality(queue) \in Nat /\ AlertBudget \in Nat
    BY <1>4, <2>2, FS_CardinalityType, RiskAssumption
  <2> QED
    BY <1>4, <2>2, <2>3
<1>7. \A c \in queue : c.risk_score \in CaseThreshold..MaxScore
  BY <1>1, <1>4
<1> QED
  BY <1>5, <1>6, <1>7 DEF queue, actors, made, Own

\* Everybody's own findings can be told apart.
OwnTellable(found) == \A a : Tellable(Own(a, found))

\* A person whose findings are all kept keeps the case, although others have lost
\* theirs: these may fall behind, but nobody gets ahead.
LEMMA CaseStays ==
    ASSUME NEW found, NEW learned, NEW as_of \in Int,
           Scorable(found, learned), OwnTellable(found),
           NEW kept \in SUBSET found,
           NEW c \in BuildCases(found, learned, as_of),
           Own(c.id.actor, kept) = Own(c.id.actor, found)
    PROVE  c \in BuildCases(kept, learned, as_of)
<1> DEFINE all == UncutQueue(found, learned, as_of)
           left == UncutQueue(kept, learned, as_of)
           ahead == {k \in all : RanksBefore(k, c)}
           still == {k \in left : RanksBefore(k, c)}
           whole(a) == MakeCase(a, Own(a, found), learned, as_of)
           part(a) == MakeCase(a, Own(a, kept), learned, as_of)
           g == [k \in still |-> whole(k.id.actor)]
<1>1. c \in all /\ Cardinality(ahead) < AlertBudget
  BY DEF BuildCases
<1>2. Scorable(kept, learned)
  BY FS_Subset DEF Scorable
<1>3. /\ IsFiniteSet(all)
      /\ \A k \in all : \E a \in {d.actor : d \in found} :
             k = whole(a) /\ k.id.actor = a /\ a \in Int /\ k.risk_score \in CaseThreshold..MaxScore
  BY UncutCases
<1>4. /\ IsFiniteSet(left)
      /\ \A k \in left : \E a \in {d.actor : d \in kept} :
             k = part(a) /\ k.id.actor = a /\ a \in Int /\ k.risk_score \in CaseThreshold..MaxScore
  BY <1>2, UncutCases
<1>5. CaseThreshold \in Nat /\ MaxScore \in Nat /\ AlertBudget \in Nat
  BY RiskAssumption
<1>6. c \in left
  <2>1. PICK a \in {d.actor : d \in found} : c = whole(a) /\ c.id.actor = a
    BY <1>1, <1>3
  <2>2. Own(a, kept) = Own(a, found)
    BY <2>1
  <2>3. PICK d \in found : d.actor = a
    BY <2>1
  <2>4. d \in kept
    BY <2>2, <2>3 DEF Own
  <2>5. c = part(a) /\ a \in {x.actor : x \in kept}
    BY <2>1, <2>2, <2>3, <2>4
  <2>6. c.risk_score >= CaseThreshold
    BY <1>1 DEF UncutQueue
  <2> QED
    BY <2>5, <2>6 DEF UncutQueue, Own
<1>7. ASSUME NEW k \in still
      PROVE  g[k] \in ahead /\ g[k].id.actor = k.id.actor /\ k = part(k.id.actor)
  <2>1. PICK a \in {d.actor : d \in kept} :
            k = part(a) /\ k.id.actor = a /\ a \in Int /\ k.risk_score \in CaseThreshold..MaxScore
    BY <1>4
  <2>2. PICK m : m = whole(a)
    OBVIOUS
  <2>3. /\ m.id.actor = a
        /\ m.risk_score = score_entity(a, Own(a, found), learned, as_of)
        /\ k.risk_score = score_entity(a, Own(a, kept), learned, as_of)
    BY <2>1, <2>2 DEF MakeCase
  <2>4. /\ IsFiniteSet(Own(a, found)) /\ Tellable(Own(a, found))
        /\ \A d \in Own(a, found) : WellFormed(d) /\ Weighable(d, learned)
        /\ Own(a, kept) \in SUBSET Own(a, found)
    BY FS_Subset DEF Scorable, OwnTellable, Own
  <2>5. m.risk_score \in 0..MaxScore
    BY <2>3, <2>4, ScoreInRange
  <2>6. k.risk_score <= m.risk_score
    <3>1. PICK some \in SUBSET Own(a, found) : some = Own(a, kept)
      BY <2>4
    <3>2. NoMoreContext(a, as_of, as_of)
      BY DEF NoMoreContext
    <3>3. /\ \A d \in some : Weighable(d, learned)
          /\ \A d \in some : DetectionWeight(d, learned, as_of) <= DetectionWeight(d, learned, as_of)
      BY <2>4, WeightIsNatural
    <3>4. score_entity(a, some, learned, as_of) <= score_entity(a, Own(a, found), learned, as_of)
      BY <2>4, <3>2, <3>3, ScoreGrows
    <3> QED
      BY <2>3, <3>1, <3>4
  <2>7. m \in all
    <3>1. a \in {d.actor : d \in found}
      BY <2>1
    <3>2. m.risk_score >= CaseThreshold
      BY <1>5, <2>1, <2>5, <2>6
    <3> QED
      BY <2>2, <3>1, <3>2 DEF UncutQueue, Own
  <2>8. RanksBefore(m, c)
    <3>1. c.risk_score \in Int
      BY <1>1, <1>3
    <3>2. k.risk_score \in Int /\ m.risk_score \in Int
      BY <1>5, <2>1, <2>5
    <3>3. RanksBefore(k, c)
      OBVIOUS
    <3> QED
      BY <2>1, <2>3, <2>6, <3>1, <3>2, <3>3 DEF RanksBefore
  <2> QED
    BY <2>1, <2>2, <2>3, <2>7, <2>8
<1>8. g \in Injection(still, ahead)
  <2>1. g \in [still -> ahead]
    BY <1>7
  <2>2. ASSUME NEW j \in still, NEW k \in still, g[j] = g[k]
        PROVE  j = k
    BY <1>7, <2>2
  <2> HIDE DEF g, still, ahead
  <2> QED
    BY <2>1, <2>2 DEF Injection, IsInjective
<1>9. IsFiniteSet(ahead) /\ ahead \subseteq all
  <2> HIDE DEF all
  <2> QED
    BY <1>3, FS_Subset
<1> HIDE DEF all, left, ahead, still, g, whole, part
<1>10. IsFiniteSet(still) /\ Cardinality(still) <= Cardinality(ahead)
  BY <1>8, <1>9, FS_Injection
<1>11. Cardinality(still) \in Nat /\ Cardinality(ahead) \in Nat
  BY <1>9, <1>10, FS_CardinalityType
<1>12. Cardinality(still) < AlertBudget
  BY <1>1, <1>5, <1>10, <1>11
<1> QED
  BY <1>6, <1>12 DEF BuildCases, left, still

----------------------------------------------------------------------------
(* Feedback: weights between half and one and a half of what they would be *)
(* leave the risk between half and one and a half of what it would be.     *)

\* The bound of a number times a factor, in hundredths.
LEMMA ProductBound ==
    ASSUME NEW x \in Nat, NEW y \in Nat, NEW s \in Nat, NEW f \in Nat, NEW m \in Nat, f <= m,
           HalfToOneAndAHalf(x, y, s)
    PROVE  HalfToOneAndAHalf(Percent(x, f), Percent(y, f), Percent(s, m) + 3)
<1>1. PICK xf \in Nat, yf \in Nat, sf \in Nat, sm \in Nat :
          xf = x * f /\ yf = y * f /\ sf = s * f /\ sm = s * m
  OBVIOUS
<1>2. sf <= sm
  <2>1. s * f <= s * m
    OBVIOUS
  <2> QED
    BY <1>1, <2>1
<1>3. yf <= 2 * xf + sf
  <2>1. y * f <= (2 * x + s) * f
    BY DEF HalfToOneAndAHalf
  <2>2. (2 * x + s) * f = 2 * (x * f) + s * f
    OBVIOUS
  <2> QED
    BY <1>1, <2>1, <2>2
<1>4. 2 * xf <= 3 * yf + sf
  <2>1. (2 * x) * f <= (3 * y + s) * f
    BY DEF HalfToOneAndAHalf
  <2>2. (3 * y + s) * f = 3 * (y * f) + s * f /\ (2 * x) * f = 2 * (x * f)
    OBVIOUS
  <2> QED
    BY <1>1, <2>1, <2>2
<1>5. /\ yf \div 100 <= 2 * (xf \div 100) + (sm \div 100) + 3
      /\ 2 * (xf \div 100) <= 3 * (yf \div 100) + (sm \div 100) + 3
  BY <1>2, <1>3, <1>4
<1>6. Percent(x, f) = xf \div 100 /\ Percent(y, f) = yf \div 100 /\ Percent(s, m) = sm \div 100
  BY <1>1 DEF Percent
<1>7. xf \div 100 \in Nat /\ yf \div 100 \in Nat /\ sm \div 100 \in Nat
  OBVIOUS
<1> QED
  BY <1>5, <1>6, <1>7 DEF HalfToOneAndAHalf

LEMMA SlackCarries ==
    ASSUME NEW x \in Nat, NEW y \in Nat, NEW s \in Nat, HalfToOneAndAHalf(x, y, s),
           NEW multiplier \in Nat, NEW f \in {100, multiplier}
    PROVE  /\ Carried(s, multiplier) \in Nat
           /\ HalfToOneAndAHalf(Percent(x, f), Percent(y, f), Carried(s, multiplier))
<1>1. PICK m \in Nat : m = Max({100, multiplier}) /\ m >= f
  BY MaxOfTwo
<1>2. f \in Nat
  OBVIOUS
<1>3. HalfToOneAndAHalf(Percent(x, f), Percent(y, f), Percent(s, m) + 3)
  BY <1>1, <1>2, ProductBound
<1>4. Carried(s, multiplier) = Percent(s, m) + 3
  BY <1>1 DEF Carried
<1>5. Percent(s, m) \in Nat
  BY PercentIsNatural
<1> QED
  BY <1>3, <1>4, <1>5

LEMMA CarriedIsNatural ==
    ASSUME NEW s \in Nat, NEW multiplier \in Nat
    PROVE  Carried(s, multiplier) \in Nat
<1>1. PICK m \in Nat : m = Max({100, multiplier})
  BY MaxOfTwo
<1>2. Percent(s, m) \in Nat
  BY PercentIsNatural
<1> QED
  BY <1>1, <1>2 DEF Carried

LEMMA SlackIsNatural == SlackOfWeight \in Nat
<1>1. MultiplierRestrictedData \in Nat /\ MultiplierOffHours \in Nat
  BY RiskAssumption
<1>2. PICK slack \in Nat : slack = Carried(1, MultiplierRestrictedData)
  BY <1>1, CarriedIsNatural
<1>3. Carried(slack, MultiplierOffHours) \in Nat
  BY <1>1, CarriedIsNatural
<1> QED
  BY <1>2, <1>3 DEF SlackOfWeight

\* Beside the weight without verdicts.
LEMMA WeightAdjusts ==
    ASSUME NEW d, NEW learned, NEW as_of \in Int,
           Weighable(d, learned), learned[d.name] \in 50..150,
           NEW unlearned, unlearned[d.name] = 100
    PROVE  /\ DetectionWeight(d, learned, as_of) \in Nat
           /\ DetectionWeight(d, unlearned, as_of) \in Nat
           /\ HalfToOneAndAHalf(DetectionWeight(d, learned, as_of),
                                DetectionWeight(d, unlearned, as_of), SlackOfWeight)
<1>1. PICK full \in Nat : full = d.base_weight * d.confidence
  BY DEF Weighable
<1>2. PICK factor \in Nat : factor = decay_factor(DayOf(as_of) - d.day)
  <2>1. PICK age \in Int : age = DayOf(as_of) - d.day
    BY DayIsNumber DEF Weighable
  <2> QED
    BY <2>1, DecayInHundredths
<1>3. PICK aged \in Nat : aged = Percent(full, factor)
  BY PercentIsNatural
<1>4. PICK m \in Nat, k \in Nat : m = MultiplierRestrictedData /\ k = MultiplierOffHours
  BY RiskAssumption
<1>5. PICK restricted \in {100, m} :
          restricted = IF "restricted_data" \in d.context THEN MultiplierRestrictedData ELSE 100
  BY <1>4
<1>6. PICK off_hours \in {100, k} :
          off_hours = IF "off_hours" \in d.context THEN MultiplierOffHours ELSE 100
  BY <1>4
<1>7. PICK weight \in 50..150 : weight = learned[d.name]
  OBVIOUS
<1>8. PICK one \in Nat, uno \in Nat :
          one = Percent(aged, weight) /\ uno = Percent(aged, 100) /\ HalfToOneAndAHalf(one, uno, 1)
  <2>1. PICK product \in Nat : product = aged * weight
    OBVIOUS
  <2>2. 50 * aged <= product /\ product <= 150 * aged
    <3>1. aged * 50 <= aged * weight /\ aged * weight <= aged * 150
      OBVIOUS
    <3> QED
      BY <2>1, <3>1
  <2>3. Percent(aged, weight) = product \div 100 /\ Percent(aged, 100) = aged
    BY <2>1 DEF Percent
  <2>4. aged <= 2 * (product \div 100) + 1 /\ 2 * (product \div 100) <= 3 * aged + 1
    BY <2>2
  <2>5. product \div 100 \in Nat
    OBVIOUS
  <2> QED
    BY <2>3, <2>4, <2>5 DEF HalfToOneAndAHalf
<1>9. PICK two \in Nat, due \in Nat, slack \in Nat :
          /\ two = Percent(one, restricted) /\ due = Percent(uno, restricted)
          /\ slack = Carried(1, m) /\ HalfToOneAndAHalf(two, due, slack)
  <2>1. restricted \in Nat
    BY <1>5
  <2>2. Percent(one, restricted) \in Nat /\ Percent(uno, restricted) \in Nat
    BY <2>1, PercentIsNatural
  <2>3. Carried(1, m) \in Nat
        /\ HalfToOneAndAHalf(Percent(one, restricted), Percent(uno, restricted), Carried(1, m))
    BY <1>8, SlackCarries
  <2> QED
    BY <2>2, <2>3
<1>10. /\ Percent(two, off_hours) \in Nat /\ Percent(due, off_hours) \in Nat
       /\ Carried(slack, k) \in Nat
       /\ HalfToOneAndAHalf(Percent(two, off_hours), Percent(due, off_hours), Carried(slack, k))
  <2>1. off_hours \in Nat
    BY <1>6
  <2>2. Percent(two, off_hours) \in Nat /\ Percent(due, off_hours) \in Nat
    BY <2>1, PercentIsNatural
  <2>3. Carried(slack, k) \in Nat
        /\ HalfToOneAndAHalf(Percent(two, off_hours), Percent(due, off_hours), Carried(slack, k))
    BY <1>9, SlackCarries
  <2> QED
    BY <2>2, <2>3
<1>11. DetectionWeight(d, learned, as_of) = Percent(two, off_hours)
  <2>1. aged = Percent(full, factor) /\ one = Percent(aged, weight) /\ two = Percent(one, restricted)
    BY <1>3, <1>8, <1>9
  <2> QED
    BY <1>1, <1>2, <1>5, <1>6, <1>7, <2>1 DEF DetectionWeight
<1>12. DetectionWeight(d, unlearned, as_of) = Percent(due, off_hours)
  <2>1. aged = Percent(full, factor) /\ uno = Percent(aged, 100) /\ due = Percent(uno, restricted)
    BY <1>3, <1>8, <1>9
  <2> QED
    BY <1>1, <1>2, <1>5, <1>6, <2>1 DEF DetectionWeight
<1>13. SlackOfWeight = Carried(slack, k)
  BY <1>4, <1>9 DEF SlackOfWeight
<1> QED
  BY <1>10, <1>11, <1>12, <1>13

\* A sum of weights that are all multiplied and raised alike is about as large as
\* the sum multiplied and raised: the repeats keep their order.
LEMMA ContributionsScale ==
    ASSUME NEW found, IsFiniteSet(found), NEW weight, \A d \in found : weight[d] \in Nat,
           NEW b \in 1..3, NEW s \in Nat,
           NEW raised, \A d \in found : raised[d] = b * weight[d] + s
    PROVE  /\ b * Contributions(found, weight) <= Contributions(found, raised)
           /\ Contributions(found, raised)
                  <= b * Contributions(found, weight) + (s + 3) * Cardinality(found)
<1> DEFINE low == [d \in found |-> Share(d, found, weight)]
           high == [d \in found |-> Share(d, found, raised)]
<1>1. ASSUME NEW d \in found
      PROVE  Repeat(d, found, raised) = Repeat(d, found, weight)
  <2>1. ASSUME NEW e \in found
        PROVE  CountsBefore(e, d, raised) <=> CountsBefore(e, d, weight)
    <3>1. PICK x \in Nat, y \in Nat : x = weight[e] /\ y = weight[d]
      OBVIOUS
    <3>2. PICK u \in Nat, v \in Nat : u = raised[e] /\ v = raised[d] /\ u = b * x + s /\ v = b * y + s
      BY <3>1
    <3>3. (u > v <=> x > y) /\ (u = v <=> x = y)
      <4>1. (x > y => b * x > b * y) /\ (y > x => b * y > b * x)
        <5>1. b = 1 \/ b = 2 \/ b = 3
          OBVIOUS
        <5> QED
          BY <5>1
      <4>2. b * x \in Nat /\ b * y \in Nat
        OBVIOUS
      <4> QED
        BY <3>2, <4>1, <4>2
    <3> QED
      BY <3>1, <3>2, <3>3 DEF CountsBefore
  <2>2. CountedBefore(d, found, raised) = CountedBefore(d, found, weight)
    BY <2>1 DEF CountedBefore
  <2> QED
    BY <2>2 DEF Repeat, CountedBefore
<1>2. ASSUME NEW d \in found
      PROVE  /\ low[d] \in Nat /\ high[d] \in Nat
             /\ b * low[d] <= 1 * high[d] + 0
             /\ 1 * high[d] <= b * low[d] + (s + 3)
  <2>1. PICK divisor \in Nat : divisor = RepeatDivisor[Repeat(d, found, weight)] /\ divisor > 0
    BY RepeatIsNatural, DivisorIsPositive
  <2>2. PICK x \in Nat, y \in Nat : x = weight[d] /\ y = raised[d] /\ y = b * x + s
    <3>1. weight[d] \in Nat /\ raised[d] = b * weight[d] + s /\ b * weight[d] + s \in Nat
      OBVIOUS
    <3> QED
      BY <3>1
  <2>3. PICK k \in Nat, i \in Nat : k = x \div divisor /\ x = divisor * k + i /\ i < divisor
    BY <2>1, QuotientIs
  <2>4. PICK l \in Nat, j \in Nat : l = y \div divisor /\ y = divisor * l + j /\ j < divisor
    BY <2>1, QuotientIs
  <2>5. divisor * l + j = divisor * (b * k) + b * i + s
    <3>1. b * (divisor * k + i) = divisor * (b * k) + b * i
      BY b = 1 \/ b = 2 \/ b = 3
    <3> QED
      BY <2>2, <2>3, <2>4, <3>1
  <2>6. PICK most \in Nat : most = b * k
    OBVIOUS
  <2>7. b * i < 3 * divisor /\ b * i \in Nat
    BY <2>3, b = 1 \/ b = 2 \/ b = 3
  <2>8. most <= l
    <3>1. ASSUME l + 1 <= most
          PROVE  FALSE
      <4>1. divisor * (l + 1) <= divisor * most
        BY <3>1
      <4>2. divisor * (l + 1) = divisor * l + divisor
        OBVIOUS
      <4>3. divisor * l \in Nat /\ divisor * most \in Nat
        OBVIOUS
      <4> QED
        BY <2>4, <2>5, <2>6, <2>7, <4>1, <4>2, <4>3
    <3> QED
      BY <3>1
  <2>9. l <= most + (s + 3)
    <3>1. ASSUME most + s + 3 <= l
          PROVE  FALSE
      <4>1. divisor * (most + s + 3) <= divisor * l
        BY <3>1
      <4>2. divisor * (most + s + 3) = divisor * most + divisor * s + 3 * divisor
        OBVIOUS
      <4>3. s <= divisor * s
        BY <2>1
      <4>4. divisor * l \in Nat /\ divisor * most \in Nat /\ divisor * s \in Nat
        OBVIOUS
      <4> QED
        BY <2>4, <2>5, <2>6, <2>7, <4>1, <4>2, <4>3, <4>4
    <3> QED
      BY <3>1
  <2>10. low[d] = k /\ high[d] = l
    BY <1>1, <2>1, <2>2, <2>3, <2>4 DEF Share
  <2> QED
    BY <2>6, <2>8, <2>9, <2>10
<1>3. /\ Contributions(found, weight) = SumOver(low, found)
      /\ Contributions(found, raised) = SumOver(high, found)
  BY ContributionsAreShares
<1> HIDE DEF low, high
<1>4. b \in Nat /\ s + 3 \in Nat
  OBVIOUS
<1>5. PICK sum \in Nat, other \in Nat, n \in Nat :
          sum = SumOver(low, found) /\ other = SumOver(high, found) /\ n = Cardinality(found)
  <2>1. SumOver(low, found) \in Nat /\ SumOver(high, found) \in Nat /\ Cardinality(found) \in Nat
    BY <1>2, SumIsNatural, FS_CardinalityType
  <2> QED
    BY <2>1
<1>6. b * sum <= 1 * other + 0 * n
  BY <1>2, <1>4, <1>5, SumsScale
<1>7. 1 * other <= b * sum + (s + 3) * n
  BY <1>2, <1>4, <1>5, SumsScale
<1>8. 0 * n = 0 /\ 1 * other = other /\ other + 0 = other
  OBVIOUS
<1>9. b * sum <= other
  BY <1>6, <1>8
<1>10. other <= b * sum + (s + 3) * n
  BY <1>7, <1>8
<1> QED
  BY <1>3, <1>5, <1>9, <1>10

\* Weights within the bound of others, one by one, sum to within the bound of the
\* other sum, although other repeats may count first.
LEMMA ContributionsAdjust ==
    ASSUME NEW found, IsFiniteSet(found), Tellable(found), NEW s \in Nat,
           NEW w, NEW v,
           \A d \in found : w[d] \in Nat /\ v[d] \in Nat /\ HalfToOneAndAHalf(w[d], v[d], s)
    PROVE  HalfToOneAndAHalf(Contributions(found, w), Contributions(found, v),
                             Cardinality(found) * (s + 3))
<1> DEFINE same == [d \in found |-> d]
           wTwice == [d \in found |-> 2 * w[d] + 0]
           wMore == [d \in found |-> 2 * w[d] + s]
           vMore == [d \in found |-> 3 * v[d] + s]
<1>1. \A d \in found : wTwice[d] \in Nat /\ wMore[d] \in Nat /\ vMore[d] \in Nat
  OBVIOUS
<1>2. \A d \in found : v[d] <= wMore[d] /\ wTwice[d] <= vMore[d]
  BY DEF HalfToOneAndAHalf
<1>3. /\ \A d \in found : same[d] \in found /\ same[d].name = d.name /\ v[d] <= wMore[same[d]]
                          /\ wTwice[d] <= vMore[same[d]]
      /\ \A d, e \in found : same[d] = same[e] => d = e
  BY <1>2
<1>4. /\ \A d \in found : wTwice[d] = 2 * w[d] + 0
      /\ \A d \in found : wMore[d] = 2 * w[d] + s
      /\ \A d \in found : vMore[d] = 3 * v[d] + s
  OBVIOUS
<1> HIDE DEF same, wTwice, wMore, vMore
<1>5. Contributions(found, v) <= Contributions(found, wMore)
  BY <1>1, <1>3, ContributionsGrow
<1>6. Contributions(found, wTwice) <= Contributions(found, vMore)
  BY <1>1, <1>3, ContributionsGrow
<1>7. 2 \in 1..3 /\ 3 \in 1..3 /\ 0 \in Nat
  OBVIOUS
<1>8. Contributions(found, wMore) <= 2 * Contributions(found, w) + (s + 3) * Cardinality(found)
  BY <1>4, <1>7, ContributionsScale
<1>9. 2 * Contributions(found, w) <= Contributions(found, wTwice)
  BY <1>4, <1>7, ContributionsScale
<1>10. Contributions(found, vMore) <= 3 * Contributions(found, v) + (s + 3) * Cardinality(found)
  BY <1>4, <1>7, ContributionsScale
<1>11. /\ Contributions(found, v) \in Nat /\ Contributions(found, w) \in Nat
       /\ Contributions(found, wTwice) \in Nat /\ Contributions(found, wMore) \in Nat
       /\ Contributions(found, vMore) \in Nat
  BY <1>1, ContributionsAreNatural
<1>12. PICK n \in Nat : n = Cardinality(found)
  BY FS_CardinalityType
<1>13. (s + 3) * n = n * (s + 3) /\ n * (s + 3) \in Nat
  OBVIOUS
<1>14. Contributions(found, v) <= 2 * Contributions(found, w) + n * (s + 3)
  BY <1>5, <1>8, <1>11, <1>12, <1>13
<1>15. 2 * Contributions(found, w) <= 3 * Contributions(found, v) + n * (s + 3)
  BY <1>6, <1>9, <1>10, <1>11, <1>12, <1>13
<1> QED
  BY <1>12, <1>14, <1>15 DEF HalfToOneAndAHalf

LEMMA BonusCarries ==
    ASSUME NEW x \in Nat, NEW y \in Nat, NEW s \in Nat, HalfToOneAndAHalf(x, y, s),
           NEW bonus \in {100, 110, 125}
    PROVE  /\ Percent(x, bonus) \in Nat /\ Percent(y, bonus) \in Nat /\ Carried(s, 125) \in Nat
           /\ HalfToOneAndAHalf(Percent(x, bonus), Percent(y, bonus), Carried(s, 125))
<1>1. PICK multiplier \in Nat : multiplier = 125
  OBVIOUS
<1>2. PICK m \in Nat : m = Max({100, multiplier}) /\ m \in {100, multiplier} /\ m >= multiplier
  <2>1. 100 \in Int /\ multiplier \in Int
    OBVIOUS
  <2>2. /\ Max({100, multiplier}) \in {100, multiplier}
        /\ Max({100, multiplier}) >= multiplier
    BY <2>1, MaxOfTwo
  <2>3. Max({100, multiplier}) \in Nat
    BY <2>2
  <2> QED
    BY <2>2, <2>3
<1>3. m = 125 /\ m \in Nat
  BY <1>1, <1>2
<1>4. bonus \in Nat /\ bonus <= m
  BY <1>3
<1>5. Percent(x, bonus) \in Nat /\ Percent(y, bonus) \in Nat
  BY <1>4, PercentIsNatural
<1>6. HalfToOneAndAHalf(Percent(x, bonus), Percent(y, bonus), Percent(s, m) + 3)
  BY <1>3, <1>4, ProductBound
<1>7. Carried(s, 125) = Percent(s, m) + 3
  BY <1>1, <1>2 DEF Carried
<1>8. Percent(s, m) \in Nat
  BY PercentIsNatural
<1>9. Percent(s, m) + 3 \in Nat
  BY <1>8
<1> QED
  BY <1>5, <1>6, <1>7, <1>9

\* "Feedback adjusts, it never silences."
LEMMA RiskAdjusts ==
    ASSUME NEW a, NEW found, IsFiniteSet(found), found # {},
           \A d \in found : WellFormed(d), Tellable(found),
           NEW learned, NEW as_of \in Int,
           \A d \in found : Weighable(d, learned) /\ learned[d.name] \in 50..150,
           NEW unlearned, \A d \in found : unlearned[d.name] = 100
    PROVE  HalfToOneAndAHalf(RawRisk(a, found, learned, as_of),
                             RawRisk(a, found, unlearned, as_of),
                             SlackOfRisk(Cardinality(found)))
<1> DEFINE w == [d \in found |-> DetectionWeight(d, learned, as_of)]
           v == [d \in found |-> DetectionWeight(d, unlearned, as_of)]
<1>1. PICK each \in Nat : each = SlackOfWeight
  BY SlackIsNatural
<1>2. \A d \in found : w[d] \in Nat /\ v[d] \in Nat /\ HalfToOneAndAHalf(w[d], v[d], each)
  BY <1>1, WeightAdjusts
<1>3. PICK sum \in Nat, plain \in Nat, n \in Nat, slack \in Nat :
          /\ sum = Contributions(found, w) /\ plain = Contributions(found, v)
          /\ n = Cardinality(found) /\ slack = n * (each + 3)
          /\ HalfToOneAndAHalf(sum, plain, slack)
  <2> HIDE DEF w, v
  <2>1. Contributions(found, w) \in Nat /\ Contributions(found, v) \in Nat
    BY <1>2, ContributionsAreNatural
  <2>2. HalfToOneAndAHalf(Contributions(found, w), Contributions(found, v),
                          Cardinality(found) * (each + 3))
    BY <1>2, ContributionsAdjust
  <2>3. PICK n \in Nat : n = Cardinality(found)
    BY FS_CardinalityType
  <2>4. n * (each + 3) \in Nat
    OBVIOUS
  <2> QED
    BY <2>1, <2>2, <2>3, <2>4
<1>4. PICK bonus \in {100, 110, 125} : bonus = Bonus(found)
  BY BonusIs
<1>5. PICK diverse \in Nat, plural \in Nat, slackOfSum \in Nat :
          /\ diverse = Percent(sum, bonus) /\ plural = Percent(plain, bonus)
          /\ slackOfSum = Carried(slack, 125)
          /\ HalfToOneAndAHalf(diverse, plural, slackOfSum)
  <2>1. /\ Percent(sum, bonus) \in Nat /\ Percent(plain, bonus) \in Nat /\ Carried(slack, 125) \in Nat
        /\ HalfToOneAndAHalf(Percent(sum, bonus), Percent(plain, bonus), Carried(slack, 125))
    BY <1>3, BonusCarries
  <2> QED
    BY <2>1
<1>6. PICK m \in Nat, k \in Nat : m = MultiplierDeparting /\ k = MultiplierPrivileged
  BY RiskAssumption
<1>7. PICK departing \in {100, m} :
          departing = Factor("departing", MultiplierDeparting, entity_context(a, as_of))
  BY <1>6 DEF Factor
<1>8. PICK privileged \in {100, k} :
          privileged = Factor("privileged", MultiplierPrivileged, entity_context(a, as_of))
  BY <1>6 DEF Factor
<1>9. PICK one \in Nat, uno \in Nat, slackOfOne \in Nat :
          /\ one = Percent(diverse, departing) /\ uno = Percent(plural, departing)
          /\ slackOfOne = Carried(slackOfSum, m)
          /\ HalfToOneAndAHalf(one, uno, slackOfOne)
  <2>1. departing \in Nat
    BY <1>7
  <2>2. Percent(diverse, departing) \in Nat /\ Percent(plural, departing) \in Nat
    BY <2>1, PercentIsNatural
  <2>3. /\ Carried(slackOfSum, m) \in Nat
        /\ HalfToOneAndAHalf(Percent(diverse, departing), Percent(plural, departing),
                             Carried(slackOfSum, m))
    BY <1>5, SlackCarries
  <2> QED
    BY <2>2, <2>3
<1>10. HalfToOneAndAHalf(Percent(one, privileged), Percent(uno, privileged), Carried(slackOfOne, k))
  BY <1>9, SlackCarries
<1>11. RawRisk(a, found, learned, as_of) = Percent(one, privileged)
  <2>1. /\ sum = Contributions(found, w) /\ bonus = Bonus(found)
        /\ diverse = Percent(sum, bonus) /\ one = Percent(diverse, departing)
        /\ departing = Factor("departing", MultiplierDeparting, entity_context(a, as_of))
        /\ privileged = Factor("privileged", MultiplierPrivileged, entity_context(a, as_of))
    BY <1>3, <1>4, <1>5, <1>7, <1>8, <1>9
  <2> QED
    BY <2>1, Zenon DEF RawRisk, Bonus, Factor
<1>12. RawRisk(a, found, unlearned, as_of) = Percent(uno, privileged)
  <2>1. /\ plain = Contributions(found, v) /\ bonus = Bonus(found)
        /\ plural = Percent(plain, bonus) /\ uno = Percent(plural, departing)
        /\ departing = Factor("departing", MultiplierDeparting, entity_context(a, as_of))
        /\ privileged = Factor("privileged", MultiplierPrivileged, entity_context(a, as_of))
    BY <1>3, <1>4, <1>5, <1>7, <1>8, <1>9
  <2> QED
    BY <2>1, Zenon DEF RawRisk, Bonus, Factor
<1>13. SlackOfRisk(Cardinality(found)) = Carried(slackOfOne, k)
  <2>1. SlackOfRisk(n) = Carried(Carried(Carried(n * (each + 3), 125), m), k)
    BY <1>1, <1>6 DEF SlackOfRisk
  <2> QED
    BY <1>3, <1>5, <1>9, <2>1
<1> QED
  BY <1>10, <1>11, <1>12, <1>13
====
