---- MODULE RiskScore ----
(***************************************************************************)
(* From detections to a ranked queue (scoring/risk.py), with the weights   *)
(* learned from the analysts' verdicts (feedback.py).                      *)
(*                                                                         *)
(* Numbers are integers: weights of detections in hundredths, factors in   *)
(* hundredths too, each product rounded down.  2^-(age/half life) is the   *)
(* table Decay.  1 - exp(-raw/60) is replaced by raw/(raw + 60), another   *)
(* increasing curve that stays below 1.                                    *)
(***************************************************************************)
EXTENDS Detection

CONSTANTS
    Decay,             \* hundredths left of a finding by its age in days
    MultiplierDeparting, MultiplierPrivileged,          \* in hundredths
    MultiplierRestrictedData, MultiplierOffHours,
    MaxScore,
    CaseThreshold,
    AlertBudget,
    TopDetections,     \* 5 (risk.py:203)
    NameOrder,         \* of each name, its place in what its engine lists for a day
    MinVerdicts        \* MIN_VERDICTS_FOR_WEIGHT

MaxAge == Max(DOMAIN Decay)

ASSUME RiskAssumption ==
    /\ Actor \subseteq Nat     \* in the order of their ids
    /\ MaxAge \in Nat /\ DOMAIN Decay = 0..MaxAge
    /\ Decay[0] = 100
    /\ \A age \in DOMAIN Decay \ {0} : Decay[age] \in 0..Decay[age - 1]
    /\ {MultiplierDeparting, MultiplierPrivileged,
        MultiplierRestrictedData, MultiplierOffHours} \subseteq Nat
    /\ MaxScore \in Nat /\ CaseThreshold \in Nat
    /\ AlertBudget \in Nat \ {0}
    /\ TopDetections \in Nat \ {0}
    /\ MinVerdicts \in Nat \ {0}

SATURATION == 60

DIVERSITY_BONUS == <<100, 110, 125>>

----------------------------------------------------------------------------
(* Learned weights (feedback.py).                                          *)

Verdicts(feedback, name) == {v \in feedback : name \in v.names}

\* In hundredths: benign positives are correct, too.
Precision(verdicts) ==
    (100 * Cardinality({v \in verdicts : v.disposition # "false_positive"}))
        \div Cardinality(verdicts)

PrecisionAlone(feedback, name) ==
    LET verdicts == Verdicts(feedback, name)
    IN  IF Cardinality(verdicts) >= MinVerdicts THEN Precision(verdicts) ELSE 100

\* learned_weights.get(name, 1.0)
LearnedWeight(feedback, name) ==
    LET verdicts == Verdicts(feedback, name)
    IN  IF Cardinality(verdicts) >= MinVerdicts THEN 50 + Precision(verdicts) ELSE 100

LearnedWeights(feedback, names) == [n \in names |-> LearnedWeight(feedback, n)]

----------------------------------------------------------------------------
(* RiskScorer.  as_of is the tick of the last event.                       *)

Percent(x, factor) == (x * factor) \div 100

SwappedDecay(age) == 10000 \div Max({1, Decay[Min({MaxAge, Max({0, age})})]})

decay_factor(age) == Decay[Min({MaxAge, Max({0, age})})]

DetectionWeight(d, learned, as_of) ==
    LET full == d.base_weight * d.confidence
        aged == Percent(full, decay_factor(DayOf(as_of) - d.day))
        restricted == IF "restricted_data" \in d.context THEN MultiplierRestrictedData ELSE 100
        off_hours == IF "off_hours" \in d.context THEN MultiplierOffHours ELSE 100
    IN  Percent(Percent(Percent(aged, learned[d.name]), restricted), off_hours)

RepeatOfEarlier(d, detections, weight) ==
    Cardinality({e \in detections : e.name = d.name /\ e.day < d.day})

\* The engines in the order of the loop of Pipeline.run.
ENGINE_ORDER == [rules |-> 1, statistical |-> 2, ml |-> 3]

\* weights.sort(reverse=True): the heavier one; of equals either, the sum is the
\* same.
CountsBefore(e, d, weight) ==
    \/ weight[e] > weight[d]
    \/ /\ weight[e] = weight[d]
       /\ \/ e.day < d.day
          \/ e.day = d.day /\ ENGINE_ORDER[e.engine] < ENGINE_ORDER[d.engine]

\* How many of the same name count before d.
Repeat(d, detections, weight) ==
    Cardinality({e \in detections : e.name = d.name /\ CountsBefore(e, d, weight)})

\* REPEAT_DISCOUNT ** i is one over this: a third for every one before it.
RepeatDivisor[i \in Nat] == IF i = 0 THEN 1 ELSE 3 * RepeatDivisor[i - 1]

\* The contributions of the detections.
Contributions(detections, weight) ==
    Total([d \in detections |-> weight[d] \div RepeatDivisor[Repeat(d, detections, weight)]],
          detections)

entity_context(a, as_of) ==
    IF PeerGroup[a] = None THEN {}
    ELSE {c \in {"departing", "privileged"} :
             IF c = "departing" THEN is_departing(a, as_of) ELSE a \in Privileged}

RawRisk(a, detections, learned, as_of) ==
    LET weight == [d \in detections |-> DetectionWeight(d, learned, as_of)]
        engines == Cardinality({d.engine : d \in detections})
        diverse == Percent(Contributions(detections, weight), DIVERSITY_BONUS[engines])
        context == entity_context(a, as_of)
        departing == IF "departing" \in context THEN MultiplierDeparting ELSE 100
        privileged == IF "privileged" \in context THEN MultiplierPrivileged ELSE 100
    IN  IF detections = {} THEN 0 ELSE Percent(Percent(diverse, departing), privileged)

score_entity(a, detections, learned, as_of) ==
    LET raw == RawRisk(a, detections, learned, as_of)
    IN  (MaxScore * raw) \div (raw + 100 * SATURATION)

\* The findings of a person are listed day by day and engine by engine.
ListedBefore(e, d) ==
    \/ e.day < d.day
    \/ /\ e.day = d.day
       /\ \/ ENGINE_ORDER[e.engine] < ENGINE_ORDER[d.engine]
          \/ e.engine = d.engine /\ NameOrder[e.name] < NameOrder[d.name]

\* The sort by weight is stable.
RanksHigher(e, d, weight) ==
    weight[e] > weight[d] \/ (weight[e] = weight[d] /\ ListedBefore(e, d))

\* Of each name the finding that ranks highest.
FirstOfTheirName(detections, weight) ==
    {d \in detections : \A e \in detections : e.name = d.name => ~RanksHigher(e, d, weight)}

\* The names of top_detections.
TopNames(detections, weight) ==
    LET first == FirstOfTheirName(detections, weight)
        ahead(d) == {e \in first : RanksHigher(e, d, weight)}
    IN  {d.name : d \in {x \in first : Cardinality(ahead(x)) < TopDetections}}

\* _make_case.
MakeCase(a, detections, learned, as_of) ==
    [id |-> [actor |-> a, day |-> Min({d.day : d \in detections})],
     names |-> TopNames(detections,
                        [d \in detections |-> DetectionWeight(d, learned, as_of)]),
     risk_score |-> score_entity(a, detections, learned, as_of),
     detection_ids |-> {DetectionId(d) : d \in detections}]

RanksBefore(c, k) ==
    \/ c.risk_score > k.risk_score
    \/ /\ c.risk_score = k.risk_score
       /\ c.id.actor < k.id.actor

UncutQueue(detections, learned, as_of) ==
    LET own(a) == {d \in detections : d.actor = a}
    IN  {c \in {MakeCase(a, own(a), learned, as_of) : a \in {d.actor : d \in detections}} :
            c.risk_score >= CaseThreshold}

\* build_cases: everybody at the threshold or above, cut to the budget.
BuildCases(detections, learned, as_of) ==
    LET cases == UncutQueue(detections, learned, as_of)
    IN  {c \in cases : Cardinality({k \in cases : RanksBefore(k, c)}) < AlertBudget}

----------------------------------------------------------------------------
(* How far weights between half and one and a half can move a risk.        *)

\* Between half and one and a half, but for what rounding adds or takes.
HalfToOneAndAHalf(raw, plain, slack) ==
    /\ plain <= 2 * raw + slack
    /\ 2 * raw <= 3 * plain + slack

\* The slack after one more product: it is multiplied, too, and rounding adds to it.
Carried(slack, factor) == Percent(slack, Max({100, factor})) + 3

\* What rounds a finding, and then the sum of n findings.
SlackOfWeight == Carried(Carried(1, MultiplierRestrictedData), MultiplierOffHours)

SlackOfRisk(n) ==
    LET sum == n * (SlackOfWeight + 3)
    IN  Carried(Carried(Carried(sum, 125), MultiplierDeparting), MultiplierPrivileged)
====
