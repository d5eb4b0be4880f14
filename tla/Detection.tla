---- MODULE Detection ----
(***************************************************************************)
(* The three engines that turn a person's day into detections: rules       *)
(* (detect/rules.py), z-scores and ceilings (detect/statistical.py) and    *)
(* the isolation forest (detect/ml.py).                                    *)
(*                                                                         *)
(* Confidences are in hundredths.  A rule is a record: `match` are the     *)
(* sensitivities of the events it counts ({} without a match block),       *)
(* `conditions` its lower bounds on features, `require_context` what must  *)
(* be true of the person.  The forest is a black box that is given the     *)
(* training days and the day: AnomalyScore and, after leaving features     *)
(* out one by one, HasDrivers.                                             *)
(***************************************************************************)
EXTENDS Baseline, Sequences

CONSTANTS
    Rules,
    AnomalyScore(_, _),   \* of a training set and a day, in hundredths
    HasDrivers(_, _),     \* some feature of the day accounts for the score
    Privileged,           \* identities.is_privileged
    JoinedOn, DepartureNoticeOn, LastDayOn,   \* ticks, None if not recorded
    ZThreshold,           \* config.py, StatisticalConfig
    MinEventsForZ,
    AbsoluteFileAccessFloor,
    AbsoluteBytesFloor,
    MinBytesForZ,         \* statistical.py:45
    TagFloor,             \* 10 night events or restricted files (statistical.py:69)
    NewJoinerDays,        \* 30 (rules.py:167)
    MinTrainingDays,      \* ml.py:28
    ScoreThreshold        \* config.py, MLConfig

ASSUME DetectionAssumption ==
    /\ ZThreshold \in Nat \ {0}
    /\ AbsoluteFileAccessFloor \in Nat \ {0}
    /\ AbsoluteBytesFloor \in Nat \ {0}
    /\ ScoreThreshold \in Nat
    /\ IsFiniteSet(Rules)
    /\ \A r \in Rules :
          /\ r.match # {} \/ r.conditions # {}
          /\ r.severity \in {"low", "medium", "high", "critical"}
          /\ r.confidence \in 0..100
          /\ r.tags \subseteq {"off_hours", "restricted_data"}
    /\ \A r, q \in Rules : r.id = q.id => r = q     \* load_rules refuses another

\* Different anomalies have different names (the prover does not spell strings).
ASSUME NamesAssumption ==
    \A n, m \in FEATURE_NAMES :
        /\ "anomalous_" \o n = "anomalous_" \o m => n = m
        /\ "absolute_" \o n = "absolute_" \o m => n = m
        /\ "anomalous_" \o n # "absolute_" \o m

\* actor, day, engine and name are hashed into detection_id.
DetectionId(d) == [actor |-> d.actor, day |-> d.day, engine |-> d.engine, name |-> d.name]

SEVERITY_WEIGHTS == [low |-> 6, medium |-> 15, high |-> 30, critical |-> 60]

----------------------------------------------------------------------------
(* What is known of a person (schema.py, Identity).                        *)

\* Notice has been given, and whole days, rounded down, to midnight of the last
\* day are not negative: from the first tick after that midnight they are.
is_departing(a, at) ==
    /\ DepartureNoticeOn[a] # None
    /\ at >= DepartureNoticeOn[a]
    /\ LastDayOn[a] = None \/ LastDayOn[a] >= at

Noon(day) == day * TicksPerDay + TicksPerDay \div 2

\* _context_holds; without an identity (a peer group) nothing is known.
ContextHolds(rule, a, day) ==
    LET at == Noon(day)
    IN  /\ rule.require_context # {} => PeerGroup[a] # None
        /\ "departing" \in rule.require_context => is_departing(a, at)
        /\ "privileged" \in rule.require_context => a \in Privileged
        /\ "new_joiner" \in rule.require_context =>
              /\ JoinedOn[a] # None
              /\ (at - JoinedOn[a]) \div TicksPerDay <= NewJoinerDays

----------------------------------------------------------------------------
(* The engines.  f are the features of the day.                            *)

Tags(f, name) ==
    (IF f.values["night_event_count"] >= TagFloor \/ name = "night_event_count"
     THEN {"off_hours"} ELSE {})
    \cup
    (IF f.values["restricted_file_count"] >= TagFloor \/ name = "restricted_file_count"
     THEN {"restricted_data"} ELSE {})

Found(f, engine, name, severity, confidence, tags) ==
    [actor |-> f.actor, day |-> f.day, engine |-> engine, name |-> name,
     base_weight |-> SEVERITY_WEIGHTS[severity], confidence |-> confidence,
     context |-> tags]

\* The part of a rule that looks at the day.
ActivityMatches(rule, f, events) ==
    /\ rule.match # {} =>
          Cardinality({e \in events : e.sensitivity \in rule.match})
              >= Max({1, rule.threshold})
    /\ \A c \in rule.conditions : f.values[c.feature] >= c.min

RuleDetections(f, events) ==
    {Found(f, "rules", rule.id, rule.severity, rule.confidence, rule.tags) :
        rule \in {r \in Rules : /\ ContextHolds(r, f.actor, f.day)
                                /\ ActivityMatches(r, f, events)}}

MONITORED == [file_read_count |-> "medium", restricted_file_count |-> "high",
              total_bytes |-> "medium", night_event_count |-> "medium"]

Eligible(name, value) ==
    value >= IF name = "total_bytes" THEN MinBytesForZ ELSE MinEventsForZ

\* 0.45, plus 0.05 for each further standard deviation, at most 0.9.
ZConfidence(profile, name, value) ==
    45 + 5 * Max({k \in 0..9 : k = 0 \/ ZScoreAtLeast(profile, name, value, ZThreshold + k)})

\* A baseline that is not the person's own counts for less.
Discounted(confidence, kind) ==
    IF kind = "self" THEN confidence ELSE (confidence * 8) \div 10

ZDetections(f, profile, kind) ==
    LET names == {n \in FEATURE_NAMES :
                     /\ Eligible(n, f.values[n])
                     /\ ZScoreAtLeast(profile, n, f.values[n], ZThreshold)}
    IN  {Found(f, "statistical", "anomalous_" \o n, MONITORED[n],
               Discounted(ZConfidence(profile, n, f.values[n]), kind), Tags(f, n)) :
            n \in names}

CeilingDetections(f) ==
    LET above == {n \in {"file_read_count", "total_bytes"} :
                     f.values[n] >= IF n = "total_bytes" THEN AbsoluteBytesFloor
                                                         ELSE AbsoluteFileAccessFloor}
    IN  {Found(f, "statistical", "absolute_" \o n, "medium", 60, Tags(f, n)) : n \in above}

StatisticalDetections(f, profile, kind) ==
    ZDetections(f, profile, kind) \cup CeilingDetections(f)

\* The model is fitted on all days before the window, if they are enough.
MLDetections(f, kind, training) ==
    LET score == AnomalyScore(training, f)
        severity == IF score >= ScoreThreshold + 10 THEN "high" ELSE "medium"
        confidence == Min({80, 40 + 3 * (score - ScoreThreshold)})
    IN  IF \/ Cardinality(training) < MinTrainingDays
           \/ score < ScoreThreshold
           \/ ~HasDrivers(training, f)
        THEN {}
        ELSE {Found(f, "ml", "behavioural_anomaly", severity,
                    Discounted(confidence, kind), Tags(f, "vector"))}
====
