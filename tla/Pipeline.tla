---- MODULE Pipeline ----
(***************************************************************************)
(* `itds run` from the events to the cases (pipeline.py): baselines and    *)
(* forest fitted before the window, the engines over each person's day in  *)
(* it, the analysts' suppressions and learned weights applied, detections  *)
(* and cases stored.  Around it are the tables and the analysts of         *)
(* CaseQueue, in which what a run finds was any choice; here it follows    *)
(* from the events, which may arrive in any order between runs.            *)
(***************************************************************************)
EXTENDS RiskScore

CONSTANTS
    Histories,      \* the logs there may be at first
    NewEvents,      \* those that may arrive
    ScoreDays,      \* --window, 14 by default
    Run, Thread, SuppressionId, MaxFeedback     \* as in CaseQueue

ASSUME PipelineAssumption ==
    /\ (UNION Histories) \cup NewEvents \subseteq Event
    /\ \A log \in Histories : IsFiniteSet(log)
    /\ ScoreDays \in Nat \ {0}
    /\ MaxFeedback \in Nat
    /\ None \notin {"open", "closed", "true_positive", "false_positive"}

Day == {DayOf(e.at) : e \in (UNION Histories) \cup NewEvents}

Name == {r.id : r \in Rules} \cup {"behavioural_anomaly"}
            \cup {"anomalous_" \o n : n \in FEATURE_NAMES}
            \cup {"absolute_" \o n : n \in {"file_read_count", "total_bytes"}}

ASSUME OrderAssumption ==
    \A n, m \in Name : NameOrder[n] \in Nat /\ (NameOrder[n] = NameOrder[m] => n = m)

VARIABLES
    events,        \* the log
    detections,    \* table detections
    cited,         \* column detection_ids of table cases
    entity_days,   \* table entity_days: the timeline the dashboard shows of a person
    result,        \* result[r]: what Pipeline.run of r read and computed
    cases, suppressions, feedback, run, handler, messages, inserted, retained

queueVars == <<cases, suppressions, feedback, run, handler, messages, inserted, retained>>

vars == <<events, detections, cited, entity_days, result, queueVars>>

Queue == INSTANCE CaseQueue WITH Channels <- <<>>   \* itds run --no-alerts

----------------------------------------------------------------------------
(* The stages of Pipeline.run.                                             *)

NoResult == [at |-> "none", events |-> {}, muted |-> {}, learned |-> [n \in Name |-> 100],
             found |-> {}, cases |-> {}, skipped |-> {}, unsaved |-> {}]

last_ts(log) == Max({e.at : e \in log})

\* The window is cut at the time of the last event, in the middle of a day.
score_from(log) == last_ts(log) - ScoreDays * TicksPerDay

\* The loop over the person-days of the window.
DayDetections(f, day_events, fitted, training) ==
    LET profile == profile_for(fitted, f.actor)
        kind == baseline_kind(fitted, f.actor)
    IN  RuleDetections(f, day_events) \cup
        IF DaysObserved(profile) < 1 THEN {}
        ELSE StatisticalDetections(f, profile, kind) \cup MLDetections(f, kind, training)

\* The detections in the window that begins at `from`.
Detections(log, from) ==
    LET fitted == Fit(log, from)
        training == extract_daily_features(Before(log, from))
        scoring == {e \in log : e.at >= from}
    IN  UNION {DayDetections(f, EventsOf(scoring, f.actor, f.day), fitted, training) :
                  f \in extract_daily_features(scoring)}

\* insufficient_history
Skipped(log, from) ==
    {a \in {e.actor : e \in {x \in log : x.at >= from}} :
        DaysObserved(profile_for(Fit(log, from), a)) < 1}

UnsuppressedNames(found, muted) == {d \in found : \A m \in muted : m[2] # d.name}

Unsuppressed(found, muted) == {d \in found : <<d.actor, d.name>> \notin muted}

QueueRow(c) == [id |-> c.id, names |-> c.names]

----------------------------------------------------------------------------
(* A run.                                                                  *)

Here(r, place) == result[r].at = place

\* The events file is read whole; what arrives later is for a later run.  A run
\* of an empty file raises.
LoadEvents(r) ==
    /\ Queue!RunAt(r, "start")
    /\ Here(r, "none")
    /\ events # {}
    /\ result' = [result EXCEPT ![r].at = "loaded", ![r].events = events]
    /\ UNCHANGED <<events, detections, cited, entity_days, queueVars>>

ReadSuppressions(r) ==
    /\ Here(r, "loaded")
    /\ Queue!ReadSuppressions(r)
    /\ UNCHANGED <<events, detections, cited, entity_days, result>>

\* The learned weights are read in a transaction after the suppressions; no
\* other block of the database is read or written until the cases are built.
Assess(r) ==
    /\ Here(r, "loaded")
    /\ Queue!RunAt(r, "assess")
    /\ LET log == result[r].events
           found == Detections(log, score_from(log))
           learned == LearnedWeights(feedback, Name)
           kept == Unsuppressed(found, run[r].muted)
           queue == BuildCases(kept, learned, last_ts(log))
       IN  /\ result' = [result EXCEPT ![r] =
                  [at |-> "assessed", events |-> log, muted |-> run[r].muted,
                   learned |-> learned, found |-> found, cases |-> queue,
                   skipped |-> Skipped(log, score_from(log)),
                   unsaved |-> {}]]
           /\ Queue!Enqueue(r, {QueueRow(c) : c \in queue})
    /\ UNCHANGED <<events, detections, cited, entity_days>>

Kept(r) == Unsuppressed(result[r].found, result[r].muted)

StoreLater(r) ==
    /\ Here(r, "assessed")
    /\ result' = [result EXCEPT ![r].at = "stored"]
    /\ UNCHANGED <<events, detections, cited, entity_days, queueVars>>

AppendDetections(r) ==
    /\ Here(r, "assessed")
    /\ ~Queue!RunAt(r, "dead")
    /\ detections' = detections \cup Kept(r)
    /\ result' = [result EXCEPT ![r].at = "stored"]
    /\ UNCHANGED <<events, cited, entity_days, queueVars>>

\* insert_detections: INSERT OR REPLACE, before the cases.
StoreDetections(r) ==
    /\ Here(r, "assessed")
    /\ ~Queue!RunAt(r, "dead")
    /\ LET new == Kept(r)
           ids == {DetectionId(d) : d \in new}
       IN  detections' = {d \in detections : DetectionId(d) \notin ids} \cup new
    /\ result' = [result EXCEPT ![r].at = "stored"]
    /\ UNCHANGED <<events, cited, entity_days, queueVars>>

LookUpFirst(r) ==
    /\ Here(r, "stored")
    /\ Queue!LookUpFirst(r)
    /\ UNCHANGED <<events, detections, cited, entity_days, result>>

\* A row that is written gets its detection_ids, in the same statement.
UpsertCases(r) ==
    /\ Queue!Upsert(r)
    /\ cited' = [c \in Queue!CaseId |->
           IF run'[r].at # "dead" /\ cases'[c].status # None
              /\ \E k \in result[r].cases : k.id = c
           THEN (CHOOSE k \in result[r].cases : k.id = c).detection_ids
           ELSE cited[c]]
    /\ result' = [result EXCEPT ![r].unsaved =
           IF run'[r].at = "dead" THEN {} ELSE {k.id.actor : k \in result[r].cases}]
    /\ UNCHANGED <<events, detections, entity_days>>

\* All of a person's days that the run read, those of the window flagged.
Timeline(r, a) ==
    {[day |-> f.day, values |-> f.values,
      scored |-> f.day >= DayOf(score_from(result[r].events))] :
        f \in {x \in extract_daily_features(result[r].events) : x.actor = a}}

MergeEntityDays(r, a) ==
    /\ a \in result[r].unsaved
    /\ LET days == {row.day : row \in Timeline(r, a)}
       IN  entity_days' = [entity_days EXCEPT ![a] =
               {row \in @ : row.day \notin days} \cup Timeline(r, a)]
    /\ result' = [result EXCEPT ![r].unsaved = @ \ {a}]
    /\ UNCHANGED <<events, detections, cited, queueVars>>

\* For everybody with a case, a transaction each: DELETE, then INSERT.
SaveEntityDays(r, a) ==
    /\ a \in result[r].unsaved
    /\ entity_days' = [entity_days EXCEPT ![a] = Timeline(r, a)]
    /\ result' = [result EXCEPT ![r].unsaved = @ \ {a}]
    /\ UNCHANGED <<events, detections, cited, queueVars>>

RunDies(r) ==
    /\ Queue!RunDies(r)
    /\ UNCHANGED <<events, detections, cited, entity_days, result>>

----------------------------------------------------------------------------
(* Between the runs: the analysts' verdicts, and more events.              *)

Verdict(t) ==
    \/ \E c \in Queue!CaseId, d \in Queue!Disposition, suppress \in BOOLEAN :
           Queue!AskFeedback(t, c, d, suppress)
    \/ Queue!ReadFindings(t)
    \/ Queue!InsertFeedback(t)
    \/ \E id \in SuppressionId, n \in Name : Queue!AddSuppression(t, id, n)
    \/ Queue!Record(t)

Analyst(t) ==
    /\ Verdict(t)
    /\ UNCHANGED <<events, detections, cited, entity_days, result>>

\* External: a source delivers an event, perhaps late.
Arrives(e) ==
    /\ e \notin events
    /\ events' = events \cup {e}
    /\ UNCHANGED <<detections, cited, entity_days, result, queueVars>>

Init ==
    /\ Queue!Init
    /\ events \in Histories
    /\ detections = {}
    /\ cited = [c \in Queue!CaseId |-> {}]
    /\ entity_days = [a \in Actor |-> {}]
    /\ result = [r \in Run |-> NoResult]

Next ==
    \/ \E r \in Run :
          \/ LoadEvents(r)
          \/ ReadSuppressions(r)
          \/ Assess(r)
          \/ StoreDetections(r)
          \/ LookUpFirst(r)
          \/ UpsertCases(r)
          \/ \E a \in Actor : SaveEntityDays(r, a)
          \/ RunDies(r)
    \/ \E t \in Thread : Analyst(t)
    \/ \E e \in NewEvents : Arrives(e)

Spec == Init /\ [][Next]_vars

----------------------------------------------------------------------------
(* Properties that hold.                                                   *)

DetectionRow == [actor : Actor, day : Nat, engine : {"rules", "statistical", "ml"},
                 name : Name, base_weight : Nat, confidence : 0..100,
                 context : SUBSET {"off_hours", "restricted_data"}]

CaseRow == [id : Queue!CaseId, names : (SUBSET Name) \ {{}}, risk_score : CaseThreshold..MaxScore,
            detection_ids : SUBSET {DetectionId(d) : d \in UNION {result[r].found : r \in Run}}]

TypeOK ==
    /\ events \subseteq Event
    /\ detections \subseteq DetectionRow
    /\ \A d, e \in detections : DetectionId(d) = DetectionId(e) => d = e
    /\ \A r \in Run :
          /\ result[r].at \in {"none", "loaded", "assessed", "stored"}
          /\ result[r].found \subseteq DetectionRow
          /\ result[r].cases \subseteq CaseRow
          /\ \A n \in Name : result[r].learned[n] \in 50..150
    /\ Queue!TypeOK

AbstractFindings(r) ==
    {[actor |-> d.actor, name |-> d.name, day |-> d.day] : d \in result[r].found}

\* Queue!Next, without the actions that have no counterpart here, and with the
\* findings that Queue!Assess may choose chosen.
QueueStep ==
    \/ \E r \in Run :
          \/ Queue!ReadSuppressions(r)
          \/ Queue!Assess(r, AbstractFindings(r)')
          \/ Queue!LookUpFirst(r)
          \/ Queue!Upsert(r)
          \/ Queue!RunDies(r)
    \/ \E t \in Thread : Verdict(t)

\* The cases that the stages come to are among those CaseQueue allows: cases of
\* people with findings that were not suppressed, opened on the first of them,
\* never more than the budget.
ImplementsQueue == Queue!Init /\ [][QueueStep]_queueVars

\* storage.py keeps a case's evidence as ids of rows of another table: they are
\* there whenever the case is, also when the run ended between the two, and
\* when another run replaced the rows.
EvidenceOnFile ==
    \A c \in Queue!CaseId : cases[c].status # None =>
        /\ cited[c] # {}
        /\ cited[c] \subseteq {DetectionId(d) : d \in detections}

Assessed == {r \in Run : result[r].at \in {"assessed", "stored"}}

\* A result never changes: what is claimed of it is claimed when it is there.
JustAssessed == {r \in Run : Here(r, "assessed") /\ ~Queue!RunAt(r, "dead")}

\* pipeline.py:7-11: what is found about a day owes nothing to what else
\* happened in the window.  Without the rest of it, the same is found.
JudgedByThePast ==
    \A r \in JustAssessed :
        LET log == result[r].events
            from == score_from(log)
            alone(a, day) == Before(log, from) \cup
                                 {e \in EventsOf(log, a, day) : e.at >= from}
        IN  \A d \in result[r].found : d \in Detections(alone(d.actor, d.day), from)

\* feedback.py:6-8, "for that person only": a run would have made the very same
\* case for everybody else in its queue without the suppressions it read.
MutedForThatPersonOnly ==
    \A r \in JustAssessed :
        LET res == result[r]
            unmuted == BuildCases(res.found, res.learned, last_ts(res.events))
            muted == {m[1] : m \in res.muted}
        IN  \A c \in unmuted : c.id.actor \notin muted => c \in res.cases

OwnKept(r, a) == {d \in Kept(r) : d.actor = a}

\* risk.py:15-19: no finding lowers a risk, wherever it ranks among its repeats;
\* but a lighter repeat of another adds at most a third of itself.
EvidenceAddsUp ==
    \A r \in JustAssessed : \A d \in Kept(r) :
        LET own == OwnKept(r, d.actor)
            as_of == last_ts(result[r].events)
            weight == [x \in own |-> DetectionWeight(x, result[r].learned, as_of)]
            more == Contributions(own, weight) - Contributions(own \ {d}, weight)
        IN  /\ RawRisk(d.actor, own \ {d}, result[r].learned, as_of)
                  <= RawRisk(d.actor, own, result[r].learned, as_of)
            /\ (\E x \in own \ {d} : x.name = d.name /\ weight[x] >= weight[d])
                  => more <= weight[d] \div 3

\* README.md:198, "Feedback adjusts, it never silences": whatever the verdicts,
\* the raw risk of what was kept is between half and one and a half of what it
\* is without them, although they also decide which repeats are discounted.
FeedbackAdjusts ==
    \A r \in JustAssessed : \A a \in {d.actor : d \in Kept(r)} :
        LET as_of == last_ts(result[r].events)
            own == OwnKept(r, a)
        IN  HalfToOneAndAHalf(RawRisk(a, own, result[r].learned, as_of),
                              RawRisk(a, own, [n \in Name |-> 100], as_of),
                              SlackOfRisk(Cardinality(own)))

\* risk.py:12, "Old news fades": of two runs, the one that has no new finding about
\* somebody, no higher learned weight, no new context and no earlier date does
\* not score that person higher.
OldNewsFades ==
    \A r \in Assessed, q \in JustAssessed : \A a \in Actor :
        LET then == last_ts(result[r].events)
            now == last_ts(result[q].events)
            score(x, as_of) == score_entity(a, OwnKept(x, a), result[x].learned, as_of)
        IN  /\ then <= now
            /\ OwnKept(q, a) \subseteq OwnKept(r, a)
            /\ entity_context(a, now) \subseteq entity_context(a, then)
            /\ \A d \in OwnKept(q, a) : result[q].learned[d.name] <= result[r].learned[d.name]
            => score(q, now) <= score(r, then)

\* pipeline.py:157, "Daily timelines for every entity with a case": what is shown
\* of a person is what one run saw, whatever ran beside it, and the days its case
\* rests on are shown as days that were scored.
TimelineShowsTheCase ==
    \A a \in {x \in Actor : entity_days[x] # {}} :
        \E r \in Assessed : \E k \in result[r].cases :
            /\ k.id.actor = a
            /\ entity_days[a] = Timeline(r, a)
            /\ \A d \in OwnKept(r, a) :
                   \E row \in entity_days[a] : row.day = d.day /\ row.scored

----------------------------------------------------------------------------
(* What a comment says and the code does not keep.                         *)

\* schema.py:170, is_departing: "True once notice has been given and the last day
\* has not passed."  A rule for people who leave looks at all days from the one
\* after the notice to the last.
DepartingToTheLastDay ==
    \A r \in JustAssessed :
        LET log == result[r].events
            scoring == {e \in log : e.at >= score_from(log)}
        IN  \A f \in extract_daily_features(scoring) :
                \A rule \in {x \in Rules : x.require_context = {"departing"}} :
                    /\ DepartureNoticeOn[f.actor] # None /\ LastDayOn[f.actor] # None
                    /\ f.day > DayOf(DepartureNoticeOn[f.actor])
                    /\ f.day <= DayOf(LastDayOn[f.actor])
                    /\ ActivityMatches(rule, f, EventsOf(scoring, f.actor, f.day))
                    => \E d \in result[r].found :
                           d.actor = f.actor /\ d.day = f.day /\ d.name = rule.id
====
