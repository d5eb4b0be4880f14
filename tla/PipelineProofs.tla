---- MODULE PipelineProofs ----
(***************************************************************************)
(* Theorems about Pipeline, for any people, rules and baselines, any       *)
(* forest, any logs and any order in which events arrive, any number of    *)
(* runs and analysts.                                                      *)
(***************************************************************************)
EXTENDS Evaluation, RiskProofs

----------------------------------------------------------------------------
(* Facts about the stages.                                                 *)

Log == {log \in SUBSET Event : log # {} /\ IsFiniteSet(log)}

\* The last event of a log has a time, and so has the cut before the window.
LEMMA LastEvent ==
    ASSUME NEW log \in Log
    PROVE  /\ last_ts(log) \in Nat
           /\ \A e \in log : e.at <= last_ts(log)
           /\ score_from(log) \in Int
<1> DEFINE times == {e.at : e \in log}
<1>1. times \subseteq Nat /\ times # {}
  BY DEF Log, Event
<1>2. IsFiniteSet(times)
  <2> DEFINE at == [e \in log |-> e.at]
  <2>1. at \in Surjection(log, times)
    BY DEF Surjection
  <2> HIDE DEF at, times
  <2> QED
    BY <2>1, FS_Surjection DEF Log
<1>3. Max(times) \in times /\ \A t \in times : Max(times) >= t
  <2> HIDE DEF times
  <2> QED
    BY <1>1, <1>2, MaxIsMember
<1>4. /\ last_ts(log) \in Nat
      /\ \A e \in log : e.at <= last_ts(log)
  BY <1>1, <1>3 DEF last_ts, Log, Event
<1>5. TicksPerDay \in Nat /\ ScoreDays \in Nat
  BY BaselineAssumption, PipelineAssumption
<1> QED
  BY <1>4, <1>5 DEF score_from

\* Whatever engine found it, a detection is about the day it was found in.
LEMMA FoundInItsDay ==
    ASSUME NEW f, NEW day_events, NEW fitted, NEW training,
           NEW d \in DayDetections(f, day_events, fitted, training)
    PROVE  d.actor = f.actor /\ d.day = f.day
<1> DEFINE profile == profile_for(fitted, f.actor)
           kind == baseline_kind(fitted, f.actor)
<1>1. d \in RuleDetections(f, day_events) => d.actor = f.actor /\ d.day = f.day
  BY DEF RuleDetections, Found
<1>2. d \in StatisticalDetections(f, profile, kind) => d.actor = f.actor /\ d.day = f.day
  BY DEF StatisticalDetections, ZDetections, CeilingDetections, Found
<1>3. d \in MLDetections(f, kind, training) => d.actor = f.actor /\ d.day = f.day
  BY DEF MLDetections, Found
<1>4. \/ d \in RuleDetections(f, day_events)
      \/ d \in StatisticalDetections(f, profile, kind)
      \/ d \in MLDetections(f, kind, training)
  BY DEF DayDetections
<1> QED
  BY <1>1, <1>2, <1>3, <1>4

\* The events in the window.
Scoring(log, from) == {e \in log : e.at >= from}

\* A detection is about a day on which its person did something in the window.
LEMMA FoundInTheWindow ==
    ASSUME NEW log, NEW from, NEW d \in Detections(log, from)
    PROVE  \E e \in Scoring(log, from) :
               /\ d.actor = e.actor /\ d.day = DayOf(e.at)
               /\ LET f == DailyFeatures(e.actor, DayOf(e.at),
                                EventsOf(Scoring(log, from), e.actor, DayOf(e.at)))
                  IN  d \in DayDetections(f, EventsOf(Scoring(log, from), e.actor, DayOf(e.at)),
                                Fit(log, from), extract_daily_features(Before(log, from)))
<1>1. PICK f \in extract_daily_features(Scoring(log, from)) :
          d \in DayDetections(f, EventsOf(Scoring(log, from), f.actor, f.day),
                              Fit(log, from), extract_daily_features(Before(log, from)))
  BY DEF Detections, Scoring
<1>2. PICK e \in Scoring(log, from) :
          f = DailyFeatures(e.actor, DayOf(e.at),
                  EventsOf(Scoring(log, from), e.actor, DayOf(e.at)))
  BY DEF extract_daily_features
<1>3. f.actor = e.actor /\ f.day = DayOf(e.at)
  BY <1>2 DEF DailyFeatures
<1>4. d.actor = f.actor /\ d.day = f.day
  BY <1>1, FoundInItsDay
<1> QED
  BY <1>1, <1>2, <1>3, <1>4

\* What is left of a log without the rest of the window.
Alone(log, from, a, day) ==
    Before(log, from) \cup {e \in EventsOf(log, a, day) : e.at >= from}

\* The same is found about a day without the rest of the window: what came before
\* it and what happened on the day are the same.
LEMMA FoundAlone ==
    ASSUME NEW log \in Log, NEW from \in Int, NEW d \in Detections(log, from)
    PROVE  d \in Detections(Alone(log, from, d.actor, d.day), from)
<1> DEFINE alone == Alone(log, from, d.actor, d.day)
<1>1. PICK e \in Scoring(log, from) :
          /\ d.actor = e.actor /\ d.day = DayOf(e.at)
          /\ LET f == DailyFeatures(e.actor, DayOf(e.at),
                           EventsOf(Scoring(log, from), e.actor, DayOf(e.at)))
             IN  d \in DayDetections(f, EventsOf(Scoring(log, from), e.actor, DayOf(e.at)),
                           Fit(log, from), extract_daily_features(Before(log, from)))
  BY FoundInTheWindow
<1>2. \A x \in log : x.at \in Int
  BY DEF Log, Event
<1>3. Before(alone, from) = Before(log, from)
  BY <1>2 DEF Alone, Before, EventsOf
<1>4. Scoring(alone, from) = EventsOf(Scoring(log, from), d.actor, d.day)
  BY <1>2 DEF Alone, Scoring, Before, EventsOf
<1>5. EventsOf(Scoring(alone, from), d.actor, d.day) = EventsOf(Scoring(log, from), d.actor, d.day)
  BY <1>4 DEF EventsOf
<1>6. e \in Scoring(alone, from)
  BY <1>1, <1>4 DEF EventsOf
<1>7. Fit(alone, from) = Fit(log, from)
  BY <1>3 DEF Fit
<1> DEFINE f == DailyFeatures(d.actor, d.day, EventsOf(Scoring(alone, from), d.actor, d.day))
<1>8. f \in extract_daily_features(Scoring(alone, from))
  BY <1>1, <1>6 DEF extract_daily_features
<1>9. f.actor = d.actor /\ f.day = d.day
  BY DEF DailyFeatures
<1>10. d \in DayDetections(f, EventsOf(Scoring(alone, from), d.actor, d.day),
                           Fit(alone, from), extract_daily_features(Before(alone, from)))
  BY <1>1, <1>3, <1>5, <1>7
<1>11. d \in DayDetections(f, EventsOf(Scoring(alone, from), f.actor, f.day),
                           Fit(alone, from), extract_daily_features(Before(alone, from)))
  <2> HIDE DEF f, alone
  <2> QED
    BY <1>9, <1>10
<1> HIDE DEF f, alone
<1>12. d \in Detections(alone, from)
  BY <1>8, <1>11 DEF Detections, Scoring
<1> QED
  BY <1>12 DEF alone

\* A case rests on evidence, all of it kept, of one person.
LEMMA CaseRestsOnFindings ==
    ASSUME NEW kept, NEW learned, NEW as_of, NEW c \in BuildCases(kept, learned, as_of)
    PROVE  /\ c.detection_ids # {}
           /\ c.detection_ids \subseteq {DetectionId(d) : d \in kept}
           /\ \E d \in kept : c.id.actor = d.actor
<1> DEFINE own(a) == {d \in kept : d.actor = a}
<1>1. PICK a \in {d.actor : d \in kept} : c = MakeCase(a, own(a), learned, as_of)
  <2>1. c \in UncutQueue(kept, learned, as_of)
    BY DEF BuildCases
  <2> QED
    BY <2>1 DEF UncutQueue
<1>2. own(a) # {} /\ own(a) \subseteq kept
  OBVIOUS
<1>3. c.detection_ids = {DetectionId(d) : d \in own(a)} /\ c.id.actor = a
  BY <1>1 DEF MakeCase
<1>4. PICK d \in own(a) : TRUE
  BY <1>2
<1>5. c.detection_ids # {}
  BY <1>3, <1>4
<1>6. c.detection_ids \subseteq {DetectionId(x) : x \in kept}
  BY <1>2, <1>3
<1>7. d \in kept /\ c.id.actor = d.actor
  BY <1>3, <1>4
<1> QED
  BY <1>5, <1>6, <1>7

----------------------------------------------------------------------------
(* The inductive invariant.                                                *)

Filed == {DetectionId(d) : d \in detections}

\* What an assessed run computed follows from the log and the suppressions it
\* read, and is not changed afterwards.
Computed(r) ==
    /\ result[r].events \in Log
    /\ result[r].found = Detections(result[r].events, score_from(result[r].events))
    /\ result[r].cases = BuildCases(Kept(r), result[r].learned, last_ts(result[r].events))

ResultSound(r) ==
    /\ DOMAIN result[r] = DOMAIN NoResult
    /\ result[r].at \in {"none", "loaded", "assessed", "stored"}
    /\ result[r].at = "loaded" => result[r].events \in Log
    /\ result[r].at \in {"assessed", "stored"} => Computed(r)
    /\ result[r].at \in {"none", "loaded"} => result[r].unsaved = {}
    /\ result[r].unsaved \subseteq {k.id.actor : k \in result[r].cases}
    /\ result[r].at = "stored" => {DetectionId(d) : d \in Kept(r)} \subseteq Filed

\* A run that has cases to write has computed these; to write, it has stored its
\* detections.
RunSound(r) ==
    /\ DOMAIN run[r] = DOMAIN Queue!Fresh
    /\ run[r].at \in {"start", "assess"} => result[r].at \in {"none", "loaded"}
    /\ run[r].at \in {"look", "upsert"} =>
          /\ result[r].at \in {"assessed", "stored"}
          /\ run[r].cases = {QueueRow(c) : c \in result[r].cases}
    /\ run[r].at = "upsert" => result[r].at = "stored"

TablesShaped ==
    /\ events \in SUBSET Event /\ IsFiniteSet(events)
    /\ DOMAIN result = Run /\ DOMAIN run = Run /\ DOMAIN entity_days = Actor

IInv ==
    /\ TablesShaped
    /\ \A r \in Run : ResultSound(r) /\ RunSound(r)
    /\ EvidenceOnFile
    /\ TimelineShowsTheCase

LEMMA InitSound == Init => IInv
<1> SUFFICES ASSUME Init PROVE IInv
  OBVIOUS
<1> USE DEF Init, Queue!Init
<1>1. TablesShaped
  BY PipelineAssumption DEF TablesShaped
<1>2. ASSUME NEW r \in Run
      PROVE  ResultSound(r) /\ RunSound(r)
  <2>1. result[r] = NoResult /\ run[r] = Queue!Fresh
    OBVIOUS
  <2> QED
    BY <2>1 DEF ResultSound, RunSound, NoResult, Queue!Fresh
<1>3. EvidenceOnFile
  BY DEF EvidenceOnFile, Queue!NoRow
<1>4. TimelineShowsTheCase
  BY DEF TimelineShowsTheCase
<1> QED
  BY <1>1, <1>2, <1>3, <1>4 DEF IInv

----------------------------------------------------------------------------
(* What a step leaves alone.                                               *)

\* What r computed is still there.
SameResult(r) ==
    /\ result'[r].at \in {"assessed", "stored"} <=> result[r].at \in {"assessed", "stored"}
    /\ result'[r].events = result[r].events
    /\ result'[r].muted = result[r].muted
    /\ result'[r].learned = result[r].learned
    /\ result'[r].found = result[r].found
    /\ result'[r].cases = result[r].cases

LEMMA ComputedStays ==
    ASSUME NEW r \in Run, Computed(r), SameResult(r)
    PROVE  Computed(r)'
BY DEF Computed, SameResult, Kept

\* Evidence stays while only detections are added.
LEMMA EvidenceStays ==
    ASSUME EvidenceOnFile, UNCHANGED <<cases, cited>>, Filed \subseteq Filed'
    PROVE  EvidenceOnFile'
BY DEF EvidenceOnFile, Filed

\* A timeline that is not written still shows the result of the run that wrote it.
LEMMA TimelinesStay ==
    ASSUME TimelineShowsTheCase, UNCHANGED entity_days,
           \A r \in Assessed : SameResult(r)
    PROVE  TimelineShowsTheCase'
<1> SUFFICES ASSUME NEW a \in Actor, entity_days[a] # {}
             PROVE  \E r \in Assessed' : \E k \in result'[r].cases :
                        /\ k.id.actor = a
                        /\ entity_days[a] = Timeline(r, a)'
                        /\ \A d \in OwnKept(r, a)' :
                               \E row \in entity_days[a] : row.day = d.day /\ row.scored
  BY DEF TimelineShowsTheCase
<1>1. PICK r \in Assessed : \E k \in result[r].cases :
          /\ k.id.actor = a
          /\ entity_days[a] = Timeline(r, a)
          /\ \A d \in OwnKept(r, a) :
                 \E row \in entity_days[a] : row.day = d.day /\ row.scored
  BY DEF TimelineShowsTheCase
<1>2. Timeline(r, a)' = Timeline(r, a)
  BY <1>1 DEF Timeline, SameResult
<1>3. OwnKept(r, a)' = OwnKept(r, a)
  BY <1>1 DEF OwnKept, Kept, SameResult
<1>4. r \in Assessed' /\ result'[r].cases = result[r].cases
  BY <1>1 DEF Assessed, SameResult
<1> QED
  BY <1>1, <1>2, <1>3, <1>4

\* A step that leaves all results, and the locals a run would use them with, alone.
LEMMA RunsStay ==
    ASSUME NEW r \in Run, RunSound(r), UNCHANGED <<run[r], result[r]>>
    PROVE  RunSound(r)'
BY DEF RunSound

LEMMA ResultStays ==
    ASSUME NEW r \in Run, ResultSound(r), UNCHANGED result[r], Filed \subseteq Filed'
    PROVE  ResultSound(r)'
<1>1. Kept(r)' = Kept(r) /\ (Computed(r) => Computed(r)')
  BY DEF Kept, Computed
<1> QED
  BY <1>1 DEF ResultSound

\* The steps of a run that only move it, by what they do to its locals.
LEMMA MovesKeep ==
    ASSUME IInv, UNCHANGED <<events, detections, cited, entity_days, result, cases>>,
           DOMAIN run' = Run,
           NEW r \in Run, RunSound(r)',
           \A q \in Run \ {r} : run'[q] = run[q]
    PROVE  IInv'
<1> USE DEF IInv
<1>1. TablesShaped'
  BY DEF TablesShaped
<1>2. Filed' = Filed
  BY DEF Filed
<1>3. ASSUME NEW q \in Run
      PROVE  (ResultSound(q) /\ RunSound(q))'
  BY <1>2, ResultStays, RunsStay
<1>4. EvidenceOnFile'
  BY <1>2, EvidenceStays
<1>5. \A q \in Assessed : SameResult(q)
  BY DEF SameResult
<1>6. TimelineShowsTheCase'
  BY <1>5, TimelinesStay
<1> QED
  BY <1>1, <1>3, <1>4, <1>6

LEMMA ReadSuppressionsKeeps ==
    ASSUME IInv, NEW r \in Run, ReadSuppressions(r)
    PROVE  IInv'
<1> DEFINE muted == {<<s.actor, s.name>> : s \in suppressions}
<1>1. PICK m : m = muted
  OBVIOUS
<1>2. /\ run[r].at = "start"
      /\ run' = [run EXCEPT ![r] = [run[r] EXCEPT !.muted = m, !.at = "assess"]]
      /\ UNCHANGED <<events, detections, cited, entity_days, result, cases>>
  BY <1>1 DEF ReadSuppressions, Queue!ReadSuppressions, Queue!RunAt
<1>3. DOMAIN run = Run /\ RunSound(r)
  BY DEF IInv, TablesShaped
<1>4. run'[r] = [run[r] EXCEPT !.muted = m, !.at = "assess"]
  BY <1>2, <1>3
<1>5. DOMAIN run'[r] = DOMAIN run[r] /\ run'[r].at = "assess"
  BY <1>3, <1>4 DEF RunSound, Queue!Fresh
<1>6. RunSound(r)'
  BY <1>2, <1>3, <1>5 DEF RunSound
<1>7. DOMAIN run' = Run /\ \A q \in Run \ {r} : run'[q] = run[q]
  BY <1>2, <1>3
<1> QED
  BY <1>2, <1>6, <1>7, MovesKeep

LEMMA LookUpFirstKeeps ==
    ASSUME IInv, NEW r \in Run, LookUpFirst(r)
    PROVE  IInv'
<1>1. PICK stale :
          /\ run[r].at = "look" /\ result[r].at = "stored"
          /\ run' = [run EXCEPT ![r] = [run[r] EXCEPT !.stale = stale, !.at = "upsert"]]
          /\ UNCHANGED <<events, detections, cited, entity_days, result, cases>>
  BY DEF LookUpFirst, Queue!LookUpFirst, Queue!RunAt, Here
<1>2. DOMAIN run = Run /\ RunSound(r)
  BY DEF IInv, TablesShaped
<1>3. run'[r] = [run[r] EXCEPT !.stale = stale, !.at = "upsert"]
  BY <1>1, <1>2
<1>4. DOMAIN run'[r] = DOMAIN run[r] /\ run'[r].at = "upsert" /\ run'[r].cases = run[r].cases
  BY <1>2, <1>3 DEF RunSound, Queue!Fresh
<1>5. RunSound(r)'
  BY <1>1, <1>2, <1>4 DEF RunSound
<1>6. DOMAIN run' = Run /\ \A q \in Run \ {r} : run'[q] = run[q]
  BY <1>1, <1>2
<1> QED
  BY <1>1, <1>5, <1>6, MovesKeep

LEMMA RunDiesKeeps ==
    ASSUME IInv, NEW r \in Run, RunDies(r)
    PROVE  IInv'
<1>1. PICK gone : gone = [Queue!Fresh EXCEPT !.at = "dead", !.failed = run[r].failed]
  OBVIOUS
<1>2. run' = [run EXCEPT ![r] = gone] /\ UNCHANGED <<events, detections, cited, entity_days, result, cases>>
  BY <1>1 DEF RunDies, Queue!RunDies
<1>3. gone.at = "dead" /\ DOMAIN gone = DOMAIN Queue!Fresh
  BY <1>1 DEF Queue!Fresh
<1>4. DOMAIN run = Run /\ RunSound(r)
  BY DEF IInv, TablesShaped
<1>5. run'[r] = gone
  BY <1>2, <1>4
<1>6. RunSound(r)'
  BY <1>3, <1>5 DEF RunSound
<1>7. DOMAIN run' = Run /\ \A q \in Run \ {r} : run'[q] = run[q]
  BY <1>2, <1>4
<1> QED
  BY <1>2, <1>6, <1>7, MovesKeep

\* Steps that are not of a run.
LEMMA OthersKeep ==
    ASSUME IInv, UNCHANGED <<detections, cited, entity_days, result, cases, run>>,
           events' \in SUBSET Event /\ IsFiniteSet(events')
    PROVE  IInv'
<1> USE DEF IInv
<1>1. TablesShaped'
  BY DEF TablesShaped
<1>2. Filed' = Filed
  BY DEF Filed
<1>3. ASSUME NEW q \in Run
      PROVE  (ResultSound(q) /\ RunSound(q))'
  BY <1>2, ResultStays, RunsStay
<1>4. EvidenceOnFile'
  BY <1>2, EvidenceStays
<1>5. \A q \in Assessed : SameResult(q)
  BY DEF SameResult
<1>6. TimelineShowsTheCase'
  BY <1>5, TimelinesStay
<1> QED
  BY <1>1, <1>3, <1>4, <1>6

LEMMA AnalystKeeps ==
    ASSUME IInv, NEW t \in Thread, Analyst(t)
    PROVE  IInv'
<1>1. UNCHANGED <<events, detections, cited, entity_days, result>>
  BY DEF Analyst
<1>2. UNCHANGED <<cases, run>>
  <2>1. Verdict(t)
    BY DEF Analyst
  <2>2. CASE \E c \in Queue!CaseId, d \in Queue!Disposition, suppress \in BOOLEAN :
                 Queue!AskFeedback(t, c, d, suppress)
    BY <2>2 DEF Queue!AskFeedback
  <2>3. CASE Queue!ReadFindings(t)
    BY <2>3 DEF Queue!ReadFindings
  <2>4. CASE Queue!InsertFeedback(t)
    BY <2>4 DEF Queue!InsertFeedback
  <2>5. CASE \E id \in SuppressionId, n \in Name : Queue!AddSuppression(t, id, n)
    BY <2>5 DEF Queue!AddSuppression
  <2>6. CASE Queue!Record(t)
    BY <2>6 DEF Queue!Record
  <2> QED
    BY <2>1, <2>2, <2>3, <2>4, <2>5, <2>6 DEF Verdict
<1>3. events' \in SUBSET Event /\ IsFiniteSet(events')
  BY <1>1 DEF IInv, TablesShaped
<1> QED
  BY <1>1, <1>2, <1>3, OthersKeep

LEMMA ArrivesKeeps ==
    ASSUME IInv, NEW e \in NewEvents, Arrives(e)
    PROVE  IInv'
<1>1. UNCHANGED <<detections, cited, entity_days, result, cases, run>>
  BY DEF Arrives, queueVars
<1>2. events' = events \cup {e} /\ events \in SUBSET Event /\ IsFiniteSet(events)
  BY DEF Arrives, IInv, TablesShaped
<1>3. events' \in SUBSET Event /\ IsFiniteSet(events')
  BY <1>2, FS_AddElement, PipelineAssumption
<1> QED
  BY <1>1, <1>3, OthersKeep

\* A run that loads its events had no result before, and has none yet.
LEMMA LoadEventsKeeps ==
    ASSUME IInv, NEW r \in Run, LoadEvents(r)
    PROVE  IInv'
<1> USE DEF IInv
<1>1. PICK log : log = events
  OBVIOUS
<1>2. PICK res : res = [result[r] EXCEPT !.at = "loaded", !.events = log]
  OBVIOUS
<1>3. /\ result[r].at = "none" /\ run[r].at = "start" /\ log # {}
      /\ result' = [result EXCEPT ![r] = res]
      /\ UNCHANGED <<events, detections, cited, entity_days, run, cases>>
  BY <1>1, <1>2 DEF LoadEvents, Here, Queue!RunAt, queueVars
<1>4. DOMAIN result = Run /\ ResultSound(r) /\ RunSound(r)
  BY DEF TablesShaped
<1>5. result'[r] = res /\ \A q \in Run \ {r} : result'[q] = result[q]
  BY <1>3, <1>4
<1>6. /\ DOMAIN res = DOMAIN NoResult
      /\ res.at = "loaded" /\ res.events = log
      /\ res.cases = result[r].cases /\ res.unsaved = result[r].unsaved
  BY <1>2, <1>4 DEF ResultSound, NoResult
<1>7. log \in Log
  BY <1>1, <1>3 DEF Log, TablesShaped
<1>8. Filed' = Filed
  BY <1>3 DEF Filed
<1>9. ASSUME NEW q \in Run
      PROVE  (ResultSound(q) /\ RunSound(q))'
  <2>1. CASE q = r
    <3>1. ResultSound(q)'
      BY <1>3, <1>4, <1>5, <1>6, <1>7, <2>1 DEF ResultSound
    <3>2. RunSound(q)'
      BY <1>3, <1>4, <1>5, <1>6, <2>1 DEF RunSound
    <3> QED
      BY <3>1, <3>2
  <2>2. CASE q # r
    BY <1>3, <1>5, <1>8, <2>2, ResultStays, RunsStay
  <2> QED
    BY <2>1, <2>2
<1>10. TablesShaped'
  BY <1>3 DEF TablesShaped
<1>11. EvidenceOnFile'
  BY <1>3, <1>8, EvidenceStays
<1>12. \A q \in Assessed : SameResult(q)
  BY <1>3, <1>5 DEF SameResult, Assessed
<1>13. TimelineShowsTheCase'
  BY <1>3, <1>12, TimelinesStay
<1> QED
  BY <1>9, <1>10, <1>11, <1>13

\* A run that assesses had no result before, so nothing rests on the old one.
LEMMA AssessKeeps ==
    ASSUME IInv, NEW r \in Run, Assess(r)
    PROVE  IInv'
<1> USE DEF IInv
<1>0. PICK log : log = result[r].events
  OBVIOUS
<1>1. PICK found : found = Detections(log, score_from(log))
  OBVIOUS
<1>2. PICK learned : learned = LearnedWeights(feedback, Name)
  OBVIOUS
<1>3. PICK queue : queue = BuildCases(Unsuppressed(found, run[r].muted), learned, last_ts(log))
  OBVIOUS
<1>4. PICK rows : rows = {QueueRow(c) : c \in queue}
  OBVIOUS
<1>5. PICK skipped : skipped = Skipped(log, score_from(log))
  OBVIOUS
<1>6. PICK res : res = [at |-> "assessed", events |-> log, muted |-> run[r].muted,
                        learned |-> learned, found |-> found, cases |-> queue,
                        skipped |-> skipped, unsaved |-> {}]
  OBVIOUS
<1>7. PICK next : next = IF rows = {} THEN "done" ELSE "look"
  OBVIOUS
<1>8. /\ run[r].at = "assess" /\ result[r].at = "loaded"
      /\ result' = [result EXCEPT ![r] = res]
      /\ Queue!Enqueue(r, rows)
      /\ UNCHANGED <<events, detections, cited, entity_days>>
  BY <1>0, <1>1, <1>2, <1>3, <1>4, <1>5, <1>6 DEF Assess, Here, Queue!RunAt
<1>9. /\ run' = [run EXCEPT ![r] = [run[r] EXCEPT !.cases = rows, !.at = next]]
      /\ UNCHANGED cases
  BY <1>7, <1>8 DEF Queue!Enqueue
<1>10. DOMAIN run = Run /\ DOMAIN result = Run /\ RunSound(r)
  BY DEF TablesShaped
<1>11. /\ result'[r] = res
       /\ run'[r] = [run[r] EXCEPT !.cases = rows, !.at = next]
       /\ \A q \in Run \ {r} : result'[q] = result[q] /\ run'[q] = run[q]
  BY <1>8, <1>9, <1>10
<1>12. /\ DOMAIN run'[r] = DOMAIN Queue!Fresh
       /\ run'[r].at = next /\ run'[r].cases = rows
  BY <1>10, <1>11 DEF RunSound, Queue!Fresh
<1>13. /\ DOMAIN res = DOMAIN NoResult
       /\ res.at = "assessed" /\ res.events = log /\ res.muted = run[r].muted
       /\ res.learned = learned /\ res.found = found /\ res.cases = queue
       /\ res.unsaved = {}
  BY <1>6 DEF NoResult
<1>14. Computed(r)'
  <2>1. log \in Log
    BY <1>0, <1>8 DEF ResultSound
  <2>2. Kept(r)' = Unsuppressed(found, run[r].muted)
    BY <1>11, <1>13 DEF Kept
  <2> QED
    BY <1>1, <1>3, <1>11, <1>13, <2>1, <2>2 DEF Computed
<1>15. Filed' = Filed
  BY <1>8 DEF Filed
<1>16. ASSUME NEW q \in Run
       PROVE  (ResultSound(q) /\ RunSound(q))'
  <2>1. CASE q = r
    <3>1. ResultSound(q)'
      BY <1>11, <1>13, <1>14, <2>1 DEF ResultSound
    <3>2. RunSound(q)'
      BY <1>4, <1>7, <1>11, <1>12, <1>13, <2>1 DEF RunSound
    <3> QED
      BY <3>1, <3>2
  <2>2. CASE q # r
    BY <1>11, <1>15, <2>2, ResultStays, RunsStay
  <2> QED
    BY <2>1, <2>2
<1>17. TablesShaped'
  BY <1>8, <1>9 DEF TablesShaped
<1>18. EvidenceOnFile'
  BY <1>8, <1>9, <1>15, EvidenceStays
<1>19. \A q \in Assessed : SameResult(q)
  <2>1. r \notin Assessed
    BY <1>8, <1>10 DEF RunSound, Assessed
  <2> QED
    BY <1>11, <2>1 DEF SameResult, Assessed
<1>20. TimelineShowsTheCase'
  BY <1>8, <1>19, TimelinesStay
<1> QED
  BY <1>16, <1>17, <1>18, <1>20

LEMMA StoreDetectionsKeeps ==
    ASSUME IInv, NEW r \in Run, StoreDetections(r)
    PROVE  IInv'
<1> USE DEF IInv
<1>1. PICK res : res = [result[r] EXCEPT !.at = "stored"]
  OBVIOUS
<1>2. PICK new : new = Kept(r)
  OBVIOUS
<1>3. PICK ids : ids = {DetectionId(d) : d \in new}
  OBVIOUS
<1>4. /\ result[r].at = "assessed" /\ run[r].at # "dead"
      /\ detections' = {d \in detections : DetectionId(d) \notin ids} \cup new
      /\ result' = [result EXCEPT ![r] = res]
      /\ UNCHANGED <<events, cited, entity_days, run, cases>>
  BY <1>1, <1>2, <1>3 DEF StoreDetections, Here, Queue!RunAt, queueVars
<1>5. DOMAIN result = Run /\ ResultSound(r) /\ RunSound(r)
  BY DEF TablesShaped
<1>6. result'[r] = res /\ \A q \in Run \ {r} : result'[q] = result[q]
  BY <1>4, <1>5
<1>7. /\ DOMAIN res = DOMAIN NoResult
      /\ res.at = "stored" /\ res.events = result[r].events /\ res.muted = result[r].muted
      /\ res.learned = result[r].learned /\ res.found = result[r].found
      /\ res.cases = result[r].cases /\ res.unsaved = result[r].unsaved
  BY <1>1, <1>5 DEF ResultSound, NoResult
<1>8. \A q \in Assessed : SameResult(q)
  BY <1>4, <1>6, <1>7 DEF SameResult, Assessed
<1>9. ids \subseteq Filed' /\ Filed \subseteq Filed'
  <2>1. ids \subseteq Filed'
    BY <1>3, <1>4 DEF Filed
  <2>2. ASSUME NEW d \in detections
        PROVE  DetectionId(d) \in Filed'
    <3>1. CASE DetectionId(d) \in ids
      BY <2>1, <3>1
    <3>2. CASE DetectionId(d) \notin ids
      <4>1. d \in detections'
        BY <1>4, <3>2
      <4> QED
        BY <4>1 DEF Filed
    <3> QED
      BY <3>1, <3>2
  <2> QED
    BY <2>1, <2>2 DEF Filed
<1>10. SameResult(r) /\ Computed(r)
  BY <1>4, <1>5, <1>8 DEF ResultSound, Assessed
<1>11. Computed(r)'
  BY <1>10, ComputedStays
<1>12. Kept(r)' = Kept(r)
  BY <1>10 DEF Kept, SameResult
<1>13. ASSUME NEW q \in Run
       PROVE  (ResultSound(q) /\ RunSound(q))'
  <2>1. CASE q = r
    <3>1. ResultSound(q)'
      BY <1>2, <1>3, <1>5, <1>6, <1>7, <1>9, <1>11, <1>12, <2>1 DEF ResultSound
    <3>2. RunSound(q)'
      BY <1>4, <1>5, <1>6, <1>7, <2>1 DEF RunSound
    <3> QED
      BY <3>1, <3>2
  <2>2. CASE q # r
    BY <1>4, <1>6, <1>9, <2>2, ResultStays, RunsStay
  <2> QED
    BY <2>1, <2>2
<1>14. TablesShaped'
  BY <1>4 DEF TablesShaped
<1>15. EvidenceOnFile'
  BY <1>4, <1>9, EvidenceStays
<1>16. TimelineShowsTheCase'
  BY <1>4, <1>8, TimelinesStay
<1> QED
  BY <1>13, <1>14, <1>15, <1>16

\* A row that a run writes is one of its cases, which it filed the evidence of;
\* a row it leaves is as it was.
LEMMA UpsertCasesKeeps ==
    ASSUME IInv, NEW r \in Run, UpsertCases(r)
    PROVE  IInv'
<1> USE DEF IInv
<1> DEFINE ids == Queue!Ids(run[r].cases)
           written(c) == CHOOSE k \in result[r].cases : k.id = c
<1>1. PICK s : s = IF run'[r].at = "dead" THEN {} ELSE {k.id.actor : k \in result[r].cases}
  OBVIOUS
<1>2. PICK res : res = [result[r] EXCEPT !.unsaved = s]
  OBVIOUS
<1>3. /\ run[r].at = "upsert"
      /\ result' = [result EXCEPT ![r] = res]
      /\ UNCHANGED <<events, detections, entity_days>>
  BY <1>1, <1>2 DEF UpsertCases, Queue!Upsert, Queue!RunAt
<1>4. \A c \in Queue!CaseId :
          cited'[c] = IF run'[r].at # "dead" /\ cases'[c].status # None
                         /\ \E k \in result[r].cases : k.id = c
                      THEN written(c).detection_ids
                      ELSE cited[c]
  BY DEF UpsertCases
<1>5. PICK gone :
          /\ run' = [run EXCEPT ![r] = gone]
          /\ DOMAIN gone = DOMAIN Queue!Fresh
          /\ gone.at \in {"dead", "done", "notify"}
          /\ gone.at = "dead" => UNCHANGED cases
          /\ \A c \in Queue!CaseId : c \notin ids => cases'[c] = cases[c]
  <2> DEFINE new == {c \in ids : ~Queue!Exists(r, c)}
  <2>1. CASE \E c \in new : Queue!Present(c)
    <3>1. PICK gone : gone = [Queue!Fresh EXCEPT !.at = "dead"]
      OBVIOUS
    <3>2. run' = [run EXCEPT ![r] = gone] /\ UNCHANGED cases
      BY <2>1, <3>1 DEF UpsertCases, Queue!Upsert
    <3>3. DOMAIN gone = DOMAIN Queue!Fresh /\ gone.at = "dead"
      BY <3>1 DEF Queue!Fresh
    <3> QED
      BY <3>2, <3>3
  <2>2. CASE ~\E c \in new : Queue!Present(c)
    <3>1. PICK gone : gone = Queue!AfterUpsert(new)
      OBVIOUS
    <3>2. /\ run' = [run EXCEPT ![r] = gone]
          /\ cases' = [c \in Queue!CaseId |-> IF c \in ids THEN Queue!WrittenRow(r, c) ELSE cases[c]]
      BY <2>2, <3>1 DEF UpsertCases, Queue!Upsert
    <3>3. DOMAIN gone = DOMAIN Queue!Fresh /\ gone.at \in {"done", "notify"}
      BY <3>1 DEF Queue!AfterUpsert, Queue!Fresh
    <3> QED
      BY <3>2, <3>3
  <2> QED
    BY <2>1, <2>2
<1>6. DOMAIN run = Run /\ DOMAIN result = Run /\ ResultSound(r) /\ RunSound(r)
  BY DEF TablesShaped
<1>7. /\ run'[r] = gone /\ result'[r] = res
      /\ \A q \in Run \ {r} : run'[q] = run[q] /\ result'[q] = result[q]
  BY <1>3, <1>5, <1>6
<1>8. /\ DOMAIN res = DOMAIN NoResult
      /\ res.at = result[r].at /\ res.events = result[r].events /\ res.muted = result[r].muted
      /\ res.learned = result[r].learned /\ res.found = result[r].found
      /\ res.cases = result[r].cases /\ res.unsaved = s
  BY <1>2, <1>6 DEF ResultSound, NoResult
<1>9. \A q \in Assessed : SameResult(q)
  BY <1>7, <1>8 DEF SameResult, Assessed
<1>10. /\ result[r].at = "stored" /\ Computed(r)
       /\ run[r].cases = {QueueRow(c) : c \in result[r].cases}
  BY <1>3, <1>6 DEF ResultSound, RunSound
<1>11. SameResult(r)
  BY <1>9, <1>10 DEF Assessed
<1>12. Computed(r)' /\ Kept(r)' = Kept(r)
  BY <1>10, <1>11, ComputedStays DEF Kept, SameResult
<1>13. Filed' = Filed
  BY <1>3 DEF Filed
<1>14. ASSUME NEW q \in Run
       PROVE  (ResultSound(q) /\ RunSound(q))'
  <2>1. CASE q = r
    <3>1. s \subseteq {k.id.actor : k \in res.cases}
      BY <1>1, <1>8
    <3>2. ResultSound(q)'
      BY <1>6, <1>7, <1>8, <1>10, <1>12, <1>13, <2>1, <3>1 DEF ResultSound
    <3>3. RunSound(q)'
      BY <1>5, <1>7, <2>1 DEF RunSound
    <3> QED
      BY <3>2, <3>3
  <2>2. CASE q # r
    BY <1>7, <1>13, <2>2, ResultStays, RunsStay
  <2> QED
    BY <2>1, <2>2
<1>15. TablesShaped'
  BY <1>3, <1>5 DEF TablesShaped
<1>16. ASSUME NEW c \in Queue!CaseId, cases'[c].status # None
       PROVE  cited'[c] # {} /\ cited'[c] \subseteq Filed
  <2>1. c \in ids <=> \E k \in result[r].cases : k.id = c
    <3>1. \A k : QueueRow(k).id = k.id
      BY DEF QueueRow
    <3>2. ids = {row.id : row \in {QueueRow(k) : k \in result[r].cases}}
      BY <1>10 DEF Queue!Ids
    <3> QED
      BY <3>1, <3>2
  <2>2. CASE gone.at # "dead" /\ c \in ids
    <3>1. written(c) \in result[r].cases /\ cited'[c] = written(c).detection_ids
      BY <1>4, <1>7, <1>16, <2>1, <2>2
    <3>2. PICK k \in result[r].cases : cited'[c] = k.detection_ids
      BY <3>1
    <3>3. k.detection_ids # {} /\ k.detection_ids \subseteq {DetectionId(d) : d \in Kept(r)}
      BY <1>10, CaseRestsOnFindings DEF Computed
    <3>4. {DetectionId(d) : d \in Kept(r)} \subseteq Filed
      BY <1>6, <1>10 DEF ResultSound
    <3> QED
      BY <3>2, <3>3, <3>4
  <2>3. CASE gone.at = "dead" \/ c \notin ids
    <3>1. cases'[c] = cases[c] /\ cited'[c] = cited[c]
      BY <1>4, <1>5, <1>7, <2>1, <2>3
    <3> QED
      BY <1>16, <3>1 DEF EvidenceOnFile, Filed
  <2> QED
    BY <2>2, <2>3
<1>17. EvidenceOnFile'
  BY <1>3, <1>16 DEF EvidenceOnFile, Filed
<1>18. TimelineShowsTheCase'
  BY <1>3, <1>9, TimelinesStay
<1> QED
  BY <1>14, <1>15, <1>17, <1>18

\* The timeline of a person with a case shows every day of the log, and marks
\* every day that something was found on.
LEMMA TimelineIsComplete ==
    ASSUME NEW r \in Run, Computed(r), NEW a \in Actor, NEW d \in OwnKept(r, a)
    PROVE  \E row \in Timeline(r, a) : row.day = d.day /\ row.scored
<1> DEFINE log == result[r].events
           from == score_from(log)
<1>1. log \in Log /\ from \in Int
  BY LastEvent DEF Computed
<1>2. d \in Detections(log, from) /\ d.actor = a
  BY DEF Computed, OwnKept, Kept, Unsuppressed
<1>3. PICK e \in Scoring(log, from) : d.actor = e.actor /\ d.day = DayOf(e.at)
  BY <1>2, FoundInTheWindow
<1>4. e \in log /\ e.at >= from /\ e.at \in Int
  BY <1>1, <1>3 DEF Scoring, Log, Event
<1>5. DayOf(e.at) >= DayOf(from)
  BY <1>1, <1>4, DaysInOrder
<1> DEFINE f == DailyFeatures(e.actor, DayOf(e.at), EventsOf(log, e.actor, DayOf(e.at)))
<1>6. f \in extract_daily_features(log) /\ f.actor = a /\ f.day = d.day
  BY <1>2, <1>3, <1>4 DEF extract_daily_features, DailyFeatures
<1> DEFINE row == [day |-> f.day, values |-> f.values, scored |-> f.day >= DayOf(from)]
<1>7. row \in Timeline(r, a)
  BY <1>6 DEF Timeline
<1>8. row.day = d.day /\ row.scored
  <2> HIDE DEF f, from
  <2> QED
    BY <1>3, <1>5, <1>6
<1> QED
  BY <1>7, <1>8

LEMMA SaveEntityDaysKeeps ==
    ASSUME IInv, NEW r \in Run, NEW a \in Actor, SaveEntityDays(r, a)
    PROVE  IInv'
<1> USE DEF IInv
<1>1. PICK left : left = result[r].unsaved \ {a}
  OBVIOUS
<1>2. PICK res : res = [result[r] EXCEPT !.unsaved = left]
  OBVIOUS
<1>3. PICK shown : shown = Timeline(r, a)
  OBVIOUS
<1>4. /\ a \in result[r].unsaved
      /\ entity_days' = [entity_days EXCEPT ![a] = shown]
      /\ result' = [result EXCEPT ![r] = res]
      /\ UNCHANGED <<events, detections, cited, run, cases>>
  BY <1>1, <1>2, <1>3 DEF SaveEntityDays, queueVars
<1>5. /\ DOMAIN result = Run /\ DOMAIN entity_days = Actor
      /\ ResultSound(r) /\ RunSound(r)
  BY DEF TablesShaped
<1>6. result'[r] = res /\ \A q \in Run \ {r} : result'[q] = result[q]
  BY <1>4, <1>5
<1>7. /\ DOMAIN res = DOMAIN NoResult
      /\ res.at = result[r].at /\ res.events = result[r].events /\ res.muted = result[r].muted
      /\ res.learned = result[r].learned /\ res.found = result[r].found
      /\ res.cases = result[r].cases /\ res.unsaved = left
  BY <1>2, <1>5 DEF ResultSound, NoResult
<1>8. result[r].at \in {"assessed", "stored"} /\ Computed(r)
  BY <1>4, <1>5 DEF ResultSound
<1>9. \A q \in Run : SameResult(q)
  BY <1>6, <1>7 DEF SameResult
<1>10. Computed(r)' /\ Kept(r)' = Kept(r)
  BY <1>8, <1>9, ComputedStays DEF Kept, SameResult
<1>11. Filed' = Filed
  BY <1>4 DEF Filed
<1>12. ASSUME NEW q \in Run
       PROVE  (ResultSound(q) /\ RunSound(q))'
  <2>1. CASE q = r
    <3>1. left \subseteq {k.id.actor : k \in res.cases}
      BY <1>1, <1>5, <1>7 DEF ResultSound
    <3>2. ResultSound(q)'
      BY <1>5, <1>6, <1>7, <1>8, <1>10, <1>11, <2>1, <3>1 DEF ResultSound
    <3>3. RunSound(q)'
      BY <1>4, <1>5, <1>6, <1>7, <2>1 DEF RunSound
    <3> QED
      BY <3>2, <3>3
  <2>2. CASE q # r
    BY <1>4, <1>6, <1>11, <2>2, ResultStays, RunsStay
  <2> QED
    BY <2>1, <2>2
<1>13. TablesShaped'
  BY <1>4 DEF TablesShaped
<1>14. EvidenceOnFile'
  BY <1>4, <1>11, EvidenceStays
<1>15. ASSUME NEW b \in Actor, entity_days'[b] # {}
       PROVE  \E q \in Assessed' : \E k \in result'[q].cases :
                  /\ k.id.actor = b
                  /\ entity_days'[b] = Timeline(q, b)'
                  /\ \A d \in OwnKept(q, b)' :
                         \E row \in entity_days'[b] : row.day = d.day /\ row.scored
  <2>1. \A q \in Run : /\ Timeline(q, b)' = Timeline(q, b)
                       /\ OwnKept(q, b)' = OwnKept(q, b)
                       /\ result'[q].cases = result[q].cases
    BY <1>9 DEF Timeline, OwnKept, Kept, SameResult
  <2>2. Assessed' = Assessed
    BY <1>9 DEF Assessed, SameResult
  <2>3. CASE b = a
    <3>1. PICK k \in result[r].cases : k.id.actor = a
      BY <1>4, <1>5 DEF ResultSound
    <3>2. entity_days'[b] = Timeline(r, b)
      BY <1>3, <1>4, <1>5, <2>3
    <3>3. \A d \in OwnKept(r, b) : \E row \in Timeline(r, b) : row.day = d.day /\ row.scored
      BY <1>8, <2>3, TimelineIsComplete
    <3>4. r \in Assessed
      BY <1>8 DEF Assessed
    <3> QED
      BY <2>1, <2>2, <2>3, <3>1, <3>2, <3>3, <3>4
  <2>4. CASE b # a
    <3>1. entity_days'[b] = entity_days[b]
      BY <1>4, <1>5, <2>4
    <3>2. PICK q \in Assessed : \E k \in result[q].cases :
              /\ k.id.actor = b
              /\ entity_days[b] = Timeline(q, b)
              /\ \A d \in OwnKept(q, b) :
                     \E row \in entity_days[b] : row.day = d.day /\ row.scored
      BY <1>15, <3>1 DEF TimelineShowsTheCase
    <3>3. q \in Run
      BY DEF Assessed
    <3> QED
      BY <2>1, <2>2, <3>1, <3>2, <3>3
  <2> QED
    BY <2>3, <2>4
<1>16. TimelineShowsTheCase'
  BY <1>15 DEF TimelineShowsTheCase
<1> QED
  BY <1>12, <1>13, <1>14, <1>16

LEMMA Inductive == IInv /\ [Next]_vars => IInv'
<1> SUFFICES ASSUME IInv, [Next]_vars
             PROVE  IInv'
  OBVIOUS
<1>1. ASSUME NEW r \in Run, ReadSuppressions(r)
      PROVE  IInv'
  BY <1>1, ReadSuppressionsKeeps
<1>2. ASSUME NEW r \in Run, Assess(r)
      PROVE  IInv'
  BY <1>2, AssessKeeps
<1>3. ASSUME NEW r \in Run, StoreDetections(r)
      PROVE  IInv'
  BY <1>3, StoreDetectionsKeeps
<1>4. ASSUME NEW r \in Run, LookUpFirst(r)
      PROVE  IInv'
  BY <1>4, LookUpFirstKeeps
<1>5. ASSUME NEW r \in Run, UpsertCases(r)
      PROVE  IInv'
  BY <1>5, UpsertCasesKeeps
<1>6. ASSUME NEW r \in Run, NEW a \in Actor, SaveEntityDays(r, a)
      PROVE  IInv'
  BY <1>6, SaveEntityDaysKeeps
<1>7. ASSUME NEW r \in Run, RunDies(r)
      PROVE  IInv'
  BY <1>7, RunDiesKeeps
<1>8. ASSUME NEW t \in Thread, Analyst(t)
      PROVE  IInv'
  BY <1>8, AnalystKeeps
<1>9. ASSUME NEW e \in NewEvents, Arrives(e)
      PROVE  IInv'
  BY <1>9, ArrivesKeeps
<1>10. CASE UNCHANGED vars
  <2>1. /\ UNCHANGED <<detections, cited, entity_days, result, cases, run>>
        /\ events' = events
    BY <1>10 DEF vars, queueVars
  <2>2. events' \in SUBSET Event /\ IsFiniteSet(events')
    BY <2>1 DEF IInv, TablesShaped
  <2> QED
    BY <2>1, <2>2, OthersKeep
<1>11. ASSUME NEW r \in Run, LoadEvents(r)
       PROVE  IInv'
  BY <1>11, LoadEventsKeeps
<1> QED
  BY <1>1, <1>2, <1>3, <1>4, <1>5, <1>6, <1>7, <1>8, <1>9, <1>10, <1>11 DEF Next

LEMMA Invariant == Spec => []IInv
BY InitSound, Inductive, PTL DEF Spec

----------------------------------------------------------------------------
(* The theorems.                                                           *)

\* storage.py keeps a case's evidence as ids of rows of another table
\* (EvidenceOnFile): the rows are there whenever the case is.
THEOREM EvidenceIsOnFile == Spec => []EvidenceOnFile
<1>1. IInv => EvidenceOnFile
  BY DEF IInv
<1> QED
  BY <1>1, Invariant, PTL

\* pipeline.py:157 (TimelineShowsTheCase): the timeline shown of a person is of one
\* run that has a case of that person, complete, with the days of the case scored.
THEOREM TimelinesShowTheirCase == Spec => []TimelineShowsTheCase
<1>1. IInv => TimelineShowsTheCase
  BY DEF IInv
<1> QED
  BY <1>1, Invariant, PTL

\* pipeline.py:7-11 (JudgedByThePast): what is found about a day would be found
\* without anything else that happened in the window.
THEOREM DaysJudgedByThePast == Spec => []JudgedByThePast
<1>1. ASSUME IInv
      PROVE  JudgedByThePast
  <2>1. ASSUME NEW r \in JustAssessed, NEW d \in result[r].found
        PROVE  LET log == result[r].events
                   from == score_from(log)
               IN  d \in Detections(Before(log, from) \cup
                             {e \in EventsOf(log, d.actor, d.day) : e.at >= from}, from)
    <3>1. Computed(r)
      BY <1>1 DEF IInv, ResultSound, JustAssessed, Here
    <3>2. /\ result[r].events \in Log
          /\ score_from(result[r].events) \in Int
          /\ d \in Detections(result[r].events, score_from(result[r].events))
      BY <3>1, <2>1, LastEvent DEF Computed
    <3> QED
      BY <3>2, FoundAlone DEF Alone
  <2> QED
    BY <2>1 DEF JudgedByThePast
<1> QED
  BY <1>1, Invariant, PTL

----------------------------------------------------------------------------
(* What is found, and what a queue is made of, is well-formed.             *)

AllEvents == (UNION Histories) \cup NewEvents

\* A row of the table of detections, of a day that something happened on.
FoundRow == [actor : Actor, day : Day, engine : {"rules", "statistical", "ml"},
             name : Name, base_weight : Nat, confidence : 0..100,
             context : SUBSET {"off_hours", "restricted_data"}]

\* No two of these have the same detection_id.
IdsDiffer(found) == \A d, e \in found : DetectionId(d) = DetectionId(e) => d = e

LEMMA DaysAreNatural == Day \subseteq Nat
<1>1. \A e \in AllEvents : e.at \in Nat
  BY PipelineAssumption DEF Event, AllEvents
<1>2. \A t \in Nat : DayOf(t) \in Nat
  BY BaselineAssumption DEF DayOf
<1> QED
  BY <1>1, <1>2 DEF Day, AllEvents

\* There are finitely many names: those of the rules, and of the features.
LEMMA NamesAreFinite == IsFiniteSet(Name)
<1>1. IsFiniteSet({r.id : r \in Rules})
  <2> DEFINE id == [r \in Rules |-> r.id]
  <2>1. {r.id : r \in Rules} = {id[r] : r \in Rules}
    OBVIOUS
  <2>2. IsFiniteSet(Rules)
    BY DetectionAssumption
  <2> HIDE DEF id
  <2> QED
    BY <2>1, <2>2, ImageIsFinite
<1>5. IsFiniteSet(FEATURE_NAMES) /\ IsFiniteSet({"file_read_count", "total_bytes"})
  BY FourIsFinite DEF FEATURE_NAMES
<1>2. IsFiniteSet({"anomalous_" \o n : n \in FEATURE_NAMES})
  <2> DEFINE anomalous == [n \in FEATURE_NAMES |-> "anomalous_" \o n]
  <2>1. {"anomalous_" \o n : n \in FEATURE_NAMES} = {anomalous[n] : n \in FEATURE_NAMES}
    OBVIOUS
  <2> HIDE DEF anomalous
  <2> QED
    BY <1>5, <2>1, ImageIsFinite
<1>3. IsFiniteSet({"absolute_" \o n : n \in {"file_read_count", "total_bytes"}})
  <2> DEFINE pair == {"file_read_count", "total_bytes"}
             absolute == [n \in pair |-> "absolute_" \o n]
  <2>1. {"absolute_" \o n : n \in pair} = {absolute[n] : n \in pair}
    OBVIOUS
  <2>2. IsFiniteSet(pair)
    BY <1>5
  <2> HIDE DEF absolute, pair
  <2>3. IsFiniteSet({"absolute_" \o n : n \in pair})
    BY <2>1, <2>2, ImageIsFinite
  <2> QED
    BY <2>3 DEF pair
<1>4. IsFiniteSet({"behavioural_anomaly"})
  BY FS_Singleton
<1> QED
  BY <1>1, <1>2, <1>3, <1>4, FS_Union DEF Name

\* What the engines find about a day of one person.
LEMMA FoundOnADay ==
    ASSUME ScoresInHundredths, NEW f, NEW day_events, NEW fitted, NEW training
    PROVE  /\ IsFiniteSet(DayDetections(f, day_events, fitted, training))
           /\ \A d \in DayDetections(f, day_events, fitted, training) :
                  WellFormed(d) /\ d.name \in Name
           /\ IdsDiffer(DayDetections(f, day_events, fitted, training))
<1> DEFINE profile == profile_for(fitted, f.actor)
           kind == baseline_kind(fitted, f.actor)
           all == DayDetections(f, day_events, fitted, training)
           R == RuleDetections(f, day_events)
           S == StatisticalDetections(f, profile, kind)
           M == MLDetections(f, kind, training)
<1>1. all = R \cup (IF DaysObserved(profile) < 1 THEN {} ELSE S \cup M)
  BY DEF DayDetections
<1>2. IsFiniteSet(R) /\ IsFiniteSet(S) /\ IsFiniteSet(M)
  BY RuleDetectionsWellFormed, StatisticalDetectionsWellFormed, MLDetectionsWellFormed
<1>3. /\ \A d \in R : WellFormed(d) /\ d.name \in Name
      /\ \A d \in S : WellFormed(d) /\ d.name \in Name
      /\ \A d \in M : WellFormed(d) /\ d.name \in Name
  BY RuleDetectionsWellFormed, StatisticalDetectionsWellFormed, MLDetectionsWellFormed
     DEF Name, StatisticalName
<1>4. /\ \A d, e \in R : d.name = e.name => d = e
      /\ \A d \in R : d.engine = "rules"
      /\ \A d, e \in S : d.name = e.name => d = e
      /\ \A d \in S : d.engine = "statistical"
      /\ \A d, e \in M : d = e
      /\ \A d \in M : d.engine = "ml"
  BY NamesTellApart
<1> HIDE DEF all, R, S, M
<1>5. IsFiniteSet(all)
  <2>1. IsFiniteSet(R \cup (S \cup M))
    BY <1>2, FS_Union
  <2>2. all \subseteq R \cup (S \cup M)
    BY <1>1
  <2> QED
    BY <2>1, <2>2, FS_Subset
<1>6. \A d \in all : d \in R \/ d \in S \/ d \in M
  BY <1>1
<1>7. IdsDiffer(all)
  <2> SUFFICES ASSUME NEW d \in all, NEW e \in all, DetectionId(d) = DetectionId(e)
               PROVE  d = e
    BY DEF IdsDiffer
  <2>1. d.name = e.name /\ d.engine = e.engine
    BY DEF DetectionId
  <2> QED
    BY <1>4, <1>6, <2>1
<1> QED
  BY <1>3, <1>5, <1>6, <1>7 DEF all

LEMMA DetectionsAreRows ==
    ASSUME ScoresInHundredths, NEW log \in Log, log \subseteq AllEvents, NEW from \in Int
    PROVE  /\ IsFiniteSet(Detections(log, from))
           /\ Detections(log, from) \subseteq FoundRow
           /\ IdsDiffer(Detections(log, from))
<1> DEFINE scoring == Scoring(log, from)
           features == extract_daily_features(scoring)
           on(f) == DayDetections(f, EventsOf(scoring, f.actor, f.day), Fit(log, from),
                                  extract_daily_features(Before(log, from)))
           all == {on(f) : f \in features}
<1>1. Detections(log, from) = UNION all
  BY DEF Detections, Scoring
<1>2. /\ \A f : IsFiniteSet(on(f)) /\ IdsDiffer(on(f))
      /\ \A f : \A d \in on(f) : WellFormed(d) /\ d.name \in Name
                                 /\ d.actor = f.actor /\ d.day = f.day
  BY FoundOnADay, FoundInItsDay
<1>3. IsFiniteSet(scoring)
  BY FS_Subset DEF Scoring, Log
<1> DEFINE day(e) == DailyFeatures(e.actor, DayOf(e.at), EventsOf(scoring, e.actor, DayOf(e.at)))
<1>4. features = {day(e) : e \in scoring}
  BY DEF extract_daily_features
<1>5. \A e : day(e).actor = e.actor /\ day(e).day = DayOf(e.at)
  BY DEF DailyFeatures
<1>6. \A e \in scoring : e.actor \in Actor /\ DayOf(e.at) \in Day
  BY PipelineAssumption DEF Scoring, Log, Event, Day, AllEvents
<1>7. \A f \in features : f.actor \in Actor /\ f.day \in Day
  <2> HIDE DEF day, scoring
  <2> QED
    BY <1>4, <1>5, <1>6
<1>8. \A f, g \in features : f.actor = g.actor /\ f.day = g.day => f = g
  <2> SUFFICES ASSUME NEW f \in features, NEW g \in features,
                      f.actor = g.actor, f.day = g.day
               PROVE  f = g
    OBVIOUS
  <2>1. PICK e \in scoring : f = day(e)
    BY <1>4
  <2>2. PICK h \in scoring : g = day(h)
    BY <1>4
  <2>3. e.actor = h.actor /\ DayOf(e.at) = DayOf(h.at)
    BY <1>5, <2>1, <2>2
  <2> QED
    BY <2>1, <2>2, <2>3
<1>9. IsFiniteSet(features)
  <2> DEFINE g == [e \in scoring |-> day(e)]
  <2>1. features = {g[e] : e \in scoring}
    BY <1>4
  <2> HIDE DEF g, features, scoring
  <2> QED
    BY <1>3, <2>1, ImageIsFinite
<1> HIDE DEF on, features
<1>10. IsFiniteSet(UNION all)
  <2> DEFINE g == [f \in features |-> on(f)]
  <2>1. all = {g[f] : f \in features}
    OBVIOUS
  <2>2. IsFiniteSet(all)
    <3> HIDE DEF g, all
    <3> QED
      BY <1>9, <2>1, ImageIsFinite
  <2>3. \A s \in all : IsFiniteSet(s)
    BY <1>2
  <2> HIDE DEF all
  <2> QED
    BY <2>2, <2>3, FS_UNION
<1>11. \A d \in Detections(log, from) : \E f \in features : d \in on(f)
  BY <1>1
<1>12. ASSUME NEW d \in Detections(log, from)
       PROVE  d \in FoundRow
  <2>1. PICK f \in features : d \in on(f)
    BY <1>11
  <2>2. WellFormed(d) /\ d.name \in Name /\ d.actor \in Actor /\ d.day \in Day
    BY <1>2, <1>7, <2>1
  <2> QED
    BY <2>2 DEF WellFormed, FoundRow
<1>13. ASSUME NEW d \in Detections(log, from), NEW e \in Detections(log, from),
              DetectionId(d) = DetectionId(e)
       PROVE  d = e
  <2>1. PICK f \in features : d \in on(f)
    BY <1>11
  <2>2. PICK g \in features : e \in on(g)
    BY <1>11
  <2>3. d.actor = e.actor /\ d.day = e.day
    BY <1>13 DEF DetectionId
  <2>4. f = g
    BY <1>2, <1>8, <2>1, <2>2, <2>3
  <2> QED
    BY <1>2, <1>13, <2>1, <2>2, <2>4 DEF IdsDiffer
<1> QED
  BY <1>1, <1>10, <1>12, <1>13 DEF IdsDiffer

\* "Feedback adjusts": a learned weight is between half and one and a half.
LEMMA LearnedInRange ==
    ASSUME IsFiniteSet(feedback), NEW n \in Name
    PROVE  LearnedWeights(feedback, Name)[n] \in 50..150
<1> DEFINE verdicts == Verdicts(feedback, n)
           right == {v \in verdicts : v.disposition # "false_positive"}
<1>1. IsFiniteSet(verdicts)
  BY FS_Subset DEF Verdicts
<1>2. IsFiniteSet(right) /\ Cardinality(right) <= Cardinality(verdicts)
  <2> HIDE DEF verdicts
  <2> QED
    BY <1>1, FS_Subset
<1>3. PICK most \in Nat : most = Cardinality(verdicts)
  BY <1>1, FS_CardinalityType
<1>4. PICK some \in Nat : some = Cardinality(right) /\ some <= most
  BY <1>2, <1>3, FS_CardinalityType
<1>5. LearnedWeights(feedback, Name)[n] =
          IF most >= MinVerdicts THEN 50 + ((100 * some) \div most) ELSE 100
  BY <1>3, <1>4 DEF LearnedWeights, LearnedWeight, Precision
<1>6. CASE most >= MinVerdicts
  <2>1. most > 0
    BY <1>6, RiskAssumption
  <2>2. PICK k \in Int, i \in 0..(most - 1) : k = (100 * some) \div most /\ 100 * some = most * k + i
    BY <2>1
  <2>3. k >= 0
    <3>1. k <= -1 => most * k <= -most
      BY <2>1
    <3> QED
      BY <2>1, <2>2, <3>1
  <2>4. k <= 100
    <3>1. k >= 101 => most * k >= most * 101
      BY <2>1
    <3> QED
      BY <1>4, <2>1, <2>2, <3>1
  <2>5. LearnedWeights(feedback, Name)[n] = 50 + k
    BY <1>5, <1>6, <2>2
  <2> QED
    BY <2>3, <2>4, <2>5
<1>7. CASE ~(most >= MinVerdicts)
  BY <1>5, <1>7
<1> QED
  BY <1>6, <1>7

\* What was found about a person can be told apart.
LEMMA OwnIsTellable ==
    ASSUME NEW found, found \subseteq FoundRow, IdsDiffer(found), NEW a
    PROVE  Tellable(Own(a, found))
<1>1. ASSUME NEW d \in Own(a, found), NEW e \in Own(a, found),
             d.name = e.name, d.day = e.day, d.engine = e.engine
      PROVE  d = e
  <2>1. d \in found /\ e \in found /\ DetectionId(d) = DetectionId(e)
    BY <1>1 DEF Own, DetectionId
  <2> QED
    BY <2>1 DEF IdsDiffer
<1>2. ASSUME NEW d \in Own(a, found)
      PROVE  d.day \in Int /\ d.engine \in {"rules", "statistical", "ml"}
  <2>1. d \in FoundRow
    BY DEF Own
  <2>2. d.day \in Day /\ d.engine \in {"rules", "statistical", "ml"}
    BY <2>1 DEF FoundRow
  <2>3. \A day \in Day : day \in Int
    BY DaysAreNatural
  <2> QED
    BY <2>2, <2>3
<1> QED
  BY <1>1, <1>2 DEF Tellable

NamesOf(found) == {d.name : d \in found}

Weighs(found, weight) == \A d \in found : weight[d] \in Nat

\* The names a case shows are among those of its findings: TopDetections of them,
\* or all if they are fewer, and never none.
LEMMA NamesOfACase ==
    ASSUME NEW found, IsFiniteSet(found), found \subseteq FoundRow, IdsDiffer(found),
           NEW own, \E a \in {d.actor : d \in found} : own = Own(a, found),
           NEW weight, Weighs(own, weight)
    PROVE  /\ TopNames(own, weight) \in (SUBSET Name) \ {{}}
           /\ TopNames(own, weight) \subseteq NamesOf(own)
           /\ Cardinality(TopNames(own, weight)) =
                  Min({TopDetections, Cardinality(NamesOf(own))})
<1>1. PICK top : top = TopNames(own, weight)
  OBVIOUS
<1>2. PICK names : names = NamesOf(own)
  OBVIOUS
<1>3. own \subseteq found /\ own # {}
  BY DEF Own
<1>4. IsFiniteSet(own)
  BY <1>3, FS_Subset
<1>6. \A d \in own : d.name \in Name
  BY <1>3 DEF FoundRow
<1>7. Listable(own)
  BY <1>6, OrderAssumption DEF Listable
<1>8. Tellable(own)
  BY OwnIsTellable
<1>9. /\ top \subseteq names /\ IsFiniteSet(names)
      /\ Cardinality(top) =
             IF TopDetections <= Cardinality(names) THEN TopDetections ELSE Cardinality(names)
  BY <1>1, <1>2, <1>4, <1>7, <1>8, TopNamesAre DEF NamesOf, Weighs
<1>10. names \in (SUBSET Name) \ {{}}
  BY <1>2, <1>3, <1>6 DEF NamesOf
<1>11. PICK n \in Nat : n = Cardinality(names) /\ n # 0
  BY <1>9, <1>10, FS_CardinalityType, FS_EmptySet
<1>12. PICK k \in Nat : k = TopDetections /\ k # 0
  BY RiskAssumption
<1>13. Min({k, n}) = IF k <= n THEN k ELSE n
  <2>1. /\ Min({k, n}) \in {k, n}
        /\ \A m \in {k, n} : Min({k, n}) <= m
    BY MinIsMember
  <2> QED
    BY <2>1
<1>14. Cardinality(top) # 0
  BY <1>9, <1>11, <1>12
<1> QED
  BY <1>1, <1>2, <1>9, <1>10, <1>11, <1>12, <1>13, <1>14, FS_EmptySet

\* The case of a person in the queue, as a row of table cases.
CaseRowOf(found) ==
    [id : Queue!CaseId, names : (SUBSET Name) \ {{}}, risk_score : CaseThreshold..MaxScore,
     detection_ids : SUBSET {DetectionId(d) : d \in found}]

LEMMA CasesAreRows ==
    ASSUME NEW found, found \subseteq FoundRow, IdsDiffer(found),
           NEW a \in {d.actor : d \in found}, NEW learned, Scorable(found, learned),
           NEW as_of \in Int,
           NEW c, c = MakeCase(a, {d \in found : d.actor = a}, learned, as_of),
           c.risk_score \in CaseThreshold..MaxScore
    PROVE  c \in CaseRowOf(found)
<1> DEFINE own == {d \in found : d.actor = a}
           days == {d.day : d \in own}
           names == TopNames(own, [d \in own |-> DetectionWeight(d, learned, as_of)])
           ids == {DetectionId(d) : d \in own}
<1>1. own # {} /\ own \subseteq found
  OBVIOUS
<1>2. PICK first \in Day : first = Min(days)
  <2>1. days \subseteq Day /\ days # {}
    BY <1>1 DEF FoundRow
  <2> HIDE DEF days
  <2>2. days \subseteq Nat
    BY <2>1, DaysAreNatural
  <2>3. Min(days) \in days
    BY <2>1, <2>2, MinIsMember
  <2> QED
    BY <2>1, <2>3
<1>3. names \in (SUBSET Name) \ {{}}
  <2>1. PICK weight : weight = [d \in own |-> DetectionWeight(d, learned, as_of)]
    OBVIOUS
  <2>2. names = TopNames(own, weight) /\ own = Own(a, found)
    BY <2>1 DEF Own
  <2>3. Weighs(own, weight)
    BY <1>1, <2>1, WeightIsNatural DEF Scorable, Weighs
  <2>4. IsFiniteSet(found)
    BY DEF Scorable
  <2> HIDE DEF own, names
  <2>5. TopNames(own, weight) \in (SUBSET Name) \ {{}}
    BY <2>2, <2>3, <2>4, NamesOfACase
  <2> QED
    BY <2>2, <2>5
<1>4. ids \in SUBSET {DetectionId(d) : d \in found}
  BY <1>1
<1>5. a \in Actor
  BY DEF FoundRow
<1>6. PICK score \in CaseThreshold..MaxScore : score = c.risk_score
  OBVIOUS
<1>7. c = [id |-> [actor |-> a, day |-> first], names |-> names,
           risk_score |-> score, detection_ids |-> ids]
  <2>1. PICK other : other = score_entity(a, own, learned, as_of)
    OBVIOUS
  <2>2. c = [id |-> [actor |-> a, day |-> first], names |-> names,
             risk_score |-> other, detection_ids |-> ids]
    BY <1>2, <2>1 DEF MakeCase
  <2> HIDE DEF names, ids
  <2>3. other = score
    BY <1>6, <2>2
  <2> QED
    BY <2>2, <2>3
<1>8. PICK id \in Queue!CaseId : id = [actor |-> a, day |-> first]
  BY <1>2, <1>5 DEF Queue!CaseId
<1>9. PICK filed : filed = {DetectionId(d) : d \in found}
  OBVIOUS
<1>10. ids \in SUBSET filed
  BY <1>4, <1>9
<1> HIDE DEF names, ids
<1>11. PICK some, scores, filings :
           some = (SUBSET Name) \ {{}} /\ scores = CaseThreshold..MaxScore /\ filings = SUBSET filed
  OBVIOUS
<1>12. names \in some /\ ids \in filings /\ score \in scores
  BY <1>3, <1>10, <1>11
<1>13. c = [id |-> id, names |-> names, risk_score |-> score, detection_ids |-> ids]
  BY <1>7, <1>8
<1>14. c \in [id : Queue!CaseId, names : some, risk_score : scores, detection_ids : filings]
  BY <1>12, <1>13
<1> QED
  BY <1>9, <1>11, <1>14 DEF CaseRowOf

\* Findings that were kept can be scored, with the weights learned.
LEMMA KeptIsScorable ==
    ASSUME NEW found, IsFiniteSet(found), found \subseteq FoundRow, NEW muted,
           IsFiniteSet(feedback)
    PROVE  /\ Unsuppressed(found, muted) \subseteq found
           /\ Scorable(Unsuppressed(found, muted), LearnedWeights(feedback, Name))
<1> DEFINE kept == Unsuppressed(found, muted)
           learned == LearnedWeights(feedback, Name)
<1>1. kept \subseteq found
  BY DEF Unsuppressed
<1> HIDE DEF kept, learned
<1>2. IsFiniteSet(kept)
  BY <1>1, FS_Subset
<1>3. ASSUME NEW d \in kept
      PROVE  WellFormed(d) /\ Weighable(d, learned) /\ d.actor \in Actor
  <2>1. d \in FoundRow
    BY <1>1
  <2>2. WellFormed(d) /\ d.actor \in Actor /\ d.name \in Name
    BY <2>1 DEF FoundRow, WellFormed
  <2>3. learned[d.name] \in 50..150
    BY <2>2, LearnedInRange DEF learned
  <2>4. learned[d.name] \in Nat
    BY <2>3
  <2>5. d.day \in Int
    <3>1. d.day \in Day
      BY <2>1 DEF FoundRow
    <3>2. \A day \in Day : day \in Int
      BY DaysAreNatural
    <3> QED
      BY <3>1, <3>2
  <2> QED
    BY <2>2, <2>4, <2>5 DEF Weighable, WellFormed
<1> QED
  BY <1>1, <1>2, <1>3 DEF Scorable, kept, learned

\* The queue of a run is one that CaseQueue allows for the findings of the run.
LEMMA QueueIsAllowed ==
    ASSUME NEW found, IsFiniteSet(found), found \subseteq FoundRow, IdsDiffer(found),
           NEW muted, IsFiniteSet(feedback), NEW as_of \in Int
    PROVE  LET queue == BuildCases(Unsuppressed(found, muted),
                                   LearnedWeights(feedback, Name), as_of)
               abstract == {[actor |-> d.actor, name |-> d.name, day |-> d.day] : d \in found}
           IN  /\ {QueueRow(c) : c \in queue} \in Queue!Queues(Queue!Unsuppressed(abstract, muted))
               /\ queue \subseteq CaseRowOf(found)
<1> DEFINE kept == Unsuppressed(found, muted)
           learned == LearnedWeights(feedback, Name)
           queue == BuildCases(kept, learned, as_of)
           chosen == {c.id.actor : c \in queue}
           own(a) == {d \in kept : d.actor = a}
           made(a) == MakeCase(a, own(a), learned, as_of)
           short(d) == [actor |-> d.actor, name |-> d.name, day |-> d.day]
           abstract == {short(d) : d \in found}
           left == Queue!Unsuppressed(abstract, muted)
<1>1. kept \subseteq found /\ Scorable(kept, learned)
  BY KeptIsScorable
<1>2. /\ chosen \subseteq {d.actor : d \in kept}
      /\ Cardinality(chosen) <= AlertBudget
      /\ queue = {made(a) : a \in chosen}
      /\ \A c \in queue : c.risk_score \in CaseThreshold..MaxScore
  <2> HIDE DEF kept, learned
  <2> QED
    BY <1>1, QueueOfCases
<1>3. queue \subseteq CaseRowOf(found)
  <2>1. ASSUME NEW c \in queue
        PROVE  c \in CaseRowOf(kept)
    <3>1. PICK a \in chosen : c = made(a)
      BY <1>2
    <3>2. a \in {d.actor : d \in kept} /\ c.risk_score \in CaseThreshold..MaxScore
      BY <1>2
    <3>3. kept \subseteq FoundRow /\ IdsDiffer(kept)
      BY <1>1 DEF IdsDiffer
    <3> HIDE DEF kept, learned, queue, chosen
    <3> QED
      BY <1>1, <3>1, <3>2, <3>3, CasesAreRows
  <2>2. CaseRowOf(kept) \subseteq CaseRowOf(found)
    BY <1>1 DEF CaseRowOf
  <2> QED
    BY <2>1, <2>2
<1>4. \A d : short(d).actor = d.actor /\ short(d).name = d.name /\ short(d).day = d.day
  OBVIOUS
<1>5. left = {short(d) : d \in kept}
  BY DEF Queue!Unsuppressed, Unsuppressed
<1> HIDE DEF short, left, kept
<1>6. ASSUME NEW a \in {d.actor : d \in kept}
      PROVE  QueueRow(made(a)) \in Queue!Made(a, left)
  <2>1. {f.day : f \in {x \in left : x.actor = a}} = {d.day : d \in own(a)}
    BY <1>4, <1>5
  <2>2. {f.name : f \in {x \in left : x.actor = a}} = {d.name : d \in own(a)}
    BY <1>4, <1>5
  <2>3. PICK day : day = Min({d.day : d \in own(a)})
    OBVIOUS
  <2>4. PICK names : names = {d.name : d \in own(a)}
    OBVIOUS
  <2>10. PICK weight : weight = [d \in own(a) |-> DetectionWeight(d, learned, as_of)]
    OBVIOUS
  <2>5. PICK top : top = TopNames(own(a), weight)
    OBVIOUS
  <2>6. QueueRow(made(a)) = [id |-> [actor |-> a, day |-> day], names |-> top]
    BY <2>3, <2>5, <2>10 DEF QueueRow, MakeCase
  <2>7. top \subseteq names /\ Cardinality(top) = Min({TopDetections, Cardinality(names)})
    <3>1. kept \subseteq FoundRow /\ IdsDiffer(kept)
      BY <1>1 DEF IdsDiffer
    <3>2. PICK mine : mine = own(a) /\ mine = Own(a, kept)
      BY DEF Own
    <3>3. mine \subseteq kept
      BY <3>2 DEF Own
    <3>4. Weighs(mine, weight)
      <4> HIDE DEF learned
      <4> QED
        BY <1>1, <2>10, <3>2, <3>3, WeightIsNatural DEF Scorable, Weighs
    <3>5. IsFiniteSet(kept)
      BY <1>1 DEF Scorable
    <3>6. names = NamesOf(mine) /\ top = TopNames(mine, weight)
      BY <2>4, <2>5, <3>2 DEF NamesOf
    <3> HIDE DEF own
    <3>7. /\ TopNames(mine, weight) \subseteq NamesOf(mine)
          /\ Cardinality(TopNames(mine, weight)) =
                 Min({TopDetections, Cardinality(NamesOf(mine))})
      BY <3>1, <3>2, <3>4, <3>5, NamesOfACase
    <3> QED
      BY <3>6, <3>7
  <2>8. top \in Queue!Tops(names)
    BY <2>7 DEF Queue!Tops, Queue!Min, Min, Queue!Cardinality, Cardinality
  <2>9. Queue!Made(a, left) =
            {[id |-> [actor |-> a, day |-> day], names |-> some] : some \in Queue!Tops(names)}
    <3>1. Queue!Min({f.day : f \in {x \in left : x.actor = a}}) = day
      BY <2>1, <2>3 DEF Queue!Min, Min
    <3> HIDE DEF own
    <3> QED
      BY <2>2, <2>4, <3>1 DEF Queue!Made
  <2> QED
    BY <2>6, <2>8, <2>9
<1>7. PICK rows : rows = {QueueRow(made(a)) : a \in chosen}
  OBVIOUS
<1>8. {QueueRow(c) : c \in queue} = rows
  <2> HIDE DEF made, chosen, queue
  <2> QED
    BY <1>2, <1>7
<1>9. rows \in Queue!Queues(left)
  <2>1. \A a : QueueRow(made(a)).id.actor = a
    BY DEF QueueRow, MakeCase
  <2> HIDE DEF made, chosen, queue
  <2>2. \A c, k \in rows : c.id.actor = k.id.actor => c = k
    BY <1>7, <2>1
  <2>3. ASSUME NEW row \in rows
        PROVE  \E f \in left : row \in Queue!Made(f.actor, left)
    <3>1. PICK a \in chosen : row = QueueRow(made(a))
      BY <1>7
    <3>2. PICK d \in kept : a = d.actor
      BY <1>2
    <3>3. short(d) \in left /\ short(d).actor = a
      BY <1>4, <1>5, <3>2
    <3>4. row \in Queue!Made(a, left)
      BY <1>6, <3>1, <3>2
    <3> QED
      BY <3>3, <3>4
  <2>4. rows \in SUBSET UNION {Queue!Made(f.actor, left) : f \in left}
    BY <2>3
  <2>5. Cardinality(rows) <= AlertBudget
    <3>1. IsFiniteSet(chosen)
      <4>1. IsFiniteSet({d.actor : d \in kept})
        <5> DEFINE g == [d \in kept |-> d.actor]
        <5>1. {d.actor : d \in kept} = {g[d] : d \in kept}
          OBVIOUS
        <5> HIDE DEF g
        <5> QED
          BY <1>1, <5>1, ImageIsFinite DEF Scorable
      <4> QED
        BY <1>2, <4>1, FS_Subset
    <3> DEFINE h == [a \in chosen |-> QueueRow(made(a))]
    <3>2. h \in Bijection(chosen, rows)
      <4>1. h \in Injection(chosen, rows)
        BY <1>7, <2>1 DEF Injection, IsInjective
      <4>2. h \in Surjection(chosen, rows)
        BY <1>7 DEF Surjection
      <4> QED
        BY <4>1, <4>2 DEF Bijection
    <3> HIDE DEF h
    <3>3. ExistsBijection(chosen, rows)
      BY <3>2 DEF ExistsBijection
    <3>4. Cardinality(rows) = Cardinality(chosen)
      BY <3>1, <3>3, FS_Bijection
    <3> QED
      BY <1>2, <3>4
  <2>6. Queue!Cardinality(rows) <= AlertBudget
    BY <2>5 DEF Queue!Cardinality, Cardinality
  <2> QED
    BY <2>2, <2>4, <2>6 DEF Queue!Queues
<1> QED
  BY <1>3, <1>8, <1>9 DEF left, kept, short

\* What a run computed is well-formed.
ResultTyped(r) ==
    /\ result[r].events \subseteq AllEvents
    /\ IsFiniteSet(result[r].found)
    /\ result[r].found \subseteq FoundRow /\ IdsDiffer(result[r].found)
    /\ result[r].cases \subseteq CaseRowOf(result[r].found)
    /\ \A n \in Name : result[r].learned[n] \in 50..150

\* So are the tables, and the verdicts are finitely many.
RowsTyped ==
    /\ events \subseteq AllEvents
    /\ IsFiniteSet(feedback)
    /\ detections \subseteq DetectionRow /\ IdsDiffer(detections)
    /\ \A r \in Run : ResultTyped(r)

LEMMA RowsTypedAtFirst == Init => RowsTyped
<1> SUFFICES ASSUME Init PROVE RowsTyped
  OBVIOUS
<1> USE DEF Init, Queue!Init
<1>1. events \subseteq AllEvents
  BY DEF AllEvents
<1>2. IsFiniteSet(feedback)
  BY FS_EmptySet
<1>3. detections \subseteq DetectionRow /\ IdsDiffer(detections)
  BY DEF IdsDiffer
<1>4. ASSUME NEW r \in Run
      PROVE  ResultTyped(r)
  <2>1. /\ result[r].events = {} /\ result[r].found = {} /\ result[r].cases = {}
        /\ result[r].learned = [n \in Name |-> 100]
    BY DEF NoResult
  <2>2. IsFiniteSet(result[r].found)
    BY <2>1, FS_EmptySet
  <2> QED
    BY <2>1, <2>2 DEF ResultTyped, IdsDiffer
<1> QED
  BY <1>1, <1>2, <1>3, <1>4 DEF RowsTyped

LEMMA ResultsStayTyped ==
    ASSUME NEW r \in Run, ResultTyped(r), SameResult(r)
    PROVE  ResultTyped(r)'
BY DEF ResultTyped, SameResult, CaseRowOf, Queue!CaseId

LEMMA RowsStayTyped ==
    ASSUME RowsTyped, \A r \in Run : SameResult(r),
           UNCHANGED <<events, feedback, detections>>
    PROVE  RowsTyped'
<1>1. \A r \in Run : ResultTyped(r)'
  BY ResultsStayTyped DEF RowsTyped
<1> QED
  BY <1>1 DEF RowsTyped, IdsDiffer

\* A step that only moves a result on, or ticks off a timeline that is saved.
LEMMA ResultsProgress ==
    ASSUME IInv, NEW r \in Run,
           \/ \E place \in {"assessed", "stored"} :
                  /\ result[r].at \in {"assessed", "stored"}
                  /\ result' = [result EXCEPT ![r].at = place]
           \/ \E left : result' = [result EXCEPT ![r].unsaved = left]
    PROVE  \A q \in Run : SameResult(q)
<1>1. DOMAIN result = Run /\ DOMAIN result[r] = DOMAIN NoResult
  BY DEF IInv, TablesShaped, ResultSound
<1>2. CASE \E place \in {"assessed", "stored"} :
               result[r].at \in {"assessed", "stored"} /\ result' = [result EXCEPT ![r].at = place]
  <2>1. PICK place \in {"assessed", "stored"} :
            result[r].at \in {"assessed", "stored"} /\ result' = [result EXCEPT ![r].at = place]
    BY <1>2
  <2>2. PICK res : res = [result[r] EXCEPT !.at = place]
    OBVIOUS
  <2>3. result'[r] = res /\ \A q \in Run \ {r} : result'[q] = result[q]
    BY <1>1, <2>1, <2>2
  <2>4. /\ res.at = place /\ res.events = result[r].events /\ res.muted = result[r].muted
        /\ res.learned = result[r].learned /\ res.found = result[r].found
        /\ res.cases = result[r].cases
    BY <1>1, <2>2 DEF NoResult
  <2> QED
    BY <2>1, <2>3, <2>4 DEF SameResult
<1>3. CASE \E left : result' = [result EXCEPT ![r].unsaved = left]
  <2>1. PICK left : result' = [result EXCEPT ![r].unsaved = left]
    BY <1>3
  <2>2. PICK res : res = [result[r] EXCEPT !.unsaved = left]
    OBVIOUS
  <2>3. result'[r] = res /\ \A q \in Run \ {r} : result'[q] = result[q]
    BY <1>1, <2>1, <2>2
  <2>4. /\ res.at = result[r].at /\ res.events = result[r].events
        /\ res.muted = result[r].muted
        /\ res.learned = result[r].learned /\ res.found = result[r].found
        /\ res.cases = result[r].cases
    BY <1>1, <2>2 DEF NoResult
  <2> QED
    BY <2>3, <2>4 DEF SameResult
<1> QED
  BY <1>2, <1>3

\* What a run computes, of the log and the verdicts that it reads.
LEMMA AssessedIsTyped ==
    ASSUME ScoresInHundredths, IInv, RowsTyped, NEW r \in Run, Assess(r)
    PROVE  /\ UNCHANGED <<events, feedback, detections>>
           /\ \A q \in Run \ {r} : SameResult(q)
           /\ result'[r].events \subseteq AllEvents
           /\ IsFiniteSet(result'[r].found)
           /\ result'[r].found \subseteq FoundRow /\ IdsDiffer(result'[r].found)
           /\ result'[r].cases \subseteq CaseRowOf(result'[r].found)
           /\ \A n \in Name : result'[r].learned[n] \in 50..150
           /\ Queue!RunAt(r, "assess")
           /\ \E queue \in Queue!Queues(Queue!Unsuppressed(AbstractFindings(r)', run[r].muted)) :
                  Queue!Enqueue(r, queue)
<1>0. PICK log : log = result[r].events
  OBVIOUS
<1>1. PICK found : found = Detections(log, score_from(log))
  OBVIOUS
<1>2. PICK learned : learned = LearnedWeights(feedback, Name)
  OBVIOUS
<1>3. PICK muted : muted = run[r].muted
  OBVIOUS
<1>4. PICK queue : queue = BuildCases(Unsuppressed(found, muted), learned, last_ts(log))
  OBVIOUS
<1>5. PICK rows : rows = {QueueRow(c) : c \in queue}
  OBVIOUS
<1>6. PICK skipped : skipped = Skipped(log, score_from(log))
  OBVIOUS
<1>7. PICK res : res = [at |-> "assessed", events |-> log, muted |-> muted,
                        learned |-> learned, found |-> found, cases |-> queue,
                        skipped |-> skipped, unsaved |-> {}]
  OBVIOUS
<1>8. /\ Queue!RunAt(r, "assess") /\ result[r].at = "loaded"
      /\ result' = [result EXCEPT ![r] = res]
      /\ Queue!Enqueue(r, rows)
      /\ UNCHANGED <<events, detections, cited, entity_days>>
  BY <1>0, <1>1, <1>2, <1>3, <1>4, <1>5, <1>6, <1>7 DEF Assess, Here
<1>9. UNCHANGED feedback
  BY <1>8 DEF Queue!Enqueue
<1>10. /\ result'[r].events = log /\ log \subseteq AllEvents
       /\ result'[r].found = found /\ result'[r].cases = queue /\ result'[r].learned = learned
       /\ \A q \in Run \ {r} : SameResult(q)
  <2>1. DOMAIN result = Run
    BY DEF IInv, TablesShaped
  <2>2. result'[r] = res /\ \A q \in Run \ {r} : result'[q] = result[q]
    BY <1>8, <2>1
  <2>3. log \subseteq AllEvents
    BY <1>0 DEF RowsTyped, ResultTyped
  <2> QED
    BY <1>7, <2>2, <2>3 DEF SameResult
<1>11. IsFiniteSet(found) /\ found \subseteq FoundRow /\ IdsDiffer(found)
  <2>1. log \in Log /\ log \subseteq AllEvents
    BY <1>0, <1>8 DEF IInv, ResultSound, RowsTyped, ResultTyped
  <2>2. score_from(log) \in Int
    BY <2>1, LastEvent
  <2> QED
    BY <1>1, <2>1, <2>2, DetectionsAreRows
<1>12. \A n \in Name : learned[n] \in 50..150
  BY <1>2, LearnedInRange DEF RowsTyped
<1>13. PICK abstract : abstract = {[actor |-> d.actor, name |-> d.name, day |-> d.day] : d \in found}
  OBVIOUS
<1>14. queue \subseteq CaseRowOf(found) /\ rows \in Queue!Queues(Queue!Unsuppressed(abstract, muted))
  <2>1. PICK as_of \in Int : as_of = last_ts(log)
    <3>1. log \in Log
      BY <1>0, <1>8 DEF IInv, ResultSound
    <3> QED
      BY <3>1, LastEvent
  <2>2. IsFiniteSet(feedback)
    BY DEF RowsTyped
  <2> QED
    BY <1>2, <1>4, <1>5, <1>11, <1>13, <2>1, <2>2, QueueIsAllowed
<1>15. AbstractFindings(r)' = abstract
  BY <1>10, <1>13 DEF AbstractFindings
<1> QED
  BY <1>3, <1>8, <1>9, <1>10, <1>11, <1>12, <1>14, <1>15

LEMMA RowsStep ==
    ASSUME ScoresInHundredths, IInv, RowsTyped, [Next]_vars
    PROVE  RowsTyped'
<1>1. ASSUME NEW r \in Run, ReadSuppressions(r) \/ LookUpFirst(r) \/ RunDies(r)
      PROVE  RowsTyped'
  <2>1. UNCHANGED <<events, detections, result, feedback>>
    BY <1>1 DEF ReadSuppressions, LookUpFirst, RunDies, Queue!ReadSuppressions,
       Queue!LookUpFirst, Queue!RunDies
  <2> QED
    BY <2>1, RowsStayTyped DEF SameResult
<1>2. ASSUME NEW r \in Run, Assess(r)
      PROVE  RowsTyped'
  <2>1. \A q \in Run \ {r} : ResultTyped(q)'
    BY <1>2, AssessedIsTyped, ResultsStayTyped DEF RowsTyped
  <2>2. ResultTyped(r)'
    <3>1. CaseRowOf(result[r].found)' = CaseRowOf(result'[r].found)
      BY DEF CaseRowOf, Queue!CaseId
    <3> QED
      BY <1>2, <3>1, AssessedIsTyped DEF ResultTyped, IdsDiffer
  <2> QED
    BY <1>2, <2>1, <2>2, AssessedIsTyped DEF RowsTyped, IdsDiffer
<1>3. ASSUME NEW r \in Run, StoreDetections(r)
      PROVE  RowsTyped'
  <2>1. PICK new : new = Kept(r)
    OBVIOUS
  <2>2. PICK ids : ids = {DetectionId(d) : d \in new}
    OBVIOUS
  <2>3. /\ result[r].at = "assessed"
        /\ detections' = {d \in detections : DetectionId(d) \notin ids} \cup new
        /\ result' = [result EXCEPT ![r].at = "stored"]
        /\ UNCHANGED <<events, feedback>>
    BY <1>3, <2>1, <2>2 DEF StoreDetections, Here, queueVars
  <2>4. \A q \in Run : SameResult(q)
    BY <2>3, ResultsProgress
  <2>5. \A q \in Run : ResultTyped(q)'
    BY <2>4, ResultsStayTyped DEF RowsTyped
  <2>6. new \subseteq result[r].found
    BY <2>1 DEF Kept, Unsuppressed
  <2>7. new \subseteq DetectionRow
    <3>1. FoundRow \subseteq DetectionRow
      BY DaysAreNatural DEF FoundRow, DetectionRow
    <3> QED
      BY <2>6, <3>1 DEF RowsTyped, ResultTyped
  <2>8. IdsDiffer(detections')
    BY <2>2, <2>3, <2>6 DEF RowsTyped, ResultTyped, IdsDiffer
  <2> QED
    BY <2>3, <2>5, <2>7, <2>8 DEF RowsTyped, IdsDiffer
<1>4. ASSUME NEW r \in Run, UpsertCases(r)
      PROVE  RowsTyped'
  <2>1. PICK left : result' = [result EXCEPT ![r].unsaved = left]
    BY <1>4 DEF UpsertCases
  <2>2. UNCHANGED <<events, feedback, detections>>
    BY <1>4 DEF UpsertCases, Queue!Upsert
  <2> QED
    BY <2>1, <2>2, ResultsProgress, RowsStayTyped
<1>5. ASSUME NEW r \in Run, NEW a \in Actor, SaveEntityDays(r, a)
      PROVE  RowsTyped'
  <2>1. PICK left : result' = [result EXCEPT ![r].unsaved = left]
    BY <1>5 DEF SaveEntityDays
  <2>2. UNCHANGED <<events, feedback, detections>>
    BY <1>5 DEF SaveEntityDays, queueVars
  <2> QED
    BY <2>1, <2>2, ResultsProgress, RowsStayTyped
<1>6. ASSUME NEW t \in Thread, Analyst(t)
      PROVE  RowsTyped'
  <2>1. UNCHANGED <<events, detections, result>>
    BY <1>6 DEF Analyst
  <2>2. UNCHANGED feedback \/ \E f : feedback' = feedback \cup {f}
    BY <1>6 DEF Analyst, Verdict, Queue!AskFeedback, Queue!ReadFindings,
       Queue!InsertFeedback, Queue!AddSuppression, Queue!Record
  <2>3. IsFiniteSet(feedback')
    BY <2>2, FS_AddElement DEF RowsTyped
  <2>4. \A q \in Run : ResultTyped(q)'
    BY <2>1, ResultsStayTyped DEF RowsTyped, SameResult
  <2> QED
    BY <2>1, <2>3, <2>4 DEF RowsTyped, IdsDiffer
<1>7. ASSUME NEW e \in NewEvents, Arrives(e)
      PROVE  RowsTyped'
  <2>1. UNCHANGED <<detections, result, feedback>> /\ events' = events \cup {e}
    BY <1>7 DEF Arrives, queueVars
  <2>2. events' \subseteq AllEvents
    BY <2>1 DEF RowsTyped, AllEvents
  <2>3. \A q \in Run : ResultTyped(q)'
    BY <2>1, ResultsStayTyped DEF RowsTyped, SameResult
  <2> QED
    BY <2>1, <2>2, <2>3 DEF RowsTyped, IdsDiffer
<1>8. CASE UNCHANGED vars
  <2>1. UNCHANGED <<events, detections, result, feedback>>
    BY <1>8 DEF vars, queueVars
  <2> QED
    BY <2>1, RowsStayTyped DEF SameResult
<1>9. ASSUME NEW r \in Run, LoadEvents(r)
      PROVE  RowsTyped'
  <2>1. PICK log : log = events
    OBVIOUS
  <2>2. PICK res : res = [result[r] EXCEPT !.at = "loaded", !.events = log]
    OBVIOUS
  <2>3. /\ result' = [result EXCEPT ![r] = res]
        /\ UNCHANGED <<events, feedback, detections>>
    BY <1>9, <2>1, <2>2 DEF LoadEvents, queueVars
  <2>4. DOMAIN result = Run /\ DOMAIN result[r] = DOMAIN NoResult
    BY DEF IInv, TablesShaped, ResultSound
  <2>5. result'[r] = res /\ \A q \in Run \ {r} : result'[q] = result[q]
    BY <2>3, <2>4
  <2>6. /\ res.events = log /\ res.found = result[r].found
        /\ res.cases = result[r].cases /\ res.learned = result[r].learned
    BY <2>2, <2>4 DEF NoResult
  <2>7. \A q \in Run : ResultTyped(q)'
    <3>1. \A q \in Run \ {r} : ResultTyped(q)'
      BY <2>5, ResultsStayTyped DEF RowsTyped, SameResult
    <3>2. CaseRowOf(result[r].found)' = CaseRowOf(result'[r].found)
      BY DEF CaseRowOf, Queue!CaseId
    <3>3. ResultTyped(r)'
      BY <2>1, <2>5, <2>6, <3>2 DEF RowsTyped, ResultTyped, IdsDiffer
    <3> QED
      BY <3>1, <3>3
  <2> QED
    BY <2>3, <2>7 DEF RowsTyped, IdsDiffer
<1> QED
  BY <1>1, <1>2, <1>3, <1>4, <1>5, <1>6, <1>7, <1>8, <1>9 DEF Next

LEMMA RowsAlwaysTyped ==
    ASSUME ScoresInHundredths
    PROVE  Spec => [](IInv /\ RowsTyped)
<1>1. Init => IInv /\ RowsTyped
  BY InitSound, RowsTypedAtFirst
<1>2. IInv /\ RowsTyped /\ [Next]_vars => (IInv /\ RowsTyped)'
  BY Inductive, RowsStep
<1> QED
  BY <1>1, <1>2, PTL DEF Spec

----------------------------------------------------------------------------
(* The pipeline implements the case queue.                                 *)

\* Every step is a step of the queue, with the findings of the run chosen for
\* Queue!Assess, or does not touch it.
LEMMA StepsOfTheQueue ==
    ASSUME ScoresInHundredths, IInv, RowsTyped, [Next]_vars
    PROVE  [QueueStep]_queueVars
<1>1. ASSUME NEW r \in Run, Assess(r)
      PROVE  QueueStep
  <2>1. Queue!RunAt(r, "assess") /\
        \E queue \in Queue!Queues(Queue!Unsuppressed(AbstractFindings(r)', run[r].muted)) :
            Queue!Enqueue(r, queue)
    BY <1>1, AssessedIsTyped
  <2>2. Queue!Assess(r, AbstractFindings(r)')
    <3>1. PICK found : found = AbstractFindings(r)'
      OBVIOUS
    <3>2. Queue!Assess(r, found)
      BY <2>1, <3>1 DEF Queue!Assess
    <3> QED
      BY <3>1, <3>2
  <2> QED
    BY <2>2 DEF QueueStep
<1>2. ASSUME NEW r \in Run,
             ReadSuppressions(r) \/ LookUpFirst(r) \/ UpsertCases(r) \/ RunDies(r)
      PROVE  QueueStep
  BY <1>2 DEF ReadSuppressions, LookUpFirst, UpsertCases, RunDies, QueueStep
<1>3. ASSUME NEW r \in Run,
             LoadEvents(r) \/ StoreDetections(r) \/ \E a \in Actor : SaveEntityDays(r, a)
      PROVE  UNCHANGED queueVars
  BY <1>3 DEF LoadEvents, StoreDetections, SaveEntityDays
<1>4. ASSUME NEW t \in Thread, Analyst(t)
      PROVE  QueueStep
  BY <1>4 DEF Analyst, QueueStep
<1>5. ASSUME NEW e \in NewEvents, Arrives(e)
      PROVE  UNCHANGED queueVars
  BY <1>5 DEF Arrives
<1>6. CASE UNCHANGED vars
  BY <1>6 DEF vars
<1> QED
  BY <1>1, <1>2, <1>3, <1>4, <1>5, <1>6 DEF Next

\* The stages come to what CaseQueue allows (ImplementsQueue): a queue is of
\* people with findings that were not suppressed, each case opened on the first
\* of them, and build_cases never makes more of them than the budget.
THEOREM QueueImplemented ==
    ASSUME ScoresInHundredths
    PROVE  Spec => ImplementsQueue
<1>1. Init => Queue!Init
  BY DEF Init
<1>2. IInv /\ RowsTyped /\ [Next]_vars => [QueueStep]_queueVars
  BY StepsOfTheQueue
<1> QED
  BY <1>1, <1>2, RowsAlwaysTyped, PTL DEF Spec, ImplementsQueue

\* So what is proved of CaseQueue holds here.
QP == INSTANCE CaseQueueProofs WITH Channels <- <<>>

LEMMA QueueAssumptions == QP!CaseQueueAssumption
<1>1. <<>> \in Seq({"webhook", "slack", "email"})
  OBVIOUS
<1>2. QP!IsFiniteSet(Name)
  BY NamesAreFinite DEF QP!IsFiniteSet, IsFiniteSet
<1> QED
  BY <1>1, <1>2, DaysAreNatural, PipelineAssumption, RiskAssumption DEF QP!CaseQueueAssumption

LEMMA QueueStepSound ==
    ASSUME QP!IInv, QueueStep, RowsTyped'
    PROVE  QP!IInv'
<1>1. ASSUME NEW r \in Run, Queue!ReadSuppressions(r)
      PROVE  QP!IInv'
  <2>1. QP!ReadSuppressions(r)
    BY <1>1 DEF Queue!ReadSuppressions, QP!ReadSuppressions, Queue!RunAt, QP!RunAt
  <2> QED
    BY <2>1, QueueAssumptions, QP!ReadSuppressionsKeeps
<1>2. ASSUME NEW r \in Run, Queue!Assess(r, AbstractFindings(r)')
      PROVE  QP!IInv'
  <2>1. PICK found : found = AbstractFindings(r)'
    OBVIOUS
  <2>2. Queue!Assess(r, found)
    BY <1>2, <2>1
  <2>3. QP!Assess(r, found)
    <3>1. \A kept : QP!Queues(kept) = Queue!Queues(kept)
      BY DEF Queue!Queues, QP!Queues, Queue!Made, QP!Made, Queue!Tops, QP!Tops,
         Queue!Min, QP!Min, Queue!Cardinality, QP!Cardinality
    <3>2. QP!Unsuppressed(found, run[r].muted) = Queue!Unsuppressed(found, run[r].muted)
      BY DEF QP!Unsuppressed, Queue!Unsuppressed
    <3>3. \A queue : Queue!Enqueue(r, queue) => QP!Enqueue(r, queue)
      BY DEF Queue!Enqueue, QP!Enqueue
    <3> QED
      BY <2>2, <3>1, <3>2, <3>3 DEF Queue!Assess, QP!Assess, Queue!RunAt, QP!RunAt
  <2>4. found \in SUBSET QP!Finding
    <3>1. result'[r].found \subseteq FoundRow
      BY DEF RowsTyped, ResultTyped
    <3>2. found = {[actor |-> d.actor, name |-> d.name, day |-> d.day] : d \in result'[r].found}
      BY <2>1 DEF AbstractFindings
    <3>3. \A d \in FoundRow : d.actor \in Actor /\ d.name \in Name /\ d.day \in Day
      BY DEF FoundRow
    <3> QED
      BY <3>1, <3>2, <3>3 DEF QP!Finding
  <2> QED
    BY <2>3, <2>4, QueueAssumptions, QP!AssessKeeps
<1>3. ASSUME NEW r \in Run, Queue!LookUpFirst(r)
      PROVE  QP!IInv'
  <2>1. QP!LookUpFirst(r)
    BY <1>3 DEF Queue!LookUpFirst, QP!LookUpFirst, Queue!RunAt, QP!RunAt,
       Queue!Ids, QP!Ids, Queue!Present, QP!Present
  <2> QED
    BY <2>1, QueueAssumptions, QP!LookUpFirstKeeps
<1>4. ASSUME NEW r \in Run, Queue!Upsert(r)
      PROVE  QP!IInv'
  <2>1. QP!Upsert(r)
    BY <1>4 DEF Queue!Upsert, QP!Upsert, Queue!RunAt, QP!RunAt, Queue!Ids, QP!Ids,
       Queue!Exists, QP!Exists, Queue!Present, QP!Present, Queue!CaseId, QP!CaseId,
       Queue!WrittenRow, QP!WrittenRow, Queue!NoRow, QP!NoRow, Queue!Fresh, QP!Fresh,
       Queue!AfterUpsert, QP!AfterUpsert
  <2> QED
    BY <2>1, QueueAssumptions, QP!UpsertKeeps
<1>5. ASSUME NEW r \in Run, Queue!RunDies(r)
      PROVE  QP!IInv'
  <2>1. QP!RunDies(r)
    BY <1>5 DEF Queue!RunDies, QP!RunDies, Queue!Fresh, QP!Fresh
  <2> QED
    BY <2>1, QueueAssumptions, QP!RunDiesKeeps
<1> USE DEF Queue!At, QP!At, Queue!Go, QP!Go, Queue!Idle, QP!Idle, Queue!Present, QP!Present
<1>6. ASSUME NEW t \in Thread, NEW c \in Queue!CaseId, NEW d \in Queue!Disposition,
             NEW suppress \in BOOLEAN, Queue!AskFeedback(t, c, d, suppress)
      PROVE  QP!IInv'
  <2>1. QP!AskFeedback(t, c, d, suppress)
    BY <1>6 DEF Queue!AskFeedback, QP!AskFeedback
  <2>2. c \in QP!CaseId /\ d \in QP!Disposition
    BY DEF Queue!CaseId, QP!CaseId, Queue!Disposition, QP!Disposition
  <2> QED
    BY <2>1, <2>2, QueueAssumptions, QP!AskFeedbackKeeps
<1>7. ASSUME NEW t \in Thread, Queue!ReadFindings(t)
      PROVE  QP!IInv'
  <2>1. QP!ReadFindings(t)
    BY <1>7 DEF Queue!ReadFindings, QP!ReadFindings
  <2> QED
    BY <2>1, QueueAssumptions, QP!ReadFindingsKeeps
<1>8. ASSUME NEW t \in Thread, Queue!InsertFeedback(t)
      PROVE  QP!IInv'
  <2>1. QP!InsertFeedback(t)
    <3>1. Queue!Cardinality(feedback) = QP!Cardinality(feedback)
      BY DEF Queue!Cardinality, QP!Cardinality
    <3> QED
      BY <1>8, <3>1 DEF Queue!InsertFeedback, QP!InsertFeedback
  <2> QED
    BY <2>1, QueueAssumptions, QP!InsertFeedbackKeeps
<1>9. ASSUME NEW t \in Thread, NEW id \in SuppressionId, NEW n \in Name,
             Queue!AddSuppression(t, id, n)
      PROVE  QP!IInv'
  <2>1. QP!AddSuppression(t, id, n)
    BY <1>9 DEF Queue!AddSuppression, QP!AddSuppression
  <2> QED
    BY <2>1, QueueAssumptions, QP!AddSuppressionKeeps
<1>10. ASSUME NEW t \in Thread, Queue!Record(t)
       PROVE  QP!IInv'
  <2>1. QP!Record(t)
    BY <1>10 DEF Queue!Record, QP!Record
  <2> QED
    BY <2>1, QueueAssumptions, QP!QuietKeeps
<1> QED
  BY <1>1, <1>2, <1>3, <1>4, <1>5, <1>6, <1>7, <1>8, <1>9, <1>10 DEF QueueStep, Verdict

LEMMA QueueStands ==
    ASSUME QP!IInv, UNCHANGED queueVars
    PROVE  QP!IInv'
<1>1. UNCHANGED QP!vars
  BY DEF queueVars, QP!vars
<1> QED
  BY <1>1, QueueAssumptions, QP!StepKeeps

\* Logs, tables, results and the locals of runs and requests keep their types
\* (TypeOK): no risk is below the threshold or above the highest score, no
\* learned weight below a half, and no detection_id is in the table twice.
THEOREM TypeCorrect ==
    ASSUME ScoresInHundredths
    PROVE  Spec => []TypeOK
<1>1. Init => QP!IInv
  <2>1. Queue!Init => QP!Init
    BY DEF Queue!Init, QP!Init, Queue!CaseId, QP!CaseId, Queue!NoRow, QP!NoRow,
       Queue!Fresh, QP!Fresh, Queue!Idle, QP!Idle
  <2> QED
    BY <2>1, QueueAssumptions, QP!Starts DEF Init
<1>2. /\ IInv /\ RowsTyped /\ QP!IInv
      /\ [Next]_vars
      /\ (IInv /\ RowsTyped)'
      => QP!IInv'
  BY StepsOfTheQueue, QueueStepSound, QueueStands
<1>3. Spec => []QP!IInv
  BY <1>1, <1>2, RowsAlwaysTyped, PTL DEF Spec
<1>4. ASSUME IInv, RowsTyped, QP!IInv
      PROVE  TypeOK
  <2>1. events \subseteq Event
    BY <1>4 DEF IInv, TablesShaped
  <2>2. /\ detections \subseteq DetectionRow
        /\ \A d, e \in detections : DetectionId(d) = DetectionId(e) => d = e
    BY <1>4 DEF RowsTyped, IdsDiffer
  <2>3. ASSUME NEW r \in Run
        PROVE  /\ result[r].at \in {"none", "loaded", "assessed", "stored"}
               /\ result[r].found \subseteq DetectionRow
               /\ result[r].cases \subseteq CaseRow
               /\ \A n \in Name : result[r].learned[n] \in 50..150
    <3>1. result[r].at \in {"none", "loaded", "assessed", "stored"}
      BY <1>4 DEF IInv, ResultSound
    <3>2. ResultTyped(r)
      BY <1>4 DEF RowsTyped
    <3>3. FoundRow \subseteq DetectionRow
      BY DaysAreNatural DEF FoundRow, DetectionRow
    <3>4. CaseRowOf(result[r].found) \subseteq CaseRow
      BY DEF CaseRowOf, CaseRow
    <3> QED
      BY <3>1, <3>2, <3>3, <3>4 DEF ResultTyped
  <2>4. Queue!TypeOK
    <3>1. QP!TypeOK
      BY <1>4, QueueAssumptions, QP!InvariantTypes
    <3> QED
      BY <3>1 DEF Queue!TypeOK, QP!TypeOK, Queue!CaseId, QP!CaseId, Queue!Row, QP!Row,
         Queue!Disposition, QP!Disposition, Queue!RunState, QP!RunState, Queue!Case, QP!Case,
         Queue!Handler, QP!Handler, Queue!FeedbackRow, QP!FeedbackRow, Queue!Max, QP!Max
  <2> QED
    BY <2>1, <2>2, <2>3, <2>4 DEF TypeOK
<1> QED
  BY <1>3, <1>4, RowsAlwaysTyped, PTL

----------------------------------------------------------------------------
(* What verdicts, suppressions and time do to a risk.                      *)

\* Everything a queue is made from can be scored, for each person separately.
LEMMA ResultsAreScorable ==
    ASSUME IInv, RowsTyped, NEW r \in Run
    PROVE  /\ Kept(r) \subseteq result[r].found
           /\ Scorable(result[r].found, result[r].learned)
           /\ OwnTellable(result[r].found)
<1>1. PICK found : found = result[r].found
  OBVIOUS
<1>2. PICK learned : learned = result[r].learned
  OBVIOUS
<1>3. /\ IsFiniteSet(found) /\ found \subseteq FoundRow /\ IdsDiffer(found)
      /\ \A n \in Name : learned[n] \in 50..150
  BY <1>1, <1>2 DEF RowsTyped, ResultTyped
<1>4. ASSUME NEW d \in found
      PROVE  /\ WellFormed(d) /\ Weighable(d, learned) /\ d.actor \in Actor
             /\ d.day \in Int /\ d.engine \in {"rules", "statistical", "ml"}
  <2>1. d \in FoundRow
    BY <1>3
  <2>2. WellFormed(d) /\ d.actor \in Actor /\ d.name \in Name
    BY <2>1 DEF FoundRow, WellFormed
  <2>3. learned[d.name] \in Nat
    <3>1. learned[d.name] \in 50..150
      BY <1>3, <2>2
    <3> QED
      BY <3>1
  <2>4. d.day \in Int
    <3>1. d.day \in Day
      BY <2>1 DEF FoundRow
    <3>2. \A day \in Day : day \in Int
      BY DaysAreNatural
    <3> QED
      BY <3>1, <3>2
  <2> QED
    BY <2>2, <2>3, <2>4 DEF Weighable, WellFormed
<1>5. Scorable(found, learned)
  BY <1>3, <1>4 DEF Scorable
<1>6. \A a : Tellable(Own(a, found))
  BY <1>3, OwnIsTellable
<1>7. Kept(r) \subseteq found
  BY <1>1 DEF Kept, Unsuppressed
<1> QED
  BY <1>1, <1>2, <1>5, <1>6, <1>7 DEF OwnTellable

LEMMA OwnKeptIsScorable ==
    ASSUME IInv, RowsTyped, NEW r \in Run, NEW a
    PROVE  /\ IsFiniteSet(OwnKept(r, a)) /\ Tellable(OwnKept(r, a))
           /\ \A d \in OwnKept(r, a) : WellFormed(d) /\ Weighable(d, result[r].learned)
<1>1. PICK own : own = OwnKept(r, a)
  OBVIOUS
<1>2. own \subseteq result[r].found /\ own \subseteq Own(a, result[r].found)
  BY <1>1, ResultsAreScorable DEF OwnKept, Own
<1>3. IsFiniteSet(own) /\ \A d \in own : WellFormed(d) /\ Weighable(d, result[r].learned)
  BY <1>2, ResultsAreScorable, FS_Subset DEF Scorable
<1>4. Tellable(Own(a, result[r].found))
  BY ResultsAreScorable DEF OwnTellable
<1>5. Tellable(own)
  BY <1>2, <1>4 DEF Tellable
<1> QED
  BY <1>1, <1>3, <1>5

\* An assessed run has computed its queue, at the time of the last event it read.
LEMMA AssessedAtATime ==
    ASSUME IInv, NEW r \in Run, result[r].at \in {"assessed", "stored"}
    PROVE  /\ last_ts(result[r].events) \in Int
           /\ result[r].cases = BuildCases(Kept(r), result[r].learned, last_ts(result[r].events))
<1>1. result[r].events \in Log
      /\ result[r].cases = BuildCases(Kept(r), result[r].learned, last_ts(result[r].events))
  BY DEF IInv, ResultSound, Computed
<1> QED
  BY <1>1, LastEvent

\* risk.py:15-19 (EvidenceAddsUp): no finding lowers a risk, wherever it ranks among
\* its repeats, and a repeat no heavier than another adds at most a third of itself.
THEOREM EvidenceOnlyAdds ==
    ASSUME ScoresInHundredths
    PROVE  Spec => []EvidenceAddsUp
<1>1. ASSUME IInv, RowsTyped
      PROVE  EvidenceAddsUp
  <2> SUFFICES ASSUME NEW r \in JustAssessed, NEW d \in Kept(r)
               PROVE  LET own == OwnKept(r, d.actor)
                          as_of == last_ts(result[r].events)
                          weight == [x \in own |-> DetectionWeight(x, result[r].learned, as_of)]
                          more == Contributions(own, weight) - Contributions(own \ {d}, weight)
                      IN  /\ RawRisk(d.actor, own \ {d}, result[r].learned, as_of)
                                <= RawRisk(d.actor, own, result[r].learned, as_of)
                          /\ (\E x \in own \ {d} : x.name = d.name /\ weight[x] >= weight[d])
                                => more <= weight[d] \div 3
    BY DEF EvidenceAddsUp
  <2>1. r \in Run /\ result[r].at \in {"assessed", "stored"}
    BY DEF JustAssessed, Here
  <2>2. PICK as_of \in Int : as_of = last_ts(result[r].events)
    BY <1>1, <2>1, AssessedAtATime
  <2>3. PICK own : own = OwnKept(r, d.actor)
    OBVIOUS
  <2>4. PICK learned : learned = result[r].learned
    OBVIOUS
  <2>5. PICK weight : weight = [x \in own |-> DetectionWeight(x, learned, as_of)]
    OBVIOUS
  <2>6. /\ IsFiniteSet(own) /\ Tellable(own) /\ d \in own
        /\ \A x \in own : WellFormed(x) /\ Weighable(x, learned)
    BY <1>1, <2>1, <2>3, <2>4, OwnKeptIsScorable DEF OwnKept
  <2>7. \A x \in own : DetectionWeight(x, learned, as_of) \in Nat /\ weight[x] \in Nat
    BY <2>5, <2>6, WeightIsNatural
  <2>8. RawRisk(d.actor, own \ {d}, learned, as_of) <= RawRisk(d.actor, own, learned, as_of)
    <3>1. PICK rest \in SUBSET own : rest = own \ {d}
      OBVIOUS
    <3>2. NoMoreContext(d.actor, as_of, as_of)
      BY DEF NoMoreContext
    <3>3. \A x \in rest :
              /\ Weighable(x, learned)
              /\ DetectionWeight(x, learned, as_of) <= DetectionWeight(x, learned, as_of)
      BY <2>6, <2>7
    <3>4. RawRisk(d.actor, rest, learned, as_of) <= RawRisk(d.actor, own, learned, as_of)
      BY <2>6, <3>2, <3>3, RiskGrows
    <3> QED
      BY <3>1, <3>4
  <2>9. ASSUME NEW x \in own \ {d}, x.name = d.name, weight[x] >= weight[d]
        PROVE  Contributions(own, weight) - Contributions(own \ {d}, weight) <= weight[d] \div 3
    BY <2>6, <2>7, <2>9, RepeatAddsAThird
  <2> QED
    BY <2>2, <2>3, <2>4, <2>5, <2>8, <2>9
<1> QED
  BY <1>1, RowsAlwaysTyped, PTL

\* feedback.py:6-8 (MutedForThatPersonOnly): a suppression changes nobody else's case
\* for the worse, although people compete for the budget.
THEOREM OthersStayInTheQueue ==
    ASSUME ScoresInHundredths
    PROVE  Spec => []MutedForThatPersonOnly
<1>1. ASSUME IInv, RowsTyped
      PROVE  MutedForThatPersonOnly
  <2> SUFFICES ASSUME NEW r \in JustAssessed,
                      NEW c \in BuildCases(result[r].found, result[r].learned,
                                           last_ts(result[r].events)),
                      c.id.actor \notin {m[1] : m \in result[r].muted}
               PROVE  c \in result[r].cases
    BY DEF MutedForThatPersonOnly
  <2>1. r \in Run /\ result[r].at \in {"assessed", "stored"}
    BY DEF JustAssessed, Here
  <2>2. PICK as_of \in Int : as_of = last_ts(result[r].events)
    BY <1>1, <2>1, AssessedAtATime
  <2>3. PICK found : found = result[r].found
    OBVIOUS
  <2>4. PICK learned : learned = result[r].learned
    OBVIOUS
  <2>5. PICK kept \in SUBSET found : kept = Kept(r)
    BY <1>1, <2>1, <2>3, ResultsAreScorable
  <2>6. Scorable(found, learned) /\ OwnTellable(found)
    BY <1>1, <2>1, <2>3, <2>4, ResultsAreScorable
  <2>7. Own(c.id.actor, kept) = Own(c.id.actor, found)
    <3>1. ASSUME NEW d \in found, d.actor = c.id.actor
          PROVE  d \in kept
      <4>1. PICK m : m = <<d.actor, d.name>>
        OBVIOUS
      <4>2. m[1] = c.id.actor
        BY <3>1, <4>1
      <4>3. m \notin result[r].muted
        BY <4>2
      <4> QED
        BY <2>3, <2>5, <4>1, <4>3 DEF Kept, Unsuppressed
    <3> QED
      BY <3>1 DEF Own
  <2>8. c \in BuildCases(kept, learned, as_of)
    BY <2>2, <2>3, <2>4, <2>6, <2>7, CaseStays
  <2> QED
    BY <1>1, <2>1, <2>2, <2>4, <2>5, <2>8, AssessedAtATime
<1> QED
  BY <1>1, RowsAlwaysTyped, PTL

\* README.md:198 (FeedbackAdjusts): whatever the verdicts, a raw risk is between half
\* and one and a half of what it is without them, but for rounding.
THEOREM VerdictsAdjust ==
    ASSUME ScoresInHundredths
    PROVE  Spec => []FeedbackAdjusts
<1>1. ASSUME IInv, RowsTyped
      PROVE  FeedbackAdjusts
  <2> SUFFICES ASSUME NEW r \in JustAssessed, NEW a \in {d.actor : d \in Kept(r)}
               PROVE  HalfToOneAndAHalf(
                          RawRisk(a, OwnKept(r, a), result[r].learned, last_ts(result[r].events)),
                          RawRisk(a, OwnKept(r, a), [n \in Name |-> 100], last_ts(result[r].events)),
                          SlackOfRisk(Cardinality(OwnKept(r, a))))
    BY DEF FeedbackAdjusts
  <2>1. r \in Run /\ result[r].at \in {"assessed", "stored"}
    BY DEF JustAssessed, Here
  <2>2. PICK as_of \in Int : as_of = last_ts(result[r].events)
    BY <1>1, <2>1, AssessedAtATime
  <2>3. PICK own : own = OwnKept(r, a)
    OBVIOUS
  <2>4. PICK learned : learned = result[r].learned
    OBVIOUS
  <2>5. PICK unlearned : unlearned = [n \in Name |-> 100]
    OBVIOUS
  <2>6. own # {}
    BY <2>3 DEF OwnKept
  <2>7. /\ IsFiniteSet(own) /\ Tellable(own)
        /\ \A d \in own : WellFormed(d) /\ Weighable(d, learned)
    BY <1>1, <2>1, <2>3, <2>4, OwnKeptIsScorable
  <2>8. ASSUME NEW d \in own
        PROVE  learned[d.name] \in 50..150 /\ unlearned[d.name] = 100
    <3>1. d \in result[r].found
      BY <1>1, <2>1, <2>3, ResultsAreScorable DEF OwnKept
    <3>2. d \in FoundRow /\ \A n \in Name : learned[n] \in 50..150
      BY <1>1, <2>1, <2>4, <3>1 DEF RowsTyped, ResultTyped
    <3>3. d.name \in Name
      BY <3>2 DEF FoundRow
    <3> QED
      BY <2>5, <3>2, <3>3
  <2>9. HalfToOneAndAHalf(RawRisk(a, own, learned, as_of), RawRisk(a, own, unlearned, as_of),
                          SlackOfRisk(Cardinality(own)))
    BY <2>6, <2>7, <2>8, RiskAdjusts
  <2> QED
    BY <2>2, <2>3, <2>4, <2>5, <2>9
<1> QED
  BY <1>1, RowsAlwaysTyped, PTL

\* risk.py:12 (OldNewsFades): without a new finding, a higher learned weight, a new
\* context or an earlier date, nobody is scored higher.
THEOREM RisksFade ==
    ASSUME ScoresInHundredths, MultipliersRaise
    PROVE  Spec => []OldNewsFades
<1>1. ASSUME IInv, RowsTyped
      PROVE  OldNewsFades
  <2> SUFFICES ASSUME NEW r \in Assessed, NEW q \in JustAssessed, NEW a \in Actor,
                      last_ts(result[r].events) <= last_ts(result[q].events),
                      OwnKept(q, a) \subseteq OwnKept(r, a),
                      entity_context(a, last_ts(result[q].events))
                          \subseteq entity_context(a, last_ts(result[r].events)),
                      \A d \in OwnKept(q, a) :
                          result[q].learned[d.name] <= result[r].learned[d.name]
               PROVE  score_entity(a, OwnKept(q, a), result[q].learned, last_ts(result[q].events))
                          <= score_entity(a, OwnKept(r, a), result[r].learned,
                                          last_ts(result[r].events))
    BY DEF OldNewsFades
  <2>1. r \in Run /\ result[r].at \in {"assessed", "stored"} /\ q \in Run /\ result[q].at \in {"assessed", "stored"}
    BY DEF Assessed, JustAssessed, Here
  <2>2. PICK then \in Int, now \in Int :
            /\ then = last_ts(result[r].events) /\ now = last_ts(result[q].events)
            /\ then <= now
    BY <1>1, <2>1, AssessedAtATime
  <2>3. PICK before : before = OwnKept(r, a)
    OBVIOUS
  <2>4. PICK after \in SUBSET before : after = OwnKept(q, a)
    BY <2>3
  <2>5. PICK learned : learned = result[r].learned
    OBVIOUS
  <2>6. PICK lower : lower = result[q].learned
    OBVIOUS
  <2>7. /\ IsFiniteSet(before) /\ Tellable(before)
        /\ \A d \in before : WellFormed(d) /\ Weighable(d, learned)
    BY <1>1, <2>1, <2>3, <2>5, OwnKeptIsScorable
  <2>8. \A d \in after : Weighable(d, lower)
    BY <1>1, <2>1, <2>4, <2>6, OwnKeptIsScorable
  <2>9. ASSUME NEW d \in after
        PROVE  DetectionWeight(d, lower, now) <= DetectionWeight(d, learned, then)
    <3>1. lower[d.name] <= learned[d.name]
      BY <2>4, <2>5, <2>6
    <3> QED
      BY <2>2, <2>7, <2>8, <3>1, WeightFades
  <2>10. NoMoreContext(a, now, then)
    BY <2>2 DEF NoMoreContext
  <2>11. score_entity(a, after, lower, now) <= score_entity(a, before, learned, then)
    BY <2>7, <2>8, <2>9, <2>10, ScoreGrows
  <2> QED
    BY <2>2, <2>3, <2>4, <2>5, <2>6, <2>11
<1> QED
  BY <1>1, RowsAlwaysTyped, PTL

----------------------------------------------------------------------------
(* The replay.                                                             *)

\* A tick is not before a midnight if its day is not before that day.
LEMMA SinceMidnight ==
    ASSUME NEW t \in Int, NEW day \in Int
    PROVE  DayOf(t) \in Int /\ (t >= day * TicksPerDay <=> DayOf(t) >= day)
<1> DEFINE n == TicksPerDay
<1>1. n \in Nat /\ n > 0
  BY BaselineAssumption
<1>2. PICK k \in Int, i \in 0..(n - 1) : k = t \div n /\ t = n * k + i
  BY <1>1
<1>3. DayOf(t) = k
  BY <1>2 DEF DayOf
<1>4. ASSUME k >= day
      PROVE  t >= day * n
  <2>1. n * (k - day) >= 0
    BY <1>1, <1>4
  <2>2. n * (k - day) = n * k - day * n
    BY <1>1
  <2> HIDE DEF n
  <2> QED
    BY <1>1, <1>2, <2>1, <2>2
<1>5. ASSUME k + 1 <= day
      PROVE  ~(t >= day * n)
  <2>1. n * (day - k) >= n
    BY <1>1, <1>5
  <2>2. n * (day - k) = day * n - n * k
    BY <1>1
  <2> HIDE DEF n
  <2> QED
    BY <1>1, <1>2, <2>1, <2>2
<1> QED
  BY <1>3, <1>4, <1>5

WindowTicks == EvalWindowDays * TicksPerDay

LEMMA WindowTicksPositive == WindowTicks \in Nat /\ WindowTicks > 0
BY BaselineAssumption, EvaluationAssumption DEF WindowTicks

LEMMA FirstMidnight ==
    ASSUME NEW log \in Log
    PROVE  /\ FirstStart(log) \in Nat
           /\ \E day \in Int : FirstStart(log) = day * TicksPerDay
<1> DEFINE times == {e.at : e \in log}
<1>1. times \in SUBSET Nat /\ times # {}
  BY DEF Log, Event
<1>2. first_ts(log) \in Nat
  <2> HIDE DEF times
  <2>1. Min(times) \in Nat
    BY <1>1, MinIsMember
  <2> QED
    BY <2>1 DEF first_ts, times
<1>3. TicksPerDay \in Nat /\ TicksPerDay > 0 /\ TrainDays \in Nat
  BY BaselineAssumption, EvaluationAssumption
<1>4. DayOf(first_ts(log)) \in Nat
  BY <1>2, <1>3 DEF DayOf
<1>5. PICK day \in Nat : day = DayOf(first_ts(log)) + TrainDays
  BY <1>3, <1>4
<1>6. FirstStart(log) = day * TicksPerDay
  BY <1>5 DEF FirstStart
<1> QED
  BY <1>3, <1>5, <1>6

\* Every window begins and ends with a midnight.
LEMMA WindowsAtMidnight ==
    ASSUME NEW log \in Log, NEW start \in Windows(log)
    PROVE  /\ start \in Nat
           /\ EndOf(start) = start + WindowTicks
           /\ \E day \in Int : /\ start = day * TicksPerDay
                               /\ EndOf(start) = (day + EvalWindowDays) * TicksPerDay
<1>1. PICK first \in Nat : first = FirstStart(log)
  BY FirstMidnight
<1>2. PICK day \in Int : first = day * TicksPerDay
  BY <1>1, FirstMidnight
<1>3. last_ts(log) \in Nat
  BY LastEvent
<1>4. start \in first..(last_ts(log) - 1) /\ (start - first) % WindowTicks = 0
  BY <1>1 DEF Windows, WindowTicks
<1>5. start \in Nat
  BY <1>3, <1>4
<1>6. PICK j \in Int : start - first = WindowTicks * j
  <2>1. start - first = WindowTicks * ((start - first) \div WindowTicks)
                            + ((start - first) % WindowTicks)
    BY <1>5, WindowTicksPositive
  <2>2. (start - first) \div WindowTicks \in Int
    BY <1>5, WindowTicksPositive
  <2> QED
    BY <1>4, <1>5, <2>1, <2>2, WindowTicksPositive
<1>7. TicksPerDay \in Int /\ EvalWindowDays \in Int
  BY BaselineAssumption, EvaluationAssumption
<1>8. start = (day + EvalWindowDays * j) * TicksPerDay
  <2>1. start = day * TicksPerDay + (EvalWindowDays * TicksPerDay) * j
    BY <1>2, <1>5, <1>6, <1>7 DEF WindowTicks
  <2>2. (EvalWindowDays * TicksPerDay) * j = (EvalWindowDays * j) * TicksPerDay
    BY <1>7
  <2> QED
    BY <1>7, <2>1, <2>2
<1>9. EndOf(start) = (day + EvalWindowDays * j + EvalWindowDays) * TicksPerDay
  BY <1>7, <1>8 DEF EndOf
<1>10. EndOf(start) = start + WindowTicks
  BY DEF EndOf, WindowTicks
<1>11. day + EvalWindowDays * j \in Int
  BY <1>7
<1> QED
  BY <1>5, <1>8, <1>9, <1>10, <1>11

\* An event is scored in the windows that are there at its time.
LEMMA ScoredInItsWindow ==
    ASSUME NEW log \in Log, NEW e \in log
    PROVE  ScoredIn(log, e) = {start \in Windows(log) : start <= e.at /\ e.at < EndOf(start)}
<1>1. e.at \in Int
  BY DEF Log, Event
<1>2. TrainDays * TicksPerDay \in Nat
  BY BaselineAssumption, EvaluationAssumption
<1>3. ASSUME NEW start \in Windows(log)
      PROVE  (e.at >= start /\ e \in Chunk(log, start)) <=> (start <= e.at /\ e.at < EndOf(start))
  <2>1. start \in Int
    BY WindowsAtMidnight
  <2>2. PICK m \in Nat : m = TrainDays * TicksPerDay
    BY <1>2
  <2>3. e \in Chunk(log, start) <=> e.at >= start - m /\ e.at < EndOf(start)
    BY <2>2 DEF Chunk
  <2>4. e.at >= start => e.at >= start - m
    BY <1>1, <2>1, <2>2
  <2> QED
    BY <1>1, <2>1, <2>3, <2>4
<1> QED
  BY <1>3 DEF ScoredIn

\* The end of one window is the start of the next: an event after the training and
\* before the last is in one of them.
LEMMA OneWindow ==
    ASSUME NEW log \in Log, NEW e \in log,
           e.at >= FirstStart(log), e.at < last_ts(log)
    PROVE  \E start : ScoredIn(log, e) = {start}
<1>1. PICK w \in Nat : w = WindowTicks /\ w > 0
  BY WindowTicksPositive
<1>2. PICK first \in Nat : first = FirstStart(log)
  BY FirstMidnight
<1>3. PICK t \in Int : t = e.at
  BY DEF Log, Event
<1>4. PICK last \in Nat : last = last_ts(log)
  BY LastEvent
<1>5. first <= t /\ t < last
  BY <1>2, <1>3, <1>4
<1>6. PICK k \in Int, i \in 0..(w - 1) : t - first = w * k + i /\ k = (t - first) \div w
  BY <1>1
<1> DEFINE start == first + w * k
<1>7. k >= 0
  BY <1>1, <1>5, <1>6
<1>8. w * k \in Nat
  BY <1>1, <1>7
<1>9. (w * k) % w = 0
  <2>1. PICK q \in Int, j \in 0..(w - 1) : w * k = w * q + j /\ j = (w * k) % w
    BY <1>1, <1>8
  <2>2. w * (k - q) = j
    BY <1>1, <2>1
  <2>3. k - q >= 1 => w * (k - q) >= w
    BY <1>1
  <2>4. k - q <= -1 => w * (k - q) <= -w
    BY <1>1
  <2> QED
    BY <1>1, <2>1, <2>2, <2>3, <2>4
<1>10. start \in Windows(log)
  <2>1. start \in first..(last - 1)
    BY <1>5, <1>6, <1>8
  <2>2. (start - first) % w = 0
    BY <1>8, <1>9
  <2> HIDE DEF start
  <2> QED
    BY <1>1, <1>2, <1>4, <2>1, <2>2 DEF Windows, WindowTicks
<1>11. start <= t /\ t < start + w
  BY <1>6, <1>8
<1>12. ASSUME NEW other \in Windows(log), other <= t, t < EndOf(other)
       PROVE  other = start
  <2>1. other \in first..(last - 1) /\ (other - first) % w = 0
    BY <1>1, <1>2, <1>4 DEF Windows, WindowTicks
  <2>2. t < other + w
    BY <1>1, <1>12, WindowsAtMidnight
  <2>3. PICK q \in Int : other - first = w * q
    <3>1. PICK x \in Nat : x = other - first
      BY <2>1
    <3>2. PICK q \in Int, j \in 0..(w - 1) : x = w * q + j /\ q = x \div w /\ j = x % w
      BY <1>1
    <3> QED
      BY <1>1, <2>1, <3>1, <3>2
  <2>4. w * (k - q) = (t - first - i) - (other - first)
    BY <1>1, <1>6, <2>1, <2>3
  <2>5. k - q >= 1 => w * (k - q) >= w
    BY <1>1
  <2>6. k - q <= -1 => w * (k - q) <= -w
    BY <1>1
  <2>7. k = q
    BY <1>1, <1>12, <2>1, <2>2, <2>4, <2>5, <2>6
  <2> QED
    BY <2>1, <2>3, <2>7
<1>13. \A other \in Windows(log) : other <= t /\ t < EndOf(other) <=> other = start
  <2>1. start <= t /\ t < EndOf(start)
    BY <1>1, <1>10, <1>11, WindowsAtMidnight
  <2> HIDE DEF start
  <2> QED
    BY <1>12, <2>1
<1>14. ScoredIn(log, e) = {start}
  <2> HIDE DEF start
  <2> QED
    BY <1>3, <1>10, <1>13, ScoredInItsWindow
<1> QED
  BY <1>14

\* What happens on one day is scored in the same windows: they begin and end at
\* midnight.
LEMMA DaysWhole ==
    ASSUME NEW log \in Log, NEW e \in log, NEW f \in log, DayOf(f.at) = DayOf(e.at)
    PROVE  ScoredIn(log, f) = ScoredIn(log, e)
<1>1. PICK t \in Int, u \in Int : t = e.at /\ u = f.at
  BY DEF Log, Event
<1>2. ASSUME NEW start \in Windows(log)
      PROVE  start <= u /\ u < EndOf(start) <=> start <= t /\ t < EndOf(start)
  <2>1. PICK day \in Int : /\ start = day * TicksPerDay
                           /\ EndOf(start) = (day + EvalWindowDays) * TicksPerDay
    BY WindowsAtMidnight
  <2>2. PICK end \in Int : end = day + EvalWindowDays
    BY EvaluationAssumption
  <2>3. /\ t >= day * TicksPerDay <=> DayOf(t) >= day
        /\ u >= day * TicksPerDay <=> DayOf(u) >= day
        /\ t >= end * TicksPerDay <=> DayOf(t) >= end
        /\ u >= end * TicksPerDay <=> DayOf(u) >= end
    BY <2>2, SinceMidnight
  <2>4. DayOf(t) = DayOf(u)
    BY <1>1
  <2>5. start \in Int /\ EndOf(start) \in Int
    BY WindowsAtMidnight, WindowTicksPositive
  <2>6. /\ t >= start <=> u >= start
        /\ t >= EndOf(start) <=> u >= EndOf(start)
    BY <2>1, <2>2, <2>3, <2>4
  <2> QED
    BY <2>5, <2>6
<1> QED
  BY <1>1, <1>2, ScoredInItsWindow

\* evaluation.py (ReplayIsLive): the replay of a log measures what an analyst
\* would have seen, whenever it is done.
THEOREM ReplaysAreLive == Spec => []ReplayIsLive
<1>1. ASSUME IInv, events # {}
      PROVE  ReplayIsLive
  <2>1. events \in Log
    BY <1>1 DEF IInv, TablesShaped, Log
  <2>2. ASSUME NEW start \in Windows(events)
        PROVE  QueueOf(events, start) = QueueOf({e \in events : e.at < EndOf(start)}, start)
    <3>1. Chunk({e \in events : e.at < EndOf(start)}, start) = Chunk(events, start)
      BY DEF Chunk
    <3> QED
      BY <3>1 DEF QueueOf
  <2>3. ASSUME NEW e \in events, e.at >= FirstStart(events), e.at < last_ts(events)
        PROVE  /\ Cardinality(ScoredIn(events, e)) = 1
               /\ \A f \in events : DayOf(f.at) = DayOf(e.at)
                      => ScoredIn(events, f) = ScoredIn(events, e)
    <3>1. Cardinality(ScoredIn(events, e)) = 1
      BY <2>1, <2>3, OneWindow, FS_Singleton
    <3> QED
      BY <2>1, <3>1, DaysWhole
  <2>4. Detected(events) \subseteq Evaluable(events)
    <3>1. ASSUME NEW start \in Windows(events), NEW a \in TruePositives(events, start)
          PROVE  a \in Evaluable(events)
      <4>1. PICK i \in Insiders : i.actor = a /\ IsActive(i, start)
        BY DEF TruePositives
      <4> QED
        BY <4>1 DEF Evaluable
    <3> QED
      BY <3>1 DEF Detected
  <2>5. ASSUME NEW a \in Detected(events)
        PROVE  \E i \in Insiders : i.actor = a /\ i.start < DetectedAt(events, a)
    <3> DEFINE starts == {start \in Windows(events) : a \in TruePositives(events, start)}
    <3>1. starts \in SUBSET Nat
      BY <2>1, WindowsAtMidnight
    <3>2. starts # {}
      BY DEF Detected
    <3>3. Min(starts) \in starts
      <4> HIDE DEF starts
      <4> QED
        BY <3>1, <3>2, MinIsMember
    <3>4. PICK i \in Insiders : i.actor = a /\ IsActive(i, Min(starts))
      BY <3>3 DEF TruePositives
    <3> QED
      BY <3>4 DEF IsActive, DetectedAt
  <2> QED
    BY <2>2, <2>3, <2>4, <2>5 DEF ReplayIsLive
<1>2. IInv => ReplayIsLive
  <2>1. events = {} => ReplayIsLive
    BY DEF ReplayIsLive
  <2> QED
    BY <1>1, <2>1
<1> QED
  BY <1>2, Invariant, PTL
====
