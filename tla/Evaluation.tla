---- MODULE Evaluation ----
(***************************************************************************)
(* The offline evaluation (evaluation.py): the log is replayed window by   *)
(* window, each trained on the days before it, and the queues are compared *)
(* with the insiders of an answer key.  It keeps no state: what it         *)
(* computes is a function of the log, here of the one that Pipeline grows. *)
(***************************************************************************)
EXTENDS Pipeline

CONSTANTS
    EvalWindowDays,    \* window_days, 14 by default
    TrainDays,         \* train_days, 60 by default
    Insiders           \* the answer key: [actor, start, end]

ASSUME EvaluationAssumption ==
    /\ EvalWindowDays \in Nat \ {0}
    /\ TrainDays \in Nat \ {0}
    /\ \A i \in Insiders : i.actor \in Actor /\ i.start <= i.end

first_ts(log) == Min({e.at : e \in log})

\* Windows begin at midnight, after the days of training.
FirstStart(log) == (DayOf(first_ts(log)) + TrainDays) * TicksPerDay

EndOf(start) == start + EvalWindowDays * TicksPerDay

\* while start < last
Windows(log) ==
    {start \in FirstStart(log)..(last_ts(log) - 1) :
        (start - FirstStart(log)) % (EvalWindowDays * TicksPerDay) = 0}

WithTheFuture(log, start) == {e \in log : e.at >= start - TrainDays * TicksPerDay}

Chunk(log, start) ==
    {e \in log : e.at >= start - TrainDays * TicksPerDay /\ e.at < EndOf(start)}

\* Pipeline(config).run without a store: no suppressions, no learned weights.
QueueOf(log, start) ==
    LET chunk == Chunk(log, start)
        queue == BuildCases(Detections(chunk, start), [n \in Name |-> 100], last_ts(chunk))
    IN  IF chunk = {} THEN {} ELSE {c.id.actor : c \in queue}

\* i.start < end and i.end >= start
IsActive(i, start) == i.start < EndOf(start) /\ i.end >= start

TruePositives(log, start) ==
    {a \in QueueOf(log, start) : \E i \in Insiders : i.actor = a /\ IsActive(i, start)}

Detected(log) == UNION {TruePositives(log, start) : start \in Windows(log)}

\* detected.setdefault: the end of the first window.
DetectedAt(log, a) ==
    EndOf(Min({start \in Windows(log) : a \in TruePositives(log, start)}))

Evaluable(log) ==
    {i.actor : i \in {x \in Insiders : \E start \in Windows(log) : IsActive(x, start)}}

----------------------------------------------------------------------------

\* The windows an event is scored in.
ScoredIn(log, e) == {start \in Windows(log) : e.at >= start /\ e \in Chunk(log, start)}

\* The replay measures what an analyst would have seen.  A window's queue owes
\* nothing to what came after it; each event after the training is scored in one
\* window, and all of a day in the same, but for a last event on the midnight a
\* window would begin with; nobody counts as detected who was not evaluable, nor
\* before anything of theirs began.
ReplayIsLive ==
    (events # {} /\ \A r \in Run : Queue!RunAt(r, "start")) =>
        /\ \A start \in Windows(events) :
               QueueOf(events, start) = QueueOf({e \in events : e.at < EndOf(start)}, start)
        /\ \A e \in {x \in events : x.at >= FirstStart(events) /\ x.at < last_ts(events)} :
               /\ Cardinality(ScoredIn(events, e)) = 1
               /\ \A f \in events : DayOf(f.at) = DayOf(e.at)
                      => ScoredIn(events, f) = ScoredIn(events, e)
        /\ Detected(events) \subseteq Evaluable(events)
        /\ \A a \in Detected(events) :
               \E i \in Insiders : i.actor = a /\ i.start < DetectedAt(events, a)
====
